-------------------------- MODULE MCPictures_proofs --------------------------
(***************************************************************************)
(* Theorems about what a channel's pictures look like, with their proofs:  *)
(* the drawings of the library (Illustrations), for any number of requests *)
(* at one time, drawings, names and videos, the samples of the visual      *)
(* languages (LanguageSamples) and the languages and their pins            *)
(* (VisualLanguages).  CallOK says what may still be said of the rows a    *)
(* request read before the model drew for minutes.                         *)
(***************************************************************************)
EXTENDS MCPictures, FiniteSetsExt, FiniteSetTheorems, TLAPS, WellFoundedInduction

-----------------------------------------------------------------------------
(* The least and the greatest of a set of numbers.                         *)

\* Min of a set of numbers is in it, and none is smaller.
LEMMA MinIs ==
    ASSUME NEW S \in SUBSET Nat, S # {}
    PROVE  Min(S) \in S /\ \A x \in S : Min(S) <= x
<1> DEFINE R == {pair \in Nat \X Nat : pair[1] < pair[2]}
<1>1. IsWellFoundedOn(R, Nat)
  BY NatLessThanWellFounded DEF OpToRel
<1>2. \A y, z \in Nat : y < z => <<y, z>> \in R
  OBVIOUS
<1> HIDE DEF R
<1>3. PICK x \in S : \A y \in S : ~(<<y, x>> \in R)
  BY <1>1, WFMin
<1>4. \A y \in S : x <= y
  <2> TAKE y \in S
  <2>1. ~(y < x)
    BY <1>2, <1>3
  <2> QED  BY <2>1
<1>5. \E z \in S : \A y \in S : z <= y
  BY <1>4
<1> QED  BY <1>5 DEF Min

\* Max of a bounded set of numbers is in it, and none is greater.
LEMMA MaxIs ==
    ASSUME NEW n \in Nat, NEW S \in SUBSET (0..n), S # {}
    PROVE  Max(S) \in S /\ \A x \in S : x <= Max(S)
<1> DEFINE T == {n - x : x \in S}
<1>1. T \in SUBSET Nat
  OBVIOUS
<1>2. T # {}
  OBVIOUS
<1>3. Min(T) \in T /\ \A y \in T : Min(T) <= y
  BY <1>1, <1>2, MinIs
<1>4. PICK m \in S : Min(T) = n - m
  BY <1>3
<1>5. ASSUME NEW x \in S PROVE m >= x
  <2>1. n - x \in T
    OBVIOUS
  <2>2. n - m <= n - x
    BY <1>3, <1>4, <2>1
  <2> QED  BY <2>2
<1>6. \E z \in S : \A y \in S : z >= y
  BY <1>5
<1>7. Max(S) \in S /\ \A y \in S : Max(S) >= y
  BY <1>6 DEF Max
<1> QED  BY <1>7

-----------------------------------------------------------------------------
(* The inductive invariant.                                                *)

RowStates == {"planned", "drawing", "drawn", "reused", "failed", "skipped"}

DrawingShape(d) ==
    /\ d = [name |-> d.name, code |-> d.code, status |-> d.status, version |-> d.version,
            exemplar |-> d.exemplar, source |-> d.source, preview |-> d.preview]
    /\ d.status \in {"draft", "approved"} /\ d.exemplar \in {"no", "original", "copy"}
    /\ d.version \in Nat /\ d.preview.version \in Nat

RowShape(row) ==
    /\ row = [project |-> row.project, name |-> row.name, state |-> row.state, ill |-> row.ill]
    /\ row.project \in Projects /\ row.state \in RowStates

\* The library: ids are given once, sources are there.
LibOK ==
    /\ made \in 0 .. MaxDrawings /\ DOMAIN lib \subseteq 1 .. made
    /\ \A id \in DOMAIN lib : /\ DrawingShape(lib[id])
                              /\ lib[id].source \in DOMAIN lib \cup {NoDrawing}

\* An approved drawing that is no copy was approved as it is, an original too.
Blessed ==
    \A id \in DOMAIN lib :
        lib[id].status = "approved" /\ lib[id].exemplar # "copy"
            => <<id, lib[id].name, lib[id].code>> \in blessed

RowsOK ==
    /\ listed \in 0 .. MaxRows /\ DOMAIN rows \subseteq 1 .. listed
    /\ \A r \in DOMAIN rows : RowShape(rows[r]) /\ rows[r].ill \in DOMAIN lib \cup {NoDrawing}
    /\ drawing \subseteq 1 .. listed

\* A call that will save a row has one of a list.
HoldsRow(l) ==
    \/ l.at \in {"start", "ai", "saveRow", "endDraw"}
    \/ l.at \in {"insert", "preview"} /\ l.op = "draw"
    \/ l.at \in {"check", "delete"} /\ l.op = "deleteDrawing"

CallOK(l) ==
    /\ l.at = "insert" =>
          /\ DrawingShape(l.new) /\ l.new.preview.version < l.new.version
          /\ IF l.op = "exemplar" THEN l.new.exemplar = "copy"
             ELSE l.new.exemplar = "no" /\ l.new.source = NoDrawing /\ l.new.status = "draft"
    /\ l.at = "update" =>
          /\ DrawingShape(l.new) /\ l.op # "draw" /\ l.id \in 1 .. made
          /\ l.id \in DOMAIN lib => lib[l.id].exemplar = "no"
          /\ l.op # "status" /\ l.new.status = "approved"
                => <<l.id, l.new.name, l.new.code>> \in blessed
    /\ l.at = "release" =>
          l.id \in 1 .. made /\ (l.id \in DOMAIN lib => lib[l.id].exemplar # "copy")
    /\ l.at = "preview" => l.preview.version \in Nat /\ l.id \in 1 .. made
    /\ HoldsRow(l) => RowShape(l.row) /\ l.r \in 1 .. listed
    /\ l.at = "plan" => l.project \in Projects
    /\ l.at = "replace" => /\ l.project \in Projects /\ IsFiniteSet(l.list)
                           /\ \A row \in l.list : RowShape(row)

CallsOK == DOMAIN call = Threads /\ \A t \in Threads : CallOK(call[t])

\* With one request at a time what it read is what is there.
FreshCall(l) ==
    /\ l.at = "update" /\ l.id \in DOMAIN lib =>
          \/ l.new.version = lib[l.id].version /\ l.new.code = lib[l.id].code
          \/ l.new.version = lib[l.id].version + 1
    /\ l.at = "preview" /\ l.id \in DOMAIN lib =>
          l.preview.version = lib[l.id].version /\ l.preview.code = lib[l.id].code

Previewed(d) ==
    /\ d.preview.version <= d.version
    /\ d.preview.version = d.version => d.preview.code = d.code

Orderly ==
    /\ orderly \in BOOLEAN
    /\ orderly =>
          /\ \A t, u \in Threads : t # u => call[t] = Idle \/ call[u] = Idle
          /\ \A t \in Threads : FreshCall(call[t])
          /\ \A id \in DOMAIN lib : Previewed(lib[id])

Inv ==
    /\ LibOK /\ Blessed /\ ExemplarsBounded /\ RowsOK /\ CallsOK /\ Orderly

-----------------------------------------------------------------------------
(* Sequences and sets.                                                     *)

\* SetToSeq lays a finite set out: a sequence of its elements, as long as it is big.
LEMMA SetToSeqIs ==
    ASSUME NEW S, IsFiniteSet(S)
    PROVE  /\ SetToSeq(S) \in Seq(S) /\ Len(SetToSeq(S)) = Cardinality(S)
           /\ Cardinality(S) \in Nat
<1> DEFINE n == Cardinality(S)
<1>1. n \in Nat /\ ExistsBijection(1 .. n, S)
  BY FS_CardinalityType
<1>2. PICK g \in Bijection(1 .. n, S) : TRUE
  BY <1>1 DEF ExistsBijection
<1>3. g \in [1 .. n -> S] /\ IsInjective(g)
  BY <1>2 DEF Bijection, Injection, IsInjective
<1>4. SetToSeq(S) \in [1 .. n -> S]
  BY <1>3 DEF SetToSeq
<1>5. \A f \in [1 .. n -> S] : f \in Seq(S) /\ Len(f) = n
  BY <1>1
<1> QED  BY <1>1, <1>4, <1>5

\* There are never more drawings than were made.
LEMMA ExemplarsFinite ==
    ASSUME LibOK
    PROVE  IsFiniteSet(Exemplars) /\ Cardinality(Exemplars) \in Nat
<1>1. IsFiniteSet(1 .. made)
  BY FS_Interval, BoundsAssumption DEF LibOK
<1>2. Exemplars \subseteq 1 .. made
  BY DEF LibOK, Exemplars
<1> QED  BY <1>1, <1>2, FS_Subset, FS_CardinalityType

\* A step that makes no exemplar, and gives none another source than it had or
\* none, leaves their number within bounds.
LEMMA ExemplarsStay ==
    ASSUME LibOK, ExemplarsBounded,
           \A id \in DOMAIN lib' : lib'[id].exemplar # "no" =>
              /\ id \in DOMAIN lib /\ lib[id].exemplar # "no"
              /\ lib'[id].source \in {lib[id].source, NoDrawing}
    PROVE  ExemplarsBounded'
<1>1. IsFiniteSet(Exemplars) /\ Cardinality(Exemplars) \in Nat
  BY ExemplarsFinite
<1>2. PICK before, after : before = Exemplars /\ after = Exemplars'
  OBVIOUS
<1>3. after \subseteq before
  BY <1>2 DEF Exemplars
<1>4. IsFiniteSet(after) /\ Cardinality(after) <= Cardinality(before)
  BY <1>1, <1>2, <1>3, FS_Subset
<1>5. Cardinality(after) \in Nat
  BY <1>4, FS_CardinalityType
<1>6. MaxExemplars \in Nat /\ Cardinality(before) <= MaxExemplars
  BY <1>2, BoundsAssumption DEF ExemplarsBounded
<1>7. Cardinality(after) <= MaxExemplars
  BY <1>1, <1>2, <1>4, <1>5, <1>6
<1>8. \A e \in after : e \in before /\ lib'[e].source \in {lib[e].source, NoDrawing}
  BY <1>2, <1>3 DEF Exemplars
<1>9. \A e, f \in after : e # f /\ lib'[e].source = lib'[f].source => lib'[e].source = NoDrawing
  BY <1>2, <1>8 DEF ExemplarsBounded
<1> QED  BY <1>2, <1>7, <1>9 DEF ExemplarsBounded

-----------------------------------------------------------------------------
(* What a step leaves as it was.                                           *)

\* Ids and approvals are never taken back, and no drawing becomes an exemplar.
Grows ==
    /\ made \in Nat /\ made' \in Nat /\ listed \in Nat /\ listed' \in Nat
    /\ made <= made' /\ listed <= listed' /\ blessed \subseteq blessed'
    /\ \A id \in DOMAIN lib' : id \in 1 .. made =>
          id \in DOMAIN lib /\ lib'[id].exemplar \in {lib[id].exemplar, "no"}

\* What may be said of a call is still so after steps of others.
LEMMA CallStays ==
    ASSUME Grows, NEW CONSTANT l, CallOK(l)
    PROVE  CallOK(l)'
<1>1. \A id \in 1 .. made : id \in 1 .. made'
  BY DEF Grows
<1>2. \A r \in 1 .. listed : r \in 1 .. listed'
  BY DEF Grows
<1>3. (l.at = "insert" =>
          /\ DrawingShape(l.new) /\ l.new.preview.version < l.new.version
          /\ IF l.op = "exemplar" THEN l.new.exemplar = "copy"
             ELSE l.new.exemplar = "no" /\ l.new.source = NoDrawing /\ l.new.status = "draft")'
  BY DEF CallOK, DrawingShape, NoDrawing
<1>4. (l.at = "update" =>
          /\ DrawingShape(l.new) /\ l.op # "draw" /\ l.id \in 1 .. made
          /\ l.id \in DOMAIN lib => lib[l.id].exemplar = "no"
          /\ l.op # "status" /\ l.new.status = "approved"
                => <<l.id, l.new.name, l.new.code>> \in blessed)'
  BY <1>1 DEF CallOK, DrawingShape, Grows
<1>5. (l.at = "release" =>
          l.id \in 1 .. made /\ (l.id \in DOMAIN lib => lib[l.id].exemplar # "copy"))'
  BY <1>1 DEF CallOK, Grows
<1>6. (l.at = "preview" => l.preview.version \in Nat /\ l.id \in 1 .. made)'
  BY <1>1 DEF CallOK
<1>7. (HoldsRow(l) => RowShape(l.row) /\ l.r \in 1 .. listed)'
  BY <1>2 DEF CallOK, HoldsRow, RowShape
<1>8. /\ (l.at = "plan" => l.project \in Projects)'
      /\ (l.at = "replace" => /\ l.project \in Projects /\ IsFiniteSet(l.list)
                              /\ \A row \in l.list : RowShape(row))'
  BY DEF CallOK, RowShape
<1> QED  BY <1>3, <1>4, <1>5, <1>6, <1>7, <1>8 DEF CallOK

\* Only the call of t moves, to k.
LEMMA CallsStep ==
    ASSUME CallsOK, Grows, NEW t \in Threads, NEW CONSTANT k, Goes(t, k), CallOK(k)'
    PROVE  CallsOK'
<1>1. DOMAIN call' = Threads
  BY DEF CallsOK, Goes
<1>2. ASSUME NEW u \in Threads PROVE CallOK(call[u])'
  <2>1. PICK j : j = call[u]
    OBVIOUS
  <2>2. CASE u = t
    BY <2>2 DEF CallsOK, Goes
  <2>3. CASE u # t
    <3>1. call'[u] = j
      BY <2>1, <2>3 DEF CallsOK, Goes
    <3>2. CallOK(j)'
      BY <2>1, CallStays DEF CallsOK
    <3> QED  BY <3>1, <3>2
  <2> QED  BY <2>2, <2>3
<1> QED  BY <1>1, <1>2 DEF CallsOK

\* A thread that serves nothing has read nothing.
LEMMA IdleOK == CallOK(Idle)' /\ FreshCall(Idle)'
BY DEF CallOK, FreshCall, HoldsRow, Idle

\* With one request at a time, the step of the only call keeps what is fresh.
LEMMA OrderlyStep ==
    ASSUME CallsOK, Orderly, orderly' = orderly, NEW t \in Threads, NEW CONSTANT k,
           call[t] # Idle, Goes(t, k), orderly => FreshCall(k)',
           orderly => \A id \in DOMAIN lib' : Previewed(lib'[id])
    PROVE  Orderly'
<1> SUFFICES ASSUME orderly
             PROVE  /\ \A u, v \in Threads : u # v => call'[u] = Idle \/ call'[v] = Idle
                    /\ \A u \in Threads : FreshCall(call[u])'
                    /\ \A id \in DOMAIN lib' : Previewed(lib[id])'
  BY DEF Orderly
<1>1. \A u \in Threads : u # t => call[u] = Idle
  BY DEF Orderly
<1>2. \A u \in Threads : call'[u] = IF u = t THEN k ELSE call[u]
  BY DEF CallsOK, Goes
<1>3. ASSUME NEW u \in Threads PROVE FreshCall(call[u])'
  <2>1. CASE u = t
    BY <1>2, <2>1
  <2>2. CASE u # t
    <3>1. call'[u] = Idle
      BY <1>1, <1>2, <2>2
    <3> QED  BY <3>1, IdleOK
  <2> QED  BY <2>1, <2>2
<1>4. \A id \in DOMAIN lib' : Previewed(lib[id])'
  BY DEF Previewed
<1>5. \A u, v \in Threads : u # v => call'[u] = Idle \/ call'[v] = Idle
  BY <1>1, <1>2
<1> QED  BY <1>3, <1>4, <1>5

\* The library stays as it was.
LEMMA LibStays ==
    ASSUME Inv, UNCHANGED <<lib, made, blessed>>, listed' \in Nat, listed <= listed'
    PROVE  /\ LibOK' /\ Blessed' /\ ExemplarsBounded' /\ Grows
           /\ orderly => \A id \in DOMAIN lib' : Previewed(lib'[id])
<1>1. LibOK'
  BY DEF Inv, LibOK, DrawingShape, NoDrawing
<1>2. Blessed'
  BY DEF Inv, Blessed
<1>3. ExemplarsBounded'
  BY ExemplarsStay DEF Inv
<1>4. Grows
  BY DEF Inv, LibOK, RowsOK, Grows
<1>5. orderly => \A id \in DOMAIN lib' : Previewed(lib'[id])
  BY DEF Inv, Orderly
<1> QED  BY <1>1, <1>2, <1>3, <1>4, <1>5

\* The lists stay as they were, when no drawing they link goes.
LEMMA RowsStay ==
    ASSUME RowsOK, UNCHANGED <<rows, drawing, listed>>, DOMAIN lib \subseteq DOMAIN lib'
    PROVE  RowsOK'
BY DEF RowsOK, RowShape, NoDrawing

-----------------------------------------------------------------------------
(* A request begins.                                                       *)

\* A request begins with what is there.
LEMMA BeginsKeeps ==
    ASSUME Inv, NEW t \in Threads, NEW CONSTANT local, Begins(t, local), CallOK(local),
           orderly => FreshCall(local)
    PROVE  Inv'
<1>1. /\ UNCHANGED <<lib, rows, drawing, made, listed, blessed>> /\ Goes(t, local)
      /\ orderly' = (orderly /\ \A u \in Threads : call[u] = Idle) /\ call[t] = Idle
  BY DEF Begins, Goes
<1>2. listed' \in Nat /\ listed <= listed'
  BY <1>1 DEF Inv, RowsOK
<1>3. LibOK' /\ Blessed' /\ ExemplarsBounded' /\ Grows
  BY <1>1, <1>2, LibStays
<1>4. RowsOK'
  BY <1>1, RowsStay DEF Inv
<1>5. CallOK(local)'
  BY <1>3, CallStays
<1>6. CallsOK'
  BY <1>1, <1>3, <1>5, CallsStep DEF Inv
<1>7. Orderly'
  <2>1. \A u \in Threads : call'[u] = IF u = t THEN local ELSE call[u]
    BY <1>1 DEF Inv, CallsOK, Goes
  <2>2. orderly' \in BOOLEAN /\ (orderly' => orderly /\ \A u \in Threads : call[u] = Idle)
    BY <1>1
  <2> SUFFICES ASSUME orderly'
               PROVE  /\ \A u, v \in Threads : u # v => call'[u] = Idle \/ call'[v] = Idle
                      /\ \A u \in Threads : FreshCall(call[u])'
                      /\ \A id \in DOMAIN lib' : Previewed(lib[id])'
    BY <2>2 DEF Orderly
  <2>3. \A u, v \in Threads : u # v => call'[u] = Idle \/ call'[v] = Idle
    BY <2>1, <2>2
  <2>4. ASSUME NEW u \in Threads PROVE FreshCall(call[u])'
    <3>1. CASE u = t
      <4>1. FreshCall(local)'
        BY <1>1, <2>2 DEF FreshCall
      <4> QED  BY <2>1, <3>1, <4>1
    <3>2. CASE u # t
      <4>1. call'[u] = Idle
        BY <2>1, <2>2, <3>2
      <4> QED  BY <4>1, IdleOK
    <3> QED  BY <3>1, <3>2
  <2>5. \A id \in DOMAIN lib' : Previewed(lib[id])'
    BY <1>1, <2>2 DEF Inv, Orderly, Previewed
  <2> QED  BY <2>3, <2>4, <2>5
<1> QED  BY <1>3, <1>4, <1>6, <1>7 DEF Inv

\* A drawing just made.
LEMMA DrawingIs ==
    ASSUME NEW name, NEW code, NEW state \in {"draft", "approved"},
           NEW exemplar \in {"no", "original", "copy"}, NEW source,
           NEW d, d = Drawing(name, code, state, exemplar, source)
    PROVE  /\ DrawingShape(d) /\ d.version = 1 /\ d.preview.version = 0
           /\ d.name = name /\ d.code = code /\ d.status = state
           /\ d.exemplar = exemplar /\ d.source = source
BY DEF Drawing, DrawingShape

\* The next version of a drawing is one, and a draft.
LEMMA NextDraftIs ==
    ASSUME NEW d, DrawingShape(d), NEW name, NEW code, NEW e,
           e = [name |-> name, code |-> code, status |-> "draft", version |-> d.version + 1,
                exemplar |-> d.exemplar, source |-> d.source, preview |-> d.preview]
    PROVE  DrawingShape(e) /\ e.version = d.version + 1 /\ e.status = "draft"
<1>1. /\ e.name = name /\ e.code = code /\ e.status = "draft" /\ e.version = d.version + 1
      /\ e.exemplar = d.exemplar /\ e.source = d.source /\ e.preview = d.preview
  OBVIOUS
<1>2. /\ e.status \in {"draft", "approved"} /\ e.exemplar \in {"no", "original", "copy"}
      /\ e.version \in Nat /\ e.preview.version \in Nat
  BY <1>1 DEF DrawingShape
<1>3. e = [name |-> e.name, code |-> e.code, status |-> e.status, version |-> e.version,
           exemplar |-> e.exemplar, source |-> e.source, preview |-> e.preview]
  BY <1>1
<1> QED  BY <1>1, <1>2, <1>3 DEF DrawingShape

\* What an edit saves is what was read, or a draft of the next version.
LEMMA EditedIs ==
    ASSUME NEW d, DrawingShape(d), NEW name, NEW code, NEW e, e = Edited(d, name, code)
    PROVE  /\ DrawingShape(e)
           /\ \/ e = d
              \/ e.version = d.version + 1 /\ e.status = "draft"
<1>1. CASE name = d.name /\ code = d.code
  BY <1>1 DEF Edited
<1>2. CASE ~(name = d.name /\ code = d.code)
  <2>1. e = [name |-> name, code |-> code, status |-> "draft", version |-> d.version + 1,
             exemplar |-> d.exemplar, source |-> d.source, preview |-> d.preview]
    BY <1>2 DEF Edited, DrawingShape
  <2> QED  BY <2>1, NextDraftIs
<1> QED  BY <1>1, <1>2

LEMMA RedrawnIs ==
    ASSUME NEW d, DrawingShape(d), NEW code, NEW e, e = Redrawn(d, code)
    PROVE  DrawingShape(e) /\ e.version = d.version + 1 /\ e.status = "draft"
<1>1. e = [name |-> d.name, code |-> code, status |-> "draft", version |-> d.version + 1,
           exemplar |-> d.exemplar, source |-> d.source, preview |-> d.preview]
  BY DEF Redrawn, DrawingShape
<1> QED  BY <1>1, NextDraftIs

\* The requests that will insert a drawing or edit one.
LEMMA MakingBegins ==
    ASSUME Inv, NEW t \in Threads,
           \/ Create(t) \/ Update(t) \/ Redraw(t)
           \/ SetStatus(t) \/ MakeExemplar(t)
    PROVE  Inv'
<1>0. LibOK /\ Blessed
  BY DEF Inv
<1>a. ASSUME NEW op, op # "draw", NEW d, DrawingShape(d), d.version = 1, d.preview.version = 0,
             IF op = "exemplar" THEN d.exemplar = "copy"
             ELSE d.exemplar = "no" /\ d.source = NoDrawing /\ d.status = "draft",
             Begins(t, Inserting(op, d, 0, NoRow))
      PROVE  Inv'
  <2>1. PICK l : l = Inserting(op, d, 0, NoRow)
    OBVIOUS
  <2>2. l.at = "insert" /\ l.op = op /\ l.new = d
    BY <2>1 DEF Inserting
  <2>3. CallOK(l) /\ FreshCall(l)
    BY <1>a, <2>2 DEF CallOK, FreshCall, HoldsRow
  <2> QED  BY <1>a, <2>1, <2>3, BeginsKeeps
<1>1. CASE Create(t)
  <2>1. PICK n \in Names, c \in Codes :
           Begins(t, Inserting("create", Drawing(<<n, 0>>, c, "draft", "no", NoDrawing), 0, NoRow))
    BY <1>1 DEF Create
  <2>2. PICK d : d = Drawing(<<n, 0>>, c, "draft", "no", NoDrawing)
    OBVIOUS
  <2>3. /\ DrawingShape(d) /\ d.version = 1 /\ d.preview.version = 0
        /\ d.exemplar = "no" /\ d.source = NoDrawing /\ d.status = "draft"
    BY <2>2, DrawingIs
  <2> QED  BY <1>a, <2>1, <2>2, <2>3
<1>2. CASE MakeExemplar(t)
  <2>1. PICK id \in DOMAIN lib :
           Begins(t, Inserting("exemplar",
                   Drawing(ExemplarCopyName(lib[id].name), lib[id].code, "approved", "copy", id),
                   0, NoRow))
    BY <1>2 DEF MakeExemplar
  <2>2. PICK d : d = Drawing(ExemplarCopyName(lib[id].name), lib[id].code, "approved", "copy", id)
    OBVIOUS
  <2>3. DrawingShape(d) /\ d.version = 1 /\ d.preview.version = 0 /\ d.exemplar = "copy"
    BY <2>2, DrawingIs
  <2> QED  BY <1>a, <2>1, <2>2, <2>3
<1>b. ASSUME NEW id \in DOMAIN lib, ~ReadOnly(lib[id])
      PROVE  /\ DrawingShape(lib[id]) /\ id \in 1 .. made /\ lib[id].exemplar = "no"
             /\ lib[id].status = "approved" => <<id, lib[id].name, lib[id].code>> \in blessed
  BY <1>0, <1>b DEF LibOK, Blessed, ReadOnly
<1>3. CASE Update(t)
  <2>1. PICK id \in DOMAIN lib, n \in Names, c \in Codes :
           /\ ~ReadOnly(lib[id])
           /\ Begins(t, [op |-> "update", at |-> "update", id |-> id,
                         new |-> Edited(lib[id], <<n, 0>>, c),
                         redrawn |-> lib[id].name # <<n, 0>> \/ lib[id].code # c])
    BY <1>3 DEF Update
  <2>2. PICK e, redrawn : /\ e = Edited(lib[id], <<n, 0>>, c)
                          /\ redrawn = (lib[id].name # <<n, 0>> \/ lib[id].code # c)
    OBVIOUS
  <2>3. /\ DrawingShape(e)
        /\ \/ e = lib[id]
           \/ e.version = lib[id].version + 1 /\ e.status = "draft"
    <3>1. DrawingShape(lib[id])
      BY <1>b, <2>1
    <3> QED  BY <2>2, <3>1, EditedIs
  <2>4. PICK l : l = [op |-> "update", at |-> "update", id |-> id, new |-> e, redrawn |-> redrawn]
    OBVIOUS
  <2>5. l.at = "update" /\ l.op = "update" /\ l.id = id /\ l.new = e
    BY <2>4
  <2>6. CallOK(l) /\ FreshCall(l)
    BY <1>b, <2>1, <2>3, <2>5 DEF CallOK, FreshCall, HoldsRow
  <2> QED  BY <2>1, <2>2, <2>4, <2>6, BeginsKeeps
<1>4. CASE SetStatus(t)
  <2>1. PICK id \in DOMAIN lib, s \in {"draft", "approved"} :
           /\ ~ReadOnly(lib[id])
           /\ Begins(t, [op |-> "status", at |-> "update", id |-> id,
                         new |-> [lib[id] EXCEPT !.status = s], redrawn |-> FALSE])
    BY <1>4 DEF SetStatus
  <2>2. PICK d, e : d = lib[id] /\ e = [d EXCEPT !.status = s]
    OBVIOUS
  <2>3. d = [name |-> d.name, code |-> d.code, status |-> d.status, version |-> d.version,
             exemplar |-> d.exemplar, source |-> d.source, preview |-> d.preview]
    BY <1>b, <2>1, <2>2 DEF DrawingShape
  <2>4. e = [name |-> d.name, code |-> d.code, status |-> s, version |-> d.version,
             exemplar |-> d.exemplar, source |-> d.source, preview |-> d.preview]
    BY <2>2, <2>3
  <2>5. /\ e.name = d.name /\ e.code = d.code /\ e.status = s /\ e.version = d.version
        /\ e.exemplar = d.exemplar /\ e.source = d.source /\ e.preview = d.preview
    BY <2>4
  <2>6. DrawingShape(e)
    BY <1>b, <2>1, <2>2, <2>4, <2>5 DEF DrawingShape
  <2>7. PICK l : l = [op |-> "status", at |-> "update", id |-> id, new |-> e, redrawn |-> FALSE]
    OBVIOUS
  <2>8. l.at = "update" /\ l.op = "status" /\ l.id = id /\ l.new = e
    BY <2>7
  <2>9. CallOK(l) /\ FreshCall(l)
    BY <1>b, <2>1, <2>2, <2>5, <2>6, <2>8 DEF CallOK, FreshCall, HoldsRow
  <2> QED  BY <2>1, <2>2, <2>7, <2>9, BeginsKeeps
<1>5. CASE Redraw(t)
  <2>1. PICK id \in DOMAIN lib, c \in Codes :
           /\ ~ReadOnly(lib[id])
           /\ Begins(t, [op |-> "update", at |-> "update", id |-> id,
                         new |-> Redrawn(lib[id], c), redrawn |-> TRUE])
    BY <1>5 DEF Redraw
  <2>2. PICK e : e = Redrawn(lib[id], c)
    OBVIOUS
  <2>3. DrawingShape(e) /\ e.version = lib[id].version + 1 /\ e.status = "draft"
    <3>1. DrawingShape(lib[id])
      BY <1>b, <2>1
    <3> QED  BY <2>2, <3>1, RedrawnIs
  <2>4. PICK l : l = [op |-> "update", at |-> "update", id |-> id, new |-> e, redrawn |-> TRUE]
    OBVIOUS
  <2>5. l.at = "update" /\ l.op = "update" /\ l.id = id /\ l.new = e
    BY <2>4
  <2>6. CallOK(l) /\ FreshCall(l)
    BY <1>b, <2>1, <2>3, <2>5 DEF CallOK, FreshCall, HoldsRow
  <2> QED  BY <2>1, <2>2, <2>4, <2>6, BeginsKeeps
<1> QED  BY <1>1, <1>2, <1>3, <1>4, <1>5

\* The requests that will delete a drawing, file one back or show one.
LEMMA ShowingBegins ==
    ASSUME Inv, NEW t \in Threads, Delete(t) \/ UnmakeExemplar(t) \/ Rerender(t)
    PROVE  Inv'
<1>0. LibOK
  BY DEF Inv
<1>a. ASSUME NEW op, op # "deleteDrawing", NEW id, Begins(t, Removing(op, id, {}, 0, NoRow))
      PROVE  Inv'
  <2>1. PICK l : l = Removing(op, id, {}, 0, NoRow)
    OBVIOUS
  <2>2. l.at = "check" /\ l.op = op
    BY <2>1 DEF Removing
  <2>3. CallOK(l) /\ FreshCall(l)
    BY <1>a, <2>2 DEF CallOK, FreshCall, HoldsRow
  <2> QED  BY <1>a, <2>1, <2>3, BeginsKeeps
<1>1. CASE Delete(t)
  BY <1>1, <1>a DEF Delete
<1>2. CASE UnmakeExemplar(t)
  <2>1. PICK id \in Exemplars :
           IF lib[id].exemplar = "copy"
           THEN Begins(t, Removing("unmake", id, {}, 0, NoRow))
           ELSE Begins(t, [op |-> "release", at |-> "release", id |-> id])
    BY <1>2 DEF UnmakeExemplar
  <2>2. CASE lib[id].exemplar = "copy"
    BY <1>a, <2>1, <2>2
  <2>3. CASE lib[id].exemplar # "copy"
    <3>1. PICK l : l = [op |-> "release", at |-> "release", id |-> id]
      OBVIOUS
    <3>2. l.at = "release" /\ l.op = "release" /\ l.id = id
      BY <3>1
    <3>3. id \in 1 .. made
      BY <1>0, <2>1 DEF LibOK, Exemplars
    <3>4. CallOK(l) /\ FreshCall(l)
      BY <2>3, <3>2, <3>3 DEF CallOK, FreshCall, HoldsRow
    <3> QED  BY <2>1, <2>3, <3>1, <3>4, BeginsKeeps
  <2> QED  BY <2>2, <2>3
<1>3. CASE Rerender(t)
  <2>1. PICK id \in DOMAIN lib : Begins(t, Previewing("rerender", id, lib[id]))
    BY <1>3 DEF Rerender
  <2>2. PICK l : l = Previewing("rerender", id, lib[id])
    OBVIOUS
  <2>3. /\ l.at = "preview" /\ l.op = "rerender" /\ l.id = id
        /\ l.preview.version = lib[id].version /\ l.preview.code = lib[id].code
    BY <2>2 DEF Previewing
  <2>4. id \in 1 .. made /\ lib[id].version \in Nat
    BY <1>0 DEF LibOK, DrawingShape
  <2>5. CallOK(l) /\ FreshCall(l)
    BY <2>3, <2>4 DEF CallOK, FreshCall, HoldsRow
  <2> QED  BY <2>1, <2>2, <2>5, BeginsKeeps
<1> QED  BY <1>1, <1>2, <1>3

\* A row with another state.
LEMMA RowWith ==
    ASSUME NEW row, RowShape(row), NEW s \in RowStates, NEW new, new = [row EXCEPT !.state = s]
    PROVE  /\ RowShape(new) /\ new.state = s
           /\ new.project = row.project /\ new.name = row.name /\ new.ill = row.ill
<1>1. row = [project |-> row.project, name |-> row.name, state |-> row.state, ill |-> row.ill]
  BY DEF RowShape
<1>2. new = [project |-> row.project, name |-> row.name, state |-> s, ill |-> row.ill]
  BY <1>1
<1>3. new.project = row.project /\ new.name = row.name /\ new.state = s /\ new.ill = row.ill
  BY <1>2
<1> QED  BY <1>2, <1>3 DEF RowShape

\* A row just made.
LEMMA RowIs ==
    ASSUME NEW p \in Projects, NEW name, NEW s \in RowStates, NEW ill,
           NEW row, row = Row(p, name, s, ill)
    PROVE  RowShape(row) /\ row.project = p /\ row.state = s /\ row.ill = ill
BY DEF Row, RowShape

\* The requests on a video's list.
LEMMA ListBegins ==
    ASSUME Inv, NEW t \in Threads,
           Plan(t) \/ Draw(t) \/ SetSkipped(t) \/ SetTier(t) \/ DeleteDrawing(t)
    PROVE  Inv'
<1>0. /\ listed \in Nat /\ \A r \in DOMAIN rows : r \in 1 .. listed /\ RowShape(rows[r])
      /\ \A r \in DOMAIN rows : rows[r].project \in Projects /\ rows[r].state \in RowStates
  BY DEF Inv, RowsOK, RowShape
<1>a. ASSUME NEW op, NEW r \in DOMAIN rows, NEW row, RowShape(row),
             Begins(t, SavingRow(op, r, row))
      PROVE  Inv'
  <2>1. PICK l : l = SavingRow(op, r, row)
    OBVIOUS
  <2>2. l.at = "saveRow" /\ l.r = r /\ l.row = row
    BY <2>1 DEF SavingRow
  <2>3. CallOK(l) /\ FreshCall(l)
    BY <1>0, <1>a, <2>2 DEF CallOK, FreshCall, HoldsRow
  <2> QED  BY <1>a, <2>1, <2>3, BeginsKeeps
<1>1. CASE Plan(t)
  <2>0. PICK p \in Projects :
           \E c : Begins(t, [op |-> "plan", at |-> "plan", project |-> p, catalog |-> c])
    BY <1>1 DEF Plan
  <2>1. PICK c : Begins(t, [op |-> "plan", at |-> "plan", project |-> p, catalog |-> c])
    BY <2>0
  <2>2. PICK l : l = [op |-> "plan", at |-> "plan", project |-> p, catalog |-> c]
    OBVIOUS
  <2>3. l.at = "plan" /\ l.op = "plan" /\ l.project = p
    BY <2>2
  <2>4. CallOK(l) /\ FreshCall(l)
    BY <2>3 DEF CallOK, FreshCall, HoldsRow
  <2> QED  BY <2>1, <2>2, <2>4, BeginsKeeps
<1>2. CASE Draw(t)
  <2>1. PICK r \in DOMAIN rows :
           Begins(t, [op |-> "draw", at |-> "start", r |-> r, row |-> rows[r]])
    BY <1>2 DEF Draw
  <2>2. PICK l : l = [op |-> "draw", at |-> "start", r |-> r, row |-> rows[r]]
    OBVIOUS
  <2>3. l.at = "start" /\ l.op = "draw" /\ l.r = r /\ l.row = rows[r]
    BY <2>2
  <2>4. CallOK(l) /\ FreshCall(l)
    BY <1>0, <2>3 DEF CallOK, FreshCall, HoldsRow
  <2> QED  BY <2>1, <2>2, <2>4, BeginsKeeps
<1>3. CASE SetSkipped(t)
  <2>1. PICK r \in DOMAIN rows :
           \E s \in {"skipped", TakenBack(rows[r])} :
              Begins(t, SavingRow(IF s = "skipped" THEN "skip" ELSE "unskip", r,
                                  [rows[r] EXCEPT !.state = s]))
    BY <1>3 DEF SetSkipped
  <2>2. PICK s \in {"skipped", TakenBack(rows[r])} :
           Begins(t, SavingRow(IF s = "skipped" THEN "skip" ELSE "unskip", r,
                               [rows[r] EXCEPT !.state = s]))
    BY <2>1
  <2>3. s \in RowStates
    BY DEF TakenBack, RowStates
  <2>4. PICK op, row : /\ op = (IF s = "skipped" THEN "skip" ELSE "unskip")
                       /\ row = [rows[r] EXCEPT !.state = s]
    OBVIOUS
  <2>5. RowShape(row)
    BY <1>0, <2>3, <2>4, RowWith
  <2> QED  BY <1>a, <2>2, <2>4, <2>5
<1>4. CASE SetTier(t)
  <2>1. PICK r \in DOMAIN rows, n \in Names :
           \/ Begins(t, SavingRow("tier", r, rows[r]))
           \/ Begins(t, SavingRow("tier", r, Row(rows[r].project, <<n, 0>>, "planned",
                                                 NoDrawing)))
    BY <1>4 DEF SetTier
  <2>2. PICK row : row = Row(rows[r].project, <<n, 0>>, "planned", NoDrawing)
    OBVIOUS
  <2>3. RowShape(row)
    BY <1>0, <2>2, RowIs DEF RowStates
  <2> QED  BY <1>0, <1>a, <2>1, <2>2, <2>3
<1>5. CASE DeleteDrawing(t)
  <2>1. PICK r \in DOMAIN rows :
           Begins(t, Removing("deleteDrawing", rows[r].ill, {rows[r].project}, r,
                              Row(rows[r].project, rows[r].name, "skipped", NoDrawing)))
    BY <1>5 DEF DeleteDrawing
  <2>2. PICK row : row = Row(rows[r].project, rows[r].name, "skipped", NoDrawing)
    OBVIOUS
  <2>3. RowShape(row)
    BY <1>0, <2>2, RowIs DEF RowStates
  <2>4. PICK l : l = Removing("deleteDrawing", rows[r].ill, {rows[r].project}, r, row)
    OBVIOUS
  <2>5. l.at = "check" /\ l.op = "deleteDrawing" /\ l.r = r /\ l.row = row
    BY <2>4 DEF Removing
  <2>6. CallOK(l) /\ FreshCall(l)
    BY <1>0, <2>3, <2>5 DEF CallOK, FreshCall, HoldsRow
  <2> QED  BY <2>1, <2>2, <2>4, <2>6, BeginsKeeps
<1> QED  BY <1>1, <1>2, <1>3, <1>4, <1>5

-----------------------------------------------------------------------------
(* A step of a request on the library.                                     *)

\* A step of the request of t, which leaves what it should.
LEMMA StepKeeps ==
    ASSUME Inv, NEW t \in Threads, NEW CONSTANT k, Goes(t, k), CallOK(k)',
           call[t].at # "idle", orderly' = orderly, Grows,
           LibOK', Blessed', ExemplarsBounded', RowsOK', orderly => FreshCall(k)',
           orderly => \A id \in DOMAIN lib' : Previewed(lib'[id])
    PROVE  Inv'
<1>1. call[t] # Idle
  BY DEF Idle
<1>2. CallsOK'
  BY CallsStep DEF Inv
<1>3. Orderly'
  BY <1>1, OrderlyStep DEF Inv
<1> QED  BY <1>2, <1>3 DEF Inv

\* A step that leaves the library alone.
LEMMA LibKept ==
    ASSUME Inv, NEW t \in Threads, NEW CONSTANT k, Goes(t, k), CallOK(k)', FreshCall(k)',
           call[t].at # "idle", orderly' = orderly, RowsOK',
           UNCHANGED <<lib, made, blessed>>, listed' \in Nat, listed <= listed'
    PROVE  Inv'
<1>1. /\ LibOK' /\ Blessed' /\ ExemplarsBounded' /\ Grows
      /\ orderly => \A id \in DOMAIN lib' : Previewed(lib'[id])
  BY LibStays
<1> QED  BY <1>1, StepKeeps

\* A step with which a request returns.
LEMMA Returned ==
    ASSUME Inv, NEW t \in Threads, Returns(t),
           call[t].at # "idle", orderly' = orderly, Grows,
           LibOK', Blessed', ExemplarsBounded', RowsOK',
           orderly => \A id \in DOMAIN lib' : Previewed(lib'[id])
    PROVE  Inv'
<1>1. PICK k : k = Idle
  OBVIOUS
<1>2. CallOK(k)' /\ FreshCall(k)' /\ Goes(t, k)
  BY <1>1, IdleOK DEF Returns
<1> QED  BY <1>2, StepKeeps

\* A row of a list's draw that came to nothing still holds its row.
LEMMA FailedDrawOK ==
    ASSUME NEW CONSTANT l, l.op = "draw", RowShape(l.row), l.r \in 1 .. listed',
           NEW CONSTANT k, k = FailedDraw(l)
    PROVE  CallOK(k)' /\ FreshCall(k)'
<1>1. PICK row : row = [l.row EXCEPT !.state = "failed"]
  OBVIOUS
<1>2. RowShape(row)
  BY <1>1, RowWith DEF RowStates
<1>3. k.at = "endDraw" /\ k.op = "draw" /\ k.r = l.r /\ k.row = row
  BY <1>1 DEF FailedDraw
<1>4. RowShape(row)'
  BY <1>2 DEF RowShape
<1> QED  BY <1>3, <1>4 DEF CallOK, FreshCall, HoldsRow

\* A drawing goes in under a new id.
LEMMA InsertKeeps ==
    ASSUME Inv, NEW t \in Threads, Insert(t)
    PROVE  Inv'
<1>0. LibOK /\ Blessed /\ ExemplarsBounded /\ RowsOK /\ CallsOK /\ Orderly
  BY DEF Inv
<1>1. PICK l, id : l = call[t] /\ id = made + 1
  OBVIOUS
<1>2. l.at = "insert" /\ CallOK(l)
  BY <1>0, <1>1 DEF Insert, CallsOK
<1>3. /\ DrawingShape(l.new) /\ l.new.preview.version < l.new.version
      /\ IF l.op = "exemplar" THEN l.new.exemplar = "copy"
         ELSE l.new.exemplar = "no" /\ l.new.source = NoDrawing /\ l.new.status = "draft"
      /\ l.op = "draw" => RowShape(l.row) /\ l.r \in 1 .. listed
  BY <1>2 DEF CallOK, HoldsRow
<1>4. /\ UNCHANGED <<rows, drawing, listed, blessed, orderly>> /\ call[t].at # "idle"
      /\ listed \in Nat /\ made \in Nat
  BY <1>0, <1>1, <1>2 DEF Insert, RowsOK, LibOK
<1>5. CASE /\ l.op = "exemplar" => ExemplarFits(l.new)
           /\ id <= MaxDrawings /\ made' = id
           /\ lib' = [i \in DOMAIN lib \cup {id} |-> IF i = id THEN l.new ELSE lib[i]]
           /\ Goes(t, [Previewing(l.op, id, l.new) EXCEPT
                          !.r = l.r,
                          !.row = [l.row EXCEPT !.state = "drawn", !.ill = id,
                                                !.name = l.new.name]])
  <2>1. /\ DOMAIN lib' = DOMAIN lib \cup {id} /\ id \notin DOMAIN lib /\ id \in 1 .. made'
        /\ lib'[id] = l.new
        /\ \A i \in DOMAIN lib : lib'[i] = lib[i]
    BY <1>0, <1>1, <1>5 DEF LibOK
  <2>2. LibOK'
    <3>1. l.new.source \in DOMAIN lib \cup {NoDrawing}
      BY <1>3, <1>5 DEF ExemplarFits
    <3>2. made' \in 0 .. MaxDrawings /\ DOMAIN lib' \subseteq 1 .. made'
      BY <1>0, <1>1, <1>5, <2>1, BoundsAssumption DEF LibOK
    <3>3. \A i \in DOMAIN lib' : /\ DrawingShape(lib'[i])
                                 /\ lib'[i].source \in DOMAIN lib' \cup {NoDrawing}
      BY <1>0, <1>3, <2>1, <3>1 DEF LibOK
    <3> QED  BY <3>2, <3>3 DEF LibOK, DrawingShape, NoDrawing
  <2>3. Grows
    BY <1>1, <1>4, <1>5, <2>1 DEF Grows
  <2>4. Blessed'
    BY <1>0, <1>3, <1>4, <2>1 DEF Blessed
  <2>5. ExemplarsBounded'
    <3>1. CASE l.op # "exemplar"
      BY <1>0, <1>3, <2>1, <3>1, ExemplarsStay
    <3>2. CASE l.op = "exemplar"
      <4>1. PICK before, after : before = Exemplars /\ after = Exemplars'
        OBVIOUS
      <4>2. after = before \cup {id} /\ id \notin before
        BY <1>3, <2>1, <3>2, <4>1 DEF Exemplars
      <4>3. IsFiniteSet(before) /\ Cardinality(before) \in Nat
        BY <1>0, <4>1, ExemplarsFinite
      <4>4. Cardinality(after) = Cardinality(before) + 1
        BY <4>2, <4>3, FS_AddElement
      <4>5. /\ Cardinality(before) < MaxExemplars
            /\ \A e \in before : lib[e].source # l.new.source
        BY <1>5, <3>2, <4>1 DEF ExemplarFits
      <4>6. Cardinality(after) <= MaxExemplars
        BY <4>3, <4>4, <4>5, BoundsAssumption
      <4>7. \A e \in before : e \in DOMAIN lib
        BY <4>1 DEF Exemplars
      <4>8. \A e, f \in after : e # f /\ lib'[e].source = lib'[f].source => lib'[e].source = NoDrawing
        BY <1>0, <2>1, <4>1, <4>2, <4>5, <4>7 DEF ExemplarsBounded
      <4> QED  BY <4>1, <4>6, <4>8 DEF ExemplarsBounded
    <3> QED  BY <3>1, <3>2
  <2>6. RowsOK'
    BY <1>0, <1>4, <2>1, RowsStay
  <2>7. PICK row : row = [l.row EXCEPT !.state = "drawn", !.ill = id, !.name = l.new.name]
    OBVIOUS
  <2>8. l.op = "draw" => RowShape(row)
    <3> SUFFICES ASSUME l.op = "draw" PROVE RowShape(row)
      OBVIOUS
    <3>1. /\ l.row = [project |-> l.row.project, name |-> l.row.name, state |-> l.row.state,
                      ill |-> l.row.ill]
          /\ l.row.project \in Projects
      BY <1>3 DEF RowShape
    <3>2. row = [project |-> l.row.project, name |-> l.new.name, state |-> "drawn", ill |-> id]
      BY <2>7, <3>1
    <3>3. row.project = l.row.project /\ row.name = l.new.name /\ row.state = "drawn" /\ row.ill = id
      BY <3>2
    <3> QED  BY <3>1, <3>2, <3>3 DEF RowShape, RowStates
  <2>9. PICK k : k = [Previewing(l.op, id, l.new) EXCEPT !.r = l.r, !.row = row]
    OBVIOUS
  <2>10. /\ k.at = "preview" /\ k.op = l.op /\ k.id = id /\ k.r = l.r /\ k.row = row
         /\ k.preview.version = l.new.version /\ k.preview.code = l.new.code
    BY <2>9 DEF Previewing
  <2>11. CallOK(k)'
    <3>1. l.new.version \in Nat
      BY <1>3 DEF DrawingShape
    <3>2. (RowShape(row) => RowShape(row)') /\ listed' = listed
      BY <1>4 DEF RowShape
    <3> QED  BY <1>3, <2>1, <2>8, <2>10, <3>1, <3>2 DEF CallOK, HoldsRow
  <2>12. FreshCall(k)'
    BY <2>1, <2>10 DEF FreshCall
  <2>13. orderly => \A i \in DOMAIN lib' : Previewed(lib'[i])
    <3>1. Previewed(l.new)
      BY <1>3 DEF Previewed, DrawingShape
    <3> QED  BY <1>0, <2>1, <3>1 DEF Orderly
  <2>14. Goes(t, k)
    BY <1>5, <2>7, <2>9
  <2> QED  BY <1>4, <2>2, <2>3, <2>4, <2>5, <2>6, <2>11, <2>12, <2>13, <2>14, StepKeeps
<1>6. CASE /\ IF l.op = "draw" THEN Goes(t, FailedDraw(l)) ELSE Returns(t)
           /\ UNCHANGED <<lib, made>>
  <2>1. RowsOK'
    BY <1>0, <1>4, <1>6, RowsStay
  <2>2. CASE l.op = "draw"
    <3>1. PICK k : k = FailedDraw(l)
      OBVIOUS
    <3>2. CallOK(k)' /\ FreshCall(k)'
      BY <1>3, <1>4, <2>2, <3>1, FailedDrawOK
    <3> QED  BY <1>4, <1>6, <2>1, <2>2, <3>1, <3>2, LibKept
  <2>3. CASE l.op # "draw"
    <3>1. PICK k : k = Idle
      OBVIOUS
    <3>2. CallOK(k)' /\ FreshCall(k)' /\ Goes(t, k)
      BY <1>6, <2>3, <3>1, IdleOK DEF Returns
    <3> QED  BY <1>4, <1>6, <2>1, <3>2, LibKept
  <2> QED  BY <2>2, <2>3
<1>7. \/ /\ l.op = "exemplar" => ExemplarFits(l.new)
         /\ id <= MaxDrawings /\ made' = id
         /\ lib' = [i \in DOMAIN lib \cup {id} |-> IF i = id THEN l.new ELSE lib[i]]
         /\ Goes(t, [Previewing(l.op, id, l.new) EXCEPT
                        !.r = l.r,
                        !.row = [l.row EXCEPT !.state = "drawn", !.ill = id,
                                              !.name = l.new.name]])
      \/ /\ IF l.op = "draw" THEN Goes(t, FailedDraw(l)) ELSE Returns(t)
         /\ UNCHANGED <<lib, made>>
  BY <1>1 DEF Insert
<1> QED  BY <1>5, <1>6, <1>7

\* The copy an edit made is written over the row.
LEMMA UpdateKeeps ==
    ASSUME Inv, NEW t \in Threads, UpdateIllustration(t)
    PROVE  Inv'
<1>0. LibOK /\ Blessed /\ ExemplarsBounded /\ RowsOK /\ CallsOK /\ Orderly
  BY DEF Inv
<1>1. PICK l, id, new : l = call[t] /\ id = l.id /\ new = l.new
  OBVIOUS
<1>2. l.at = "update" /\ CallOK(l)
  BY <1>0, <1>1 DEF UpdateIllustration, CallsOK
<1>3. /\ DrawingShape(new) /\ l.op # "draw" /\ id \in 1 .. made
      /\ id \in DOMAIN lib => lib[id].exemplar = "no"
      /\ l.op # "status" /\ new.status = "approved" => <<id, new.name, new.code>> \in blessed
  BY <1>1, <1>2 DEF CallOK
<1>4. /\ UNCHANGED <<rows, drawing, listed, made, orderly>> /\ call[t].at # "idle"
      /\ listed \in Nat /\ made \in Nat
  BY <1>0, <1>1, <1>2 DEF UpdateIllustration, counters, RowsOK, LibOK
<1>5. CASE Returns(t) /\ UNCHANGED <<lib, blessed>>
  <2>1. /\ LibOK' /\ Blessed' /\ ExemplarsBounded' /\ Grows
        /\ orderly => \A i \in DOMAIN lib' : Previewed(lib'[i])
    BY <1>4, <1>5, LibStays
  <2>2. RowsOK'
    BY <1>0, <1>4, <1>5, RowsStay
  <2> QED  BY <1>4, <1>5, <2>1, <2>2, Returned
<1>6. CASE /\ id \in DOMAIN lib
           /\ lib' = [lib EXCEPT ![id] =
                        [@ EXCEPT !.name = new.name, !.code = new.code,
                                  !.status = new.status, !.version = new.version]]
           /\ blessed' = IF l.op = "status" /\ new.status = "approved"
                         THEN blessed \cup {<<id, new.name, new.code>>} ELSE blessed
           /\ IF l.redrawn THEN Goes(t, Previewing(l.op, id, new)) ELSE Returns(t)
  <2>1. PICK d, e : /\ d = lib[id]
                    /\ e = [d EXCEPT !.name = new.name, !.code = new.code,
                                     !.status = new.status, !.version = new.version]
    OBVIOUS
  <2>2. DrawingShape(d) /\ d.exemplar = "no" /\ d.source \in DOMAIN lib \cup {NoDrawing}
    BY <1>0, <1>3, <1>6, <2>1 DEF LibOK
  <2>3. /\ DrawingShape(e) /\ e.name = new.name /\ e.code = new.code
        /\ e.status = new.status /\ e.version = new.version
        /\ e.exemplar = d.exemplar /\ e.source = d.source /\ e.preview = d.preview
    <3>1. d = [name |-> d.name, code |-> d.code, status |-> d.status, version |-> d.version,
               exemplar |-> d.exemplar, source |-> d.source, preview |-> d.preview]
      BY <2>2 DEF DrawingShape
    <3>2. e = [name |-> new.name, code |-> new.code, status |-> new.status,
               version |-> new.version, exemplar |-> d.exemplar, source |-> d.source,
               preview |-> d.preview]
      BY <2>1, <3>1
    <3>3. /\ e.name = new.name /\ e.code = new.code
          /\ e.status = new.status /\ e.version = new.version
          /\ e.exemplar = d.exemplar /\ e.source = d.source /\ e.preview = d.preview
      BY <3>2
    <3> QED  BY <1>3, <2>2, <3>2, <3>3 DEF DrawingShape
  <2>4. /\ DOMAIN lib' = DOMAIN lib /\ lib'[id] = e
        /\ \A i \in DOMAIN lib : i # id => lib'[i] = lib[i]
    BY <1>6, <2>1
  <2>5. LibOK'
    <3>1. \A i \in DOMAIN lib' : /\ DrawingShape(lib'[i])
                                 /\ lib'[i].source \in DOMAIN lib' \cup {NoDrawing}
      BY <1>0, <2>2, <2>3, <2>4 DEF LibOK
    <3> QED  BY <1>0, <1>4, <2>4, <3>1 DEF LibOK, DrawingShape, NoDrawing
  <2>6. Grows
    <3>1. \A i \in DOMAIN lib' : i \in DOMAIN lib /\ lib'[i].exemplar = lib[i].exemplar
      BY <2>1, <2>3, <2>4
    <3> QED  BY <1>4, <1>6, <3>1 DEF Grows
  <2>7. Blessed'
    <3>1. new.status = "approved" => <<id, new.name, new.code>> \in blessed'
      BY <1>3, <1>6
    <3> QED  BY <1>0, <2>3, <2>4, <2>6, <3>1 DEF Blessed, Grows
  <2>8. ExemplarsBounded'
    BY <1>0, <2>1, <2>3, <2>4, ExemplarsStay
  <2>9. RowsOK'
    BY <1>0, <1>4, <2>4, RowsStay
  <2>10. orderly => \A i \in DOMAIN lib' : Previewed(lib'[i])
    <3> SUFFICES ASSUME orderly PROVE \A i \in DOMAIN lib' : Previewed(lib'[i])
      OBVIOUS
    <3>1. FreshCall(l) /\ \A i \in DOMAIN lib : Previewed(lib[i])
      BY <1>0, <1>1 DEF Orderly
    <3>2. \/ new.version = d.version /\ new.code = d.code
          \/ new.version = d.version + 1
      BY <1>1, <1>2, <1>6, <2>1, <3>1 DEF FreshCall
    <3>3. Previewed(d) /\ d.version \in Nat /\ d.preview.version \in Nat
      BY <1>6, <2>1, <2>2, <3>1 DEF DrawingShape
    <3>4. PICK p, v : p = d.preview.version /\ v = d.version
      OBVIOUS
    <3>5. Previewed(e)
      BY <2>1, <2>3, <3>2, <3>3, <3>4 DEF Previewed
    <3> QED  BY <2>4, <3>1, <3>5
  <2>11. CASE l.redrawn
    <3>1. PICK k : k = Previewing(l.op, id, new)
      OBVIOUS
    <3>2. /\ k.at = "preview" /\ k.op = l.op /\ k.id = id
          /\ k.preview.version = new.version /\ k.preview.code = new.code
      BY <3>1 DEF Previewing
    <3>3. CallOK(k)'
      <4>1. new.version \in Nat
        BY <1>3 DEF DrawingShape
      <4> QED  BY <1>3, <1>4, <3>2, <4>1 DEF CallOK, HoldsRow
    <3>4. FreshCall(k)'
      BY <2>3, <2>4, <3>2 DEF FreshCall
    <3>5. Goes(t, k)
      BY <1>6, <2>11, <3>1
    <3> QED  BY <1>4, <2>5, <2>6, <2>7, <2>8, <2>9, <2>10, <3>3, <3>4, <3>5, StepKeeps
  <2>12. CASE ~l.redrawn
    <3>1. Returns(t)
      BY <1>6, <2>12
    <3> QED  BY <1>4, <2>5, <2>6, <2>7, <2>8, <2>9, <2>10, <3>1, Returned
  <2> QED  BY <2>11, <2>12
<1>7. \/ Returns(t) /\ UNCHANGED <<lib, blessed>>
      \/ /\ id \in DOMAIN lib
         /\ lib' = [lib EXCEPT ![id] =
                      [@ EXCEPT !.name = new.name, !.code = new.code,
                                !.status = new.status, !.version = new.version]]
         /\ blessed' = IF l.op = "status" /\ new.status = "approved"
                       THEN blessed \cup {<<id, new.name, new.code>>} ELSE blessed
         /\ IF l.redrawn THEN Goes(t, Previewing(l.op, id, new)) ELSE Returns(t)
  BY <1>1 DEF UpdateIllustration
<1> QED  BY <1>5, <1>6, <1>7

\* The picture of a version is stored.
LEMMA PreviewKeeps ==
    ASSUME Inv, NEW t \in Threads, SavePreview(t)
    PROVE  Inv'
<1>0. LibOK /\ Blessed /\ ExemplarsBounded /\ RowsOK /\ CallsOK /\ Orderly
  BY DEF Inv
<1>1. PICK l, id, p : l = call[t] /\ id = l.id /\ p = l.preview
  OBVIOUS
<1>2. l.at = "preview" /\ CallOK(l)
  BY <1>0, <1>1 DEF SavePreview, CallsOK
<1>3. /\ p.version \in Nat
      /\ l.op = "draw" => RowShape(l.row) /\ l.r \in 1 .. listed
  BY <1>1, <1>2 DEF CallOK, HoldsRow
<1>4. /\ UNCHANGED <<rows, drawing, listed, made, orderly, blessed>> /\ call[t].at # "idle"
      /\ listed \in Nat /\ made \in Nat
      /\ lib' = [i \in DOMAIN lib |-> IF i = id THEN [lib[i] EXCEPT !.preview = p] ELSE lib[i]]
      /\ IF l.op = "draw"
         THEN Goes(t, [op |-> "draw", at |-> "endDraw", r |-> l.r, row |-> l.row])
         ELSE Returns(t)
  BY <1>0, <1>1, <1>2 DEF SavePreview, counters, RowsOK, LibOK
<1>5. ASSUME NEW i \in DOMAIN lib
      PROVE  /\ DrawingShape(lib'[i])
             /\ lib'[i].name = lib[i].name /\ lib'[i].code = lib[i].code
             /\ lib'[i].status = lib[i].status /\ lib'[i].version = lib[i].version
             /\ lib'[i].exemplar = lib[i].exemplar /\ lib'[i].source = lib[i].source
             /\ lib'[i].preview = IF i = id THEN p ELSE lib[i].preview
  <2>1. PICK d, e : d = lib[i] /\ e = lib'[i]
    OBVIOUS
  <2>2. DrawingShape(d)
    BY <1>0, <2>1 DEF LibOK
  <2>3. CASE i = id
    <3>1. e = [d EXCEPT !.preview = p]
      BY <1>4, <2>1, <2>3
    <3>2. d = [name |-> d.name, code |-> d.code, status |-> d.status, version |-> d.version,
               exemplar |-> d.exemplar, source |-> d.source, preview |-> d.preview]
      BY <2>2 DEF DrawingShape
    <3>3. e = [name |-> d.name, code |-> d.code, status |-> d.status, version |-> d.version,
               exemplar |-> d.exemplar, source |-> d.source, preview |-> p]
      BY <3>1, <3>2
    <3>4. /\ e.name = d.name /\ e.code = d.code /\ e.status = d.status
          /\ e.version = d.version /\ e.exemplar = d.exemplar /\ e.source = d.source
          /\ e.preview = p
      BY <3>3
    <3>5. DrawingShape(e)
      BY <1>3, <2>2, <3>3, <3>4 DEF DrawingShape
    <3> QED  BY <2>1, <2>3, <3>4, <3>5
  <2>4. CASE i # id
    BY <1>4, <2>1, <2>2, <2>4
  <2> QED  BY <2>3, <2>4
<1>6. DOMAIN lib' = DOMAIN lib
  BY <1>4
<1>7. LibOK'
  <2>1. \A i \in DOMAIN lib' : /\ DrawingShape(lib'[i])
                               /\ lib'[i].source \in DOMAIN lib' \cup {NoDrawing}
    BY <1>0, <1>5, <1>6 DEF LibOK
  <2> QED  BY <1>0, <1>4, <1>6, <2>1 DEF LibOK, DrawingShape, NoDrawing
<1>8. Grows
  BY <1>4, <1>5, <1>6 DEF Grows
<1>9. Blessed'
  BY <1>0, <1>4, <1>5, <1>6 DEF Blessed
<1>10. ExemplarsBounded'
  BY <1>0, <1>5, <1>6, ExemplarsStay
<1>11. RowsOK'
  BY <1>0, <1>4, <1>6, RowsStay
<1>12. orderly => \A i \in DOMAIN lib' : Previewed(lib'[i])
  <2> SUFFICES ASSUME orderly, NEW i \in DOMAIN lib' PROVE Previewed(lib'[i])
    OBVIOUS
  <2>1. FreshCall(l) /\ Previewed(lib[i]) /\ lib[i].version \in Nat
    BY <1>0, <1>1, <1>6 DEF Orderly, LibOK, DrawingShape
  <2>2. CASE i = id
    <3>1. p.version = lib[i].version /\ p.code = lib[i].code
      BY <1>1, <1>2, <1>6, <2>1, <2>2 DEF FreshCall
    <3> QED  BY <1>5, <1>6, <2>1, <2>2, <3>1 DEF Previewed
  <2>3. CASE i # id
    BY <1>5, <1>6, <2>1, <2>3 DEF Previewed
  <2> QED  BY <2>2, <2>3
<1>13. CASE l.op = "draw"
  <2>1. PICK k : k = [op |-> "draw", at |-> "endDraw", r |-> l.r, row |-> l.row]
    OBVIOUS
  <2>2. k.at = "endDraw" /\ k.op = "draw" /\ k.r = l.r /\ k.row = l.row
    BY <2>1
  <2>3. (RowShape(l.row) => RowShape(l.row)') /\ listed' = listed
    BY <1>4 DEF RowShape
  <2>4. CallOK(k)' /\ FreshCall(k)'
    BY <1>3, <1>13, <2>2, <2>3 DEF CallOK, FreshCall, HoldsRow
  <2>5. Goes(t, k)
    BY <1>4, <1>13, <2>1
  <2> QED  BY <1>4, <1>7, <1>8, <1>9, <1>10, <1>11, <1>12, <2>4, <2>5, StepKeeps
<1>14. CASE l.op # "draw"
  <2>1. Returns(t)
    BY <1>4, <1>14
  <2> QED  BY <1>4, <1>7, <1>8, <1>9, <1>10, <1>11, <1>12, <2>1, Returned
<1> QED  BY <1>13, <1>14

\* An original is filed back: it was approved as it is.
LEMMA ReleaseKeeps ==
    ASSUME Inv, NEW t \in Threads, ReleaseExemplar(t)
    PROVE  Inv'
<1>0. LibOK /\ Blessed /\ ExemplarsBounded /\ RowsOK /\ CallsOK /\ Orderly
  BY DEF Inv
<1>1. PICK l, id : l = call[t] /\ id = l.id
  OBVIOUS
<1>2. l.at = "release" /\ CallOK(l)
  BY <1>0, <1>1 DEF ReleaseExemplar, CallsOK
<1>3. id \in DOMAIN lib => lib[id].exemplar # "copy"
  BY <1>1, <1>2 DEF CallOK
<1>4. /\ UNCHANGED <<rows, drawing, listed, made, orderly, blessed>> /\ call[t].at # "idle"
      /\ listed \in Nat /\ made \in Nat /\ Returns(t)
      /\ lib' = IF id \in Exemplars THEN [lib EXCEPT ![id].exemplar = "no"] ELSE lib
  BY <1>0, <1>1, <1>2 DEF ReleaseExemplar, counters, RowsOK, LibOK
<1>5. DOMAIN lib' = DOMAIN lib
  BY <1>4
<1>6. ASSUME NEW i \in DOMAIN lib
      PROVE  /\ DrawingShape(lib'[i])
             /\ lib'[i].name = lib[i].name /\ lib'[i].code = lib[i].code
             /\ lib'[i].status = lib[i].status /\ lib'[i].version = lib[i].version
             /\ lib'[i].source = lib[i].source /\ lib'[i].preview = lib[i].preview
             /\ \/ lib'[i].exemplar = lib[i].exemplar
                \/ i = id /\ lib'[i].exemplar = "no"
  <2>1. PICK d, e : d = lib[i] /\ e = lib'[i]
    OBVIOUS
  <2>2. DrawingShape(d)
    BY <1>0, <2>1 DEF LibOK
  <2>3. CASE i = id /\ id \in Exemplars
    <3>1. e = [d EXCEPT !.exemplar = "no"]
      BY <1>4, <2>1, <2>3
    <3>2. d = [name |-> d.name, code |-> d.code, status |-> d.status, version |-> d.version,
               exemplar |-> d.exemplar, source |-> d.source, preview |-> d.preview]
      BY <2>2 DEF DrawingShape
    <3>3. e = [name |-> d.name, code |-> d.code, status |-> d.status, version |-> d.version,
               exemplar |-> "no", source |-> d.source, preview |-> d.preview]
      BY <3>1, <3>2
    <3>4. /\ e.name = d.name /\ e.code = d.code /\ e.status = d.status
          /\ e.version = d.version /\ e.exemplar = "no" /\ e.source = d.source
          /\ e.preview = d.preview
      BY <3>3
    <3>5. DrawingShape(e)
      BY <2>2, <3>3, <3>4 DEF DrawingShape
    <3> QED  BY <2>1, <2>3, <3>4, <3>5
  <2>4. CASE ~(i = id /\ id \in Exemplars)
    BY <1>4, <2>1, <2>2, <2>4
  <2> QED  BY <2>3, <2>4
<1>7. LibOK'
  <2>1. \A i \in DOMAIN lib' : /\ DrawingShape(lib'[i])
                               /\ lib'[i].source \in DOMAIN lib' \cup {NoDrawing}
    BY <1>0, <1>5, <1>6 DEF LibOK
  <2> QED  BY <1>0, <1>4, <1>5, <2>1 DEF LibOK, DrawingShape, NoDrawing
<1>8. Grows
  BY <1>4, <1>5, <1>6 DEF Grows
<1>9. Blessed'
  BY <1>0, <1>3, <1>4, <1>5, <1>6 DEF Blessed
<1>10. ExemplarsBounded'
  BY <1>0, <1>5, <1>6, ExemplarsStay
<1>11. RowsOK'
  BY <1>0, <1>4, <1>5, RowsStay
<1>12. orderly => \A i \in DOMAIN lib' : Previewed(lib'[i])
  BY <1>0, <1>5, <1>6 DEF Orderly, Previewed
<1> QED  BY <1>4, <1>7, <1>8, <1>9, <1>10, <1>11, <1>12, Returned

\* The check of who uses the drawing to delete.
LEMMA CheckKeeps ==
    ASSUME Inv, NEW t \in Threads, CheckUnused(t)
    PROVE  Inv'
<1>0. RowsOK /\ CallsOK
  BY DEF Inv
<1>1. PICK l, checked : l = call[t] /\ checked = l.ignore \cup Users(l.id)
  OBVIOUS
<1>2. l.at = "check" /\ CallOK(l)
  BY <1>0, <1>1 DEF CheckUnused, CallsOK
<1>3. /\ UNCHANGED <<lib, rows, drawing, listed, made, orderly, blessed>> /\ call[t].at # "idle"
      /\ listed' \in Nat /\ listed <= listed'
  BY <1>0, <1>1, <1>2 DEF CheckUnused, counters, RowsOK
<1>4. RowsOK'
  BY <1>0, <1>3, RowsStay
<1>5. CASE Returns(t)
  <2>1. PICK k : k = Idle
    OBVIOUS
  <2>2. CallOK(k)' /\ FreshCall(k)' /\ Goes(t, k)
    BY <1>5, <2>1, IdleOK DEF Returns
  <2> QED  BY <1>3, <1>4, <2>2, LibKept
<1>6. CASE Goes(t, [l EXCEPT !.at = "delete", !.checked = checked])
  <2>1. PICK k : k = [l EXCEPT !.at = "delete", !.checked = checked]
    OBVIOUS
  <2>2. k.op = l.op /\ k.r = l.r /\ k.row = l.row /\ k.at \in {"delete", l.at}
    BY <2>1
  <2>3. k.op = "deleteDrawing" => RowShape(k.row) /\ k.r \in 1 .. listed
    BY <1>2, <2>2 DEF CallOK, HoldsRow
  <2>4. (RowShape(k.row) => RowShape(k.row)') /\ listed' = listed
    BY <1>3 DEF RowShape
  <2>5. CallOK(k)' /\ FreshCall(k)'
    BY <1>2, <2>2, <2>3, <2>4 DEF CallOK, FreshCall, HoldsRow
  <2> QED  BY <1>3, <1>4, <1>6, <2>1, <2>5, LibKept
<1> QED  BY <1>1, <1>5, <1>6 DEF CheckUnused

\* A drawing goes, with the links to it, or its users are looked at once more.
LEMMA DeleteKeeps ==
    ASSUME Inv, NEW t \in Threads, DeleteIllustration(t)
    PROVE  Inv'
<1>0. LibOK /\ Blessed /\ ExemplarsBounded /\ RowsOK /\ CallsOK /\ Orderly
  BY DEF Inv
<1>1. PICK l, id : l = call[t] /\ id = l.id
  OBVIOUS
<1>2. l.at = "delete" /\ CallOK(l)
  BY <1>0, <1>1 DEF DeleteIllustration, CallsOK
<1>3. l.op = "deleteDrawing" => RowShape(l.row) /\ l.r \in 1 .. listed
  BY <1>2 DEF CallOK, HoldsRow
<1>4. /\ UNCHANGED <<drawing, listed, made, orderly, blessed>> /\ call[t].at # "idle"
      /\ listed \in Nat /\ listed' \in Nat /\ listed <= listed' /\ made \in Nat
  BY <1>0, <1>1, <1>2 DEF DeleteIllustration, counters, RowsOK, LibOK
<1>5. CASE /\ Cleared(id)
           /\ IF l.op = "deleteDrawing" THEN Goes(t, SavingRow(l.op, l.r, l.row)) ELSE Returns(t)
  <2>1. /\ DOMAIN lib' = DOMAIN lib \ {id}
        /\ \A i \in DOMAIN lib' :
              lib'[i] = IF lib[i].source = id THEN [lib[i] EXCEPT !.source = NoDrawing] ELSE lib[i]
    BY <1>5 DEF Cleared
  <2>2. ASSUME NEW i \in DOMAIN lib'
        PROVE  /\ DrawingShape(lib'[i]) /\ i \in DOMAIN lib
               /\ lib'[i].name = lib[i].name /\ lib'[i].code = lib[i].code
               /\ lib'[i].status = lib[i].status /\ lib'[i].version = lib[i].version
               /\ lib'[i].exemplar = lib[i].exemplar /\ lib'[i].preview = lib[i].preview
               /\ lib'[i].source = IF lib[i].source = id THEN NoDrawing ELSE lib[i].source
    <3>1. PICK d, e : d = lib[i] /\ e = lib'[i]
      OBVIOUS
    <3>2. DrawingShape(d) /\ i \in DOMAIN lib
      BY <1>0, <2>1, <3>1 DEF LibOK
    <3>3. CASE d.source = id
      <4>1. e = [d EXCEPT !.source = NoDrawing]
        BY <2>1, <3>1, <3>3
      <4>2. d = [name |-> d.name, code |-> d.code, status |-> d.status, version |-> d.version,
                 exemplar |-> d.exemplar, source |-> d.source, preview |-> d.preview]
        BY <3>2 DEF DrawingShape
      <4>3. e = [name |-> d.name, code |-> d.code, status |-> d.status, version |-> d.version,
                 exemplar |-> d.exemplar, source |-> NoDrawing, preview |-> d.preview]
        BY <4>1, <4>2
      <4>4. /\ e.name = d.name /\ e.code = d.code /\ e.status = d.status
            /\ e.version = d.version /\ e.exemplar = d.exemplar /\ e.source = NoDrawing
            /\ e.preview = d.preview
        BY <4>3
      <4>5. DrawingShape(e)
        BY <3>2, <4>3, <4>4 DEF DrawingShape
      <4> QED  BY <3>1, <3>2, <3>3, <4>4, <4>5
    <3>4. CASE d.source # id
      BY <2>1, <3>1, <3>2, <3>4
    <3> QED  BY <3>3, <3>4
  <2>3. LibOK'
    <3>1. \A i \in DOMAIN lib' : /\ DrawingShape(lib'[i])
                                 /\ lib'[i].source \in DOMAIN lib' \cup {NoDrawing}
      BY <1>0, <2>1, <2>2 DEF LibOK
    <3> QED  BY <1>0, <1>4, <2>1, <3>1 DEF LibOK, DrawingShape, NoDrawing
  <2>4. Grows
    BY <1>4, <2>2 DEF Grows
  <2>5. Blessed'
    BY <1>0, <1>4, <2>2 DEF Blessed
  <2>6. ExemplarsBounded'
    BY <1>0, <2>2, ExemplarsStay
  <2>7. RowsOK'
    <3>1. /\ DOMAIN rows' = DOMAIN rows
          /\ \A r \in DOMAIN rows :
                rows'[r] = IF rows[r].ill = id THEN [rows[r] EXCEPT !.ill = NoDrawing] ELSE rows[r]
      BY <1>5 DEF Cleared
    <3>2. ASSUME NEW r \in DOMAIN rows
          PROVE  RowShape(rows'[r]) /\ rows'[r].ill \in DOMAIN lib' \cup {NoDrawing}
      <4>1. PICK d, e : d = rows[r] /\ e = rows'[r]
        OBVIOUS
      <4>2. RowShape(d) /\ d.ill \in DOMAIN lib \cup {NoDrawing}
        BY <1>0, <4>1 DEF RowsOK
      <4>3. CASE d.ill = id
        <5>1. e = [d EXCEPT !.ill = NoDrawing]
          BY <3>1, <4>1, <4>3
        <5>2. d = [project |-> d.project, name |-> d.name, state |-> d.state, ill |-> d.ill]
          BY <4>2 DEF RowShape
        <5>3. e = [project |-> d.project, name |-> d.name, state |-> d.state, ill |-> NoDrawing]
          BY <5>1, <5>2
        <5>4. e.project = d.project /\ e.name = d.name /\ e.state = d.state /\ e.ill = NoDrawing
          BY <5>3
        <5> QED  BY <4>1, <4>2, <5>3, <5>4 DEF RowShape
      <4>4. CASE d.ill # id
        BY <2>1, <3>1, <4>1, <4>2, <4>4
      <4> QED  BY <4>3, <4>4
    <3> QED  BY <1>0, <1>4, <3>1, <3>2 DEF RowsOK, RowShape, NoDrawing
  <2>8. orderly => \A i \in DOMAIN lib' : Previewed(lib'[i])
    BY <1>0, <2>2 DEF Orderly, Previewed
  <2>9. CASE l.op = "deleteDrawing"
    <3>1. PICK k : k = SavingRow(l.op, l.r, l.row)
      OBVIOUS
    <3>2. k.at = "saveRow" /\ k.r = l.r /\ k.row = l.row
      BY <3>1 DEF SavingRow
    <3>3. (RowShape(l.row) => RowShape(l.row)') /\ listed' = listed
      BY <1>4 DEF RowShape
    <3>4. CallOK(k)' /\ FreshCall(k)'
      BY <1>3, <2>9, <3>2, <3>3 DEF CallOK, FreshCall, HoldsRow
    <3>5. Goes(t, k)
      BY <1>5, <2>9, <3>1
    <3> QED  BY <1>4, <2>3, <2>4, <2>5, <2>6, <2>7, <2>8, <3>4, <3>5, StepKeeps
  <2>10. CASE l.op # "deleteDrawing"
    <3>1. Returns(t)
      BY <1>5, <2>10
    <3> QED  BY <1>4, <2>3, <2>4, <2>5, <2>6, <2>7, <2>8, <3>1, Returned
  <2> QED  BY <2>9, <2>10
<1>6. CASE /\ Goes(t, [l EXCEPT !.at = "check", !.attempt = @ + 1]) \/ Returns(t)
           /\ UNCHANGED <<lib, rows>>
  <2>1. RowsOK'
    BY <1>0, <1>4, <1>6, RowsStay
  <2>2. CASE Goes(t, [l EXCEPT !.at = "check", !.attempt = @ + 1])
    <3>1. PICK k : k = [l EXCEPT !.at = "check", !.attempt = @ + 1]
      OBVIOUS
    <3>2. k.op = l.op /\ k.r = l.r /\ k.row = l.row /\ k.at \in {"check", l.at}
      BY <3>1
    <3>3. k.op = "deleteDrawing" => RowShape(k.row) /\ k.r \in 1 .. listed
      BY <1>3, <3>2
    <3>4. (RowShape(k.row) => RowShape(k.row)') /\ listed' = listed
      BY <1>4 DEF RowShape
    <3>5. CallOK(k)' /\ FreshCall(k)'
      BY <1>2, <3>2, <3>3, <3>4 DEF CallOK, FreshCall, HoldsRow
    <3> QED  BY <1>4, <1>6, <2>1, <2>2, <3>1, <3>5, LibKept
  <2>3. CASE Returns(t)
    <3>1. PICK k : k = Idle
      OBVIOUS
    <3>2. CallOK(k)' /\ FreshCall(k)' /\ Goes(t, k)
      BY <2>3, <3>1, IdleOK DEF Returns
    <3> QED  BY <1>4, <1>6, <2>1, <3>2, LibKept
  <2> QED  BY <1>6, <2>2, <2>3
<1> QED  BY <1>1, <1>5, <1>6 DEF DeleteIllustration

\* A row that is saved has its shape, and links a drawing there is.
LEMMA RowsSaved ==
    ASSUME RowsOK, UNCHANGED <<lib, listed>>, drawing' \subseteq 1 .. listed,
           NEW CONSTANT r, NEW CONSTANT row, RowShape(row), SavesRow(r, row)
    PROVE  RowsOK'
<1>1. DOMAIN rows' = DOMAIN rows
  BY DEF SavesRow
<1>2. ASSUME NEW s \in DOMAIN rows
      PROVE  RowShape(rows'[s]) /\ rows'[s].ill \in DOMAIN lib' \cup {NoDrawing}
  <2>1. CASE rows'[s] = rows[s]
    BY <2>1 DEF RowsOK
  <2>2. CASE rows'[s] # rows[s]
    <3>1. ~Refused(r, row) /\ s = r /\ rows'[s] = row
      BY <2>2 DEF SavesRow
    <3> QED  BY <3>1 DEF Refused
  <2> QED  BY <2>1, <2>2
<1> QED  BY <1>1, <1>2 DEF RowsOK, RowShape, NoDrawing

\* A row a request holds is saved, and the request returns.
LEMMA SaveRowKeeps ==
    ASSUME Inv, NEW t \in Threads, SaveRow(t) \/ EndDraw(t)
    PROVE  Inv'
<1>0. RowsOK /\ CallsOK
  BY DEF Inv
<1>1. PICK l, r, row : l = call[t] /\ r = l.r /\ row = l.row
  OBVIOUS
<1>2. l.at \in {"saveRow", "endDraw"} /\ CallOK(l)
  BY <1>0, <1>1 DEF SaveRow, EndDraw, CallsOK
<1>3. RowShape(row)
  BY <1>1, <1>2 DEF CallOK, HoldsRow
<1>4. /\ UNCHANGED <<lib, listed, made, orderly, blessed>> /\ call[t].at # "idle"
      /\ listed' \in Nat /\ listed <= listed' /\ drawing' \subseteq drawing
      /\ SavesRow(r, row) /\ Returns(t)
  BY <1>0, <1>1, <1>2 DEF SaveRow, EndDraw, counters, RowsOK
<1>5. drawing' \subseteq 1 .. listed
  BY <1>0, <1>4 DEF RowsOK
<1>6. RowsOK'
  BY <1>0, <1>3, <1>4, <1>5, RowsSaved
<1>7. PICK k : k = Idle
  OBVIOUS
<1>8. CallOK(k)' /\ FreshCall(k)' /\ Goes(t, k)
  BY <1>4, <1>7, IdleOK DEF Returns
<1> QED  BY <1>4, <1>6, <1>8, LibKept

\* A row is marked as being drawn.
LEMMA StartKeeps ==
    ASSUME Inv, NEW t \in Threads, StartDraw(t)
    PROVE  Inv'
<1>0. RowsOK /\ CallsOK
  BY DEF Inv
<1>1. PICK l, r, row : l = call[t] /\ r = l.r /\ row = [l.row EXCEPT !.state = "drawing"]
  OBVIOUS
<1>2. l.at = "start" /\ CallOK(l)
  BY <1>0, <1>1 DEF StartDraw, CallsOK
<1>3. RowShape(l.row) /\ r \in 1 .. listed
  BY <1>1, <1>2 DEF CallOK, HoldsRow
<1>4. RowShape(row)
  BY <1>1, <1>3, RowWith DEF RowStates
<1>5. /\ UNCHANGED <<lib, listed, made, orderly, blessed>> /\ call[t].at # "idle"
      /\ listed' \in Nat /\ listed <= listed'
  BY <1>0, <1>1, <1>2 DEF StartDraw, counters, RowsOK
<1>6. CASE Returns(t) /\ UNCHANGED <<rows, drawing>>
  <2>1. PICK k : k = Idle
    OBVIOUS
  <2>2. CallOK(k)' /\ FreshCall(k)' /\ Goes(t, k)
    BY <1>6, <2>1, IdleOK DEF Returns
  <2>3. RowsOK'
    BY <1>0, <1>5, <1>6, RowsStay
  <2> QED  BY <1>5, <2>2, <2>3, LibKept
<1>7. CASE /\ drawing' = drawing \cup {r} /\ SavesRow(r, row)
           /\ Goes(t, [l EXCEPT !.at = "ai", !.row = row])
  <2>1. drawing' \subseteq 1 .. listed
    BY <1>0, <1>3, <1>7 DEF RowsOK
  <2>2. RowsOK'
    BY <1>0, <1>4, <1>5, <1>7, <2>1, RowsSaved
  <2>3. PICK k : k = [l EXCEPT !.at = "ai", !.row = row]
    OBVIOUS
  <2>4. /\ k.r = r /\ k.at \in {"ai", l.at}
        /\ k.row \in {row, l.row}
    BY <1>1, <2>3
  <2>5. RowShape(k.row) /\ k.r \in 1 .. listed
    BY <1>3, <1>4, <2>4
  <2>6. (RowShape(k.row) => RowShape(k.row)') /\ listed' = listed
    BY <1>5 DEF RowShape
  <2>7. CallOK(k)' /\ FreshCall(k)'
    BY <1>2, <2>4, <2>5, <2>6 DEF CallOK, FreshCall, HoldsRow
  <2> QED  BY <1>5, <1>7, <2>2, <2>3, <2>7, LibKept
<1> QED  BY <1>1, <1>6, <1>7 DEF StartDraw

\* The model drew something, or nothing the renderer accepts.
LEMMA DrawnKeeps ==
    ASSUME Inv, NEW t \in Threads, OnDrawing(t)
    PROVE  Inv'
<1>0. RowsOK /\ CallsOK
  BY DEF Inv
<1>1. PICK l : l = call[t]
  OBVIOUS
<1>2. l.at = "ai" /\ CallOK(l)
  BY <1>0, <1>1 DEF OnDrawing, CallsOK
<1>3. RowShape(l.row) /\ l.r \in 1 .. listed
  BY <1>2 DEF CallOK, HoldsRow
<1>4. /\ UNCHANGED <<lib, rows, drawing, listed, made, orderly, blessed>> /\ call[t].at # "idle"
      /\ listed' \in Nat /\ listed <= listed'
  BY <1>0, <1>1, <1>2 DEF OnDrawing, counters, RowsOK
<1>5. RowsOK'
  BY <1>0, <1>4, RowsStay
<1>6. (RowShape(l.row) => RowShape(l.row)') /\ listed' = listed
  BY <1>4 DEF RowShape
<1>7. CASE Goes(t, FailedDraw(l))
  <2>1. PICK row : row = [l.row EXCEPT !.state = "failed"]
    OBVIOUS
  <2>2. RowShape(row) /\ (RowShape(row) => RowShape(row)')
    BY <1>3, <2>1, RowWith DEF RowStates, RowShape
  <2>3. PICK k : k = FailedDraw(l)
    OBVIOUS
  <2>4. k.at = "endDraw" /\ k.r = l.r /\ k.row = row
    BY <2>1, <2>3 DEF FailedDraw
  <2>5. CallOK(k)' /\ FreshCall(k)'
    BY <1>3, <1>6, <2>2, <2>4 DEF CallOK, FreshCall, HoldsRow
  <2> QED  BY <1>4, <1>5, <1>7, <2>3, <2>5, LibKept
<1>8. ASSUME NEW n \in Names, NEW c \in Codes,
             Goes(t, Inserting("draw", Drawing(<<n, 0>>, c, "draft", "no", NoDrawing), l.r, l.row))
      PROVE  Inv'
  <2>1. PICK d : d = Drawing(<<n, 0>>, c, "draft", "no", NoDrawing)
    OBVIOUS
  <2>2. /\ DrawingShape(d) /\ d.version = 1 /\ d.preview.version = 0
        /\ d.exemplar = "no" /\ d.source = NoDrawing /\ d.status = "draft"
    BY <2>1, DrawingIs
  <2>3. PICK k : k = Inserting("draw", d, l.r, l.row)
    OBVIOUS
  <2>4. k.at = "insert" /\ k.op = "draw" /\ k.new = d /\ k.r = l.r /\ k.row = l.row
    BY <2>3 DEF Inserting
  <2>5. CallOK(k) /\ FreshCall(k)'
    BY <1>3, <2>2, <2>4 DEF CallOK, FreshCall, HoldsRow
  <2>6. Grows
    BY <1>4, LibStays
  <2>7. CallOK(k)'
    BY <2>5, <2>6, CallStays
  <2> QED  BY <1>4, <1>5, <1>8, <2>1, <2>3, <2>5, <2>7, LibKept
<1> QED  BY <1>1, <1>7, <1>8 DEF OnDrawing

\* What a plan keeps or makes is a row of a list.
LEMMA PlannedIs ==
    ASSUME RowsOK, NEW p \in Projects, NEW name, NEW catalog
    PROVE  RowShape(PlannedRow(p, name, catalog))
<1> DEFINE old == {r \in Kept(p) : rows[r].name = name}
           found == {c \in catalog : c.name = name}
<1>1. CASE old # {}
  <2>1. old \subseteq DOMAIN rows /\ DOMAIN rows \subseteq 1 .. listed /\ listed \in Nat
    BY DEF Kept, RowsOf, RowsOK
  <2>2. old \in SUBSET (0 .. listed)
    BY <2>1
  <2>3. Max(old) \in old
    <3> HIDE DEF old
    <3> QED  BY <1>1, <2>1, <2>2, MaxIs
  <2>4. RowShape(rows[Max(old)])
    BY <2>1, <2>3 DEF RowsOK
  <2> QED  BY <1>1, <2>4 DEF PlannedRow
<1>2. CASE old = {} /\ found # {}
  <2>1. PICK ill : ill = (CHOOSE c \in found : TRUE).id
    OBVIOUS
  <2>2. PlannedRow(p, name, catalog) = Row(p, name, "reused", ill)
    BY <1>2, <2>1 DEF PlannedRow
  <2> QED  BY <2>2, RowIs DEF RowStates
<1>3. CASE old = {} /\ found = {}
  <2>1. PlannedRow(p, name, catalog) = Row(p, name, "planned", NoDrawing)
    BY <1>3 DEF PlannedRow
  <2> QED  BY <2>1, RowIs DEF RowStates
<1> QED  BY <1>1, <1>2, <1>3

\* The model's plan makes a finite list of rows.
LEMMA PlanKeeps ==
    ASSUME Inv, NEW t \in Threads, OnPlan(t)
    PROVE  Inv'
<1>0. RowsOK /\ CallsOK
  BY DEF Inv
<1>1. PICK l : l = call[t]
  OBVIOUS
<1>2. l.at = "plan" /\ CallOK(l)
  BY <1>0, <1>1 DEF OnPlan, CallsOK
<1>3. l.project \in Projects
  BY <1>2 DEF CallOK
<1>4. /\ UNCHANGED <<lib, rows, drawing, listed, made, orderly, blessed>> /\ call[t].at # "idle"
      /\ listed' \in Nat /\ listed <= listed'
  BY <1>0, <1>1, <1>2 DEF OnPlan, counters, RowsOK
<1>5. RowsOK'
  BY <1>0, <1>4, RowsStay
<1>6. CASE Returns(t)
  <2>1. PICK k : k = Idle
    OBVIOUS
  <2>2. CallOK(k)' /\ FreshCall(k)' /\ Goes(t, k)
    BY <1>6, <2>1, IdleOK DEF Returns
  <2> QED  BY <1>4, <1>5, <2>2, LibKept
<1>7. ASSUME NEW wanted \in SUBSET Names,
             Goes(t, [op |-> l.op, at |-> "replace", project |-> l.project,
                      list |-> {PlannedRow(l.project, <<n, 0>>, l.catalog) : n \in wanted}])
      PROVE  Inv'
  <2>1. PICK list, f : /\ list = {PlannedRow(l.project, <<n, 0>>, l.catalog) : n \in wanted}
                       /\ f = [n \in wanted |-> PlannedRow(l.project, <<n, 0>>, l.catalog)]
    OBVIOUS
  <2>2. IsFiniteSet(wanted)
    BY SetsAssumption, FS_Subset
  <2>3. f \in Surjection(wanted, list)
    BY <2>1 DEF Surjection
  <2>4. IsFiniteSet(list)
    BY <2>2, <2>3, FS_Surjection
  <2>5. \A row \in list : RowShape(row)
    BY <1>0, <1>3, <2>1, PlannedIs
  <2>6. PICK k : k = [op |-> l.op, at |-> "replace", project |-> l.project, list |-> list]
    OBVIOUS
  <2>7. k.at = "replace" /\ k.project = l.project /\ k.list = list
    BY <2>6
  <2>8. CallOK(k) /\ FreshCall(k)'
    BY <1>3, <2>4, <2>5, <2>7 DEF CallOK, FreshCall, HoldsRow
  <2>9. Grows
    BY <1>4, LibStays
  <2>10. CallOK(k)'
    BY <2>8, <2>9, CallStays
  <2> QED  BY <1>4, <1>5, <1>7, <2>1, <2>6, <2>8, <2>10, LibKept
<1> QED  BY <1>1, <1>6, <1>7 DEF OnPlan

\* The new rows take the place of the old ones.
LEMMA ReplaceKeeps ==
    ASSUME Inv, NEW t \in Threads, Replace(t)
    PROVE  Inv'
<1>0. RowsOK /\ CallsOK
  BY DEF Inv
<1>1. PICK l, list, ids : /\ l = call[t] /\ list = SetToSeq(l.list)
                          /\ ids = listed + 1 .. listed + Len(list)
  OBVIOUS
<1>2. l.at = "replace" /\ CallOK(l)
  BY <1>0, <1>1 DEF Replace, CallsOK
<1>3. IsFiniteSet(l.list) /\ \A row \in l.list : RowShape(row)
  BY <1>2 DEF CallOK
<1>4. list \in Seq(l.list) /\ Len(list) \in Nat
  BY <1>1, <1>3, SetToSeqIs
<1>5. /\ UNCHANGED <<lib, drawing, made, orderly, blessed>> /\ call[t].at # "idle"
      /\ Returns(t) /\ listed \in Nat
  BY <1>0, <1>1, <1>2 DEF Replace, RowsOK
<1>6. PICK k : k = Idle
  OBVIOUS
<1>7. CallOK(k)' /\ FreshCall(k)' /\ Goes(t, k)
  BY <1>5, <1>6, IdleOK DEF Returns
<1>8. CASE UNCHANGED <<rows, listed>>
  <2>1. RowsOK'
    BY <1>0, <1>5, <1>8, RowsStay
  <2> QED  BY <1>5, <1>7, <1>8, <2>1, LibKept
<1>9. CASE /\ \A row \in l.list : row.ill \in DOMAIN lib \cup {NoDrawing}
           /\ listed + Len(list) <= MaxRows
           /\ listed' = listed + Len(list)
           /\ rows' = [r \in (DOMAIN rows \ RowsOf(l.project)) \cup ids |->
                          IF r \in ids THEN list[r - listed] ELSE rows[r]]
  <2>1. listed' \in Nat /\ listed <= listed' /\ listed' \in 0 .. MaxRows
    BY <1>4, <1>5, <1>9, BoundsAssumption
  <2>2. DOMAIN rows' \subseteq 1 .. listed' /\ drawing' \subseteq 1 .. listed'
    BY <1>0, <1>1, <1>4, <1>5, <1>9 DEF RowsOK
  <2>3. ASSUME NEW r \in DOMAIN rows'
        PROVE  RowShape(rows'[r]) /\ rows'[r].ill \in DOMAIN lib' \cup {NoDrawing}
    <3>1. CASE r \in ids
      <4>1. r - listed \in 1 .. Len(list)
        BY <1>1, <1>4, <1>5, <3>1
      <4>2. list[r - listed] \in l.list
        BY <1>4, <4>1
      <4>3. rows'[r] = list[r - listed]
        BY <1>9, <3>1
      <4> QED  BY <1>3, <1>5, <1>9, <4>2, <4>3
    <3>2. CASE r \notin ids
      <4>1. r \in DOMAIN rows /\ rows'[r] = rows[r]
        BY <1>9, <3>2
      <4> QED  BY <1>0, <1>5, <4>1 DEF RowsOK
    <3> QED  BY <3>1, <3>2
  <2>4. RowsOK'
    BY <2>1, <2>2, <2>3 DEF RowsOK, RowShape, NoDrawing
  <2> QED  BY <1>5, <1>7, <2>1, <2>4, LibKept
<1> QED  BY <1>1, <1>8, <1>9 DEF Replace

-----------------------------------------------------------------------------
(* The invariant holds in every state.                                     *)

\* A restart forgets every request, a video moves on by itself.
LEMMA OutsideKeeps ==
    ASSUME Inv, Restart \/ \E p \in Projects : Moves(p)
    PROVE  Inv'
<1>a. ASSUME Restart
      PROVE  /\ UNCHANGED <<lib, rows, made, listed, blessed>>
             /\ drawing' = {} /\ call' = [t \in Threads |-> Idle]
             /\ orderly' \in BOOLEAN /\ (orderly' => orderly)
  <2>1. /\ UNCHANGED <<lib, rows, made, listed, blessed>> /\ drawing' = {}
        /\ call' = [t \in Threads |-> Idle] /\ orderly' = (orderly /\ call' = call)
    BY <1>a DEF Restart
  <2>2. orderly' \in BOOLEAN /\ (orderly' => orderly)
    BY <2>1
  <2> QED  BY <2>1, <2>2
<1>b. ASSUME \E p \in Projects : Moves(p)
      PROVE  /\ UNCHANGED <<lib, rows, made, listed, blessed, drawing, call>>
             /\ orderly' \in BOOLEAN /\ (orderly' => orderly)
  <2>1. UNCHANGED <<lib, rows, made, listed, blessed, drawing, call, orderly>>
    BY <1>b DEF Moves, counters
  <2>2. orderly' \in BOOLEAN /\ (orderly' => orderly)
    BY <2>1 DEF Inv, Orderly
  <2> QED  BY <2>1, <2>2
<1>1. /\ UNCHANGED <<lib, rows, made, listed, blessed>>
      /\ UNCHANGED <<drawing, call>> \/ (drawing' = {} /\ call' = [t \in Threads |-> Idle])
      /\ orderly' \in BOOLEAN /\ (orderly' => orderly)
  BY <1>a, <1>b
<1>2. listed' \in Nat /\ listed <= listed' /\ drawing' \subseteq 1 .. listed'
  <2>1. listed \in 0 .. MaxRows /\ drawing \subseteq 1 .. listed
    BY DEF Inv, RowsOK
  <2>2. listed' = listed /\ (drawing' = drawing \/ drawing' = {})
    BY <1>1
  <2>3. drawing' \subseteq 1 .. listed
    BY <2>1, <2>2
  <2> QED  BY <2>1, <2>2, <2>3, BoundsAssumption
<1>3. /\ LibOK' /\ Blessed' /\ ExemplarsBounded' /\ Grows
      /\ orderly => \A i \in DOMAIN lib' : Previewed(lib'[i])
  BY <1>1, <1>2, LibStays
<1>4. RowsOK'
  BY <1>1, <1>2 DEF Inv, RowsOK, RowShape, NoDrawing
<1>5. /\ DOMAIN call' = Threads /\ DOMAIN call = Threads
      /\ \A t \in Threads : call'[t] = call[t] \/ call'[t] = Idle
  BY <1>1 DEF Inv, CallsOK
<1>6. ASSUME NEW t \in Threads PROVE CallOK(call[t])'
  <2>1. CASE call'[t] = Idle
    BY <2>1, IdleOK
  <2>2. CASE call'[t] = call[t]
    <3>1. PICK l : l = call[t]
      OBVIOUS
    <3>2. CallOK(l)'
      BY <1>3, <3>1, CallStays DEF Inv, CallsOK
    <3> QED  BY <2>2, <3>1, <3>2
  <2> QED  BY <1>5, <2>1, <2>2
<1>7. CallsOK'
  BY <1>5, <1>6 DEF CallsOK
<1>8. Orderly'
  <2>1. orderly' \in BOOLEAN /\ (orderly' => orderly)
    BY <1>1
  <2> SUFFICES ASSUME orderly'
               PROVE  /\ \A u, v \in Threads : u # v => call'[u] = Idle \/ call'[v] = Idle
                      /\ \A u \in Threads : FreshCall(call[u])'
                      /\ \A id \in DOMAIN lib' : Previewed(lib[id])'
    BY <2>1 DEF Orderly
  <2>2. \A u, v \in Threads : u # v => call'[u] = Idle \/ call'[v] = Idle
    BY <1>5, <2>1 DEF Inv, Orderly
  <2>3. ASSUME NEW u \in Threads PROVE FreshCall(call[u])'
    <3>1. CASE call'[u] = Idle
      BY <3>1, IdleOK
    <3>2. CASE call'[u] = call[u]
      BY <1>1, <2>1, <3>2 DEF Inv, Orderly, FreshCall
    <3> QED  BY <1>5, <3>1, <3>2
  <2>4. \A id \in DOMAIN lib' : Previewed(lib[id])'
    BY <1>3, <2>1 DEF Previewed
  <2> QED  BY <2>2, <2>3, <2>4
<1> QED  BY <1>3, <1>4, <1>7, <1>8 DEF Inv

\* The library starts with approved drawings and one original exemplar.
LEMMA InitInv == Init => Inv
<1> SUFFICES ASSUME Init PROVE Inv
  OBVIOUS
<1>1. PICK approved \in SUBSET Names :
         LET c == CHOOSE d \in Codes : TRUE
             names == SetToSeq(approved)
             id == Len(names) + 1
         IN  /\ lib = [i \in 1..id |->
                         IF i = id THEN Drawing(<<"mau", 0>>, c, "approved", "original", NoDrawing)
                         ELSE Drawing(<<names[i], 0>>, c, "approved", "no", NoDrawing)]
             /\ blessed = {<<i, lib[i].name, c>> : i \in 1..id}
             /\ made = id
  BY DEF Init
<1>2. PICK c, names, id : /\ c = (CHOOSE d \in Codes : TRUE)
                          /\ names = SetToSeq(approved) /\ id = Len(names) + 1
  OBVIOUS
<1>3. /\ lib = [i \in 1..id |->
                  IF i = id THEN Drawing(<<"mau", 0>>, c, "approved", "original", NoDrawing)
                  ELSE Drawing(<<names[i], 0>>, c, "approved", "no", NoDrawing)]
      /\ blessed = {<<i, lib[i].name, c>> : i \in 1..id} /\ made = id
  BY <1>1, <1>2
<1>4. /\ rows = <<>> /\ drawing = {} /\ call = [t \in Threads |-> Idle]
      /\ listed = 0 /\ orderly = TRUE
  BY DEF Init
<1>5. IsFiniteSet(Names) /\ Cardinality(Names) \in Nat
  BY SetsAssumption, FS_CardinalityType
<1>6. IsFiniteSet(approved) /\ Cardinality(approved) <= Cardinality(Names)
  BY <1>5, FS_Subset
<1>7. Len(names) = Cardinality(approved) /\ Cardinality(approved) \in Nat
  BY <1>2, <1>6, SetToSeqIs
<1>8. id \in 1 .. MaxDrawings
  BY <1>2, <1>5, <1>6, <1>7, BoundsAssumption
<1>9. ASSUME NEW i \in 1 .. id
      PROVE  /\ DrawingShape(lib[i]) /\ lib[i].version = 1 /\ lib[i].preview.version = 0
             /\ lib[i].code = c /\ lib[i].source = NoDrawing
             /\ lib[i].exemplar = IF i = id THEN "original" ELSE "no"
  <2>1. PICK d : d = lib[i]
    OBVIOUS
  <2>2. CASE i = id
    <3>1. d = Drawing(<<"mau", 0>>, c, "approved", "original", NoDrawing)
      BY <1>3, <2>1, <2>2
    <3> QED  BY <2>1, <2>2, <3>1, DrawingIs
  <2>3. CASE i # id
    <3>1. d = Drawing(<<names[i], 0>>, c, "approved", "no", NoDrawing)
      BY <1>3, <2>1, <2>3
    <3> QED  BY <2>1, <2>3, <3>1, DrawingIs
  <2> QED  BY <2>2, <2>3
<1>10. DOMAIN lib = 1 .. id
  BY <1>3
<1>11. LibOK
  BY <1>3, <1>8, <1>9, <1>10, BoundsAssumption DEF LibOK
<1>12. Blessed
  BY <1>3, <1>9, <1>10 DEF Blessed
<1>13. ExemplarsBounded
  <2>1. Exemplars = {id}
    BY <1>8, <1>9, <1>10 DEF Exemplars
  <2>2. Cardinality(Exemplars) = 1
    BY <2>1, FS_Singleton
  <2> QED  BY <2>1, <2>2, BoundsAssumption DEF ExemplarsBounded
<1>14. RowsOK
  <2>1. DOMAIN rows = {}
    BY <1>4
  <2> QED  BY <1>4, <2>1, BoundsAssumption DEF RowsOK
<1>15. CallOK(Idle) /\ FreshCall(Idle)
  BY DEF CallOK, FreshCall, HoldsRow, Idle
<1>16. CallsOK
  BY <1>4, <1>15 DEF CallsOK
<1>17. Orderly
  BY <1>4, <1>9, <1>10, <1>15 DEF Orderly, Previewed
<1> QED  BY <1>11, <1>12, <1>13, <1>14, <1>16, <1>17 DEF Inv

\* Every step keeps it.
LEMMA InvStep == Inv /\ [Next]_vars => Inv'
<1> SUFFICES ASSUME Inv, [Next]_vars PROVE Inv'
  OBVIOUS
<1>1. CASE UNCHANGED vars
  <2>1. UNCHANGED <<lib, rows, drawing, made, listed, blessed, orderly, call>>
    BY <1>1 DEF vars, counters
  <2>2. listed' \in Nat /\ listed <= listed'
    BY <2>1 DEF Inv, RowsOK
  <2>3. /\ LibOK' /\ Blessed' /\ ExemplarsBounded' /\ Grows
    BY <2>1, <2>2, LibStays
  <2>4. RowsOK'
    BY <2>1, RowsStay DEF Inv
  <2>5. ASSUME NEW t \in Threads PROVE CallOK(call[t])'
    <3>1. PICK l : l = call[t]
      OBVIOUS
    <3>2. CallOK(l)'
      BY <2>3, <3>1, CallStays DEF Inv, CallsOK
    <3> QED  BY <2>1, <3>1, <3>2
  <2>6. CallsOK'
    BY <2>1, <2>5 DEF Inv, CallsOK
  <2>7. Orderly'
    BY <2>1 DEF Inv, Orderly, FreshCall, Previewed, Idle
  <2> QED  BY <2>3, <2>4, <2>6, <2>7 DEF Inv
<1>2. ASSUME NEW t \in Threads, Serve(t) PROVE Inv'
  BY <1>2, MakingBegins, ShowingBegins, ListBegins DEF Serve
<1>3. ASSUME NEW t \in Threads, Step(t) PROVE Inv'
  BY <1>3, InsertKeeps, UpdateKeeps, PreviewKeeps, CheckKeeps, DeleteKeeps, ReleaseKeeps,
     SaveRowKeeps, StartKeeps, DrawnKeeps, PlanKeeps, ReplaceKeeps DEF Step
<1>4. CASE Restart \/ \E p \in Projects : Moves(p)
  BY <1>4, OutsideKeeps
<1> QED  BY <1>1, <1>2, <1>3, <1>4 DEF Next

-----------------------------------------------------------------------------
(* Theorems.                                                               *)

\* The invariant holds whatever requests overlap and wherever a restart cuts them.
THEOREM InvAlways == Spec => []Inv
<1>1. Init => Inv
  BY InitInv
<1>2. Inv /\ [Next]_vars => Inv'
  BY InvStep
<1> QED  BY <1>1, <1>2, PTL DEF Spec

\* The library and the lists have their shape; every link is to a drawing there is.
THEOREM TypeCorrect == Spec => []TypeOK
<1>1. Inv => TypeOK
  BY DEF Inv, LibOK, RowsOK, CallsOK, Orderly, DrawingShape, RowShape, RowStates, TypeOK
<1> QED  BY <1>1, InvAlways, PTL

\* However requests overlap, there are never too many exemplars, nor two of a drawing.
THEOREM ExemplarsStand == Spec => []ExemplarsBounded
<1>1. Inv => ExemplarsBounded
  BY DEF Inv
<1> QED  BY <1>1, InvAlways, PTL

\* However requests overlap, an approved drawing is as a request approved it.
THEOREM ApprovedStands == Spec => []ApprovedWasApproved
<1>1. Inv => ApprovedWasApproved
  BY DEF Inv, Blessed, ApprovedWasApproved
<1> QED  BY <1>1, InvAlways, PTL

\* With one request at a time, a version's preview shows the code of that version.
THEOREM PreviewStands == Spec => []PreviewIsOfCode
<1>1. Inv => PreviewIsOfCode
  BY DEF Inv, Orderly, Previewed, PreviewIsOfCode
<1> QED  BY <1>1, InvAlways, PTL

\* Only the deletion of a drawing takes one out of the library.
LEMMA OnlyDeletes ==
    ASSUME Inv, Next, NEW id \in DOMAIN lib \ DOMAIN lib'
    PROVE  \E t \in Threads : /\ call[t].at = "delete" /\ call[t].id = id /\ call'[t] # call[t]
                              /\ Users(id) \subseteq call[t].checked
<1>1. lib' # lib /\ ~(DOMAIN lib \subseteq DOMAIN lib')
  OBVIOUS
<1>2. ASSUME NEW t \in Threads, Serve(t) PROVE FALSE
  <2>1. lib' = lib
    BY <1>2 DEF Serve, Create, Update, Redraw, SetStatus, MakeExemplar, UnmakeExemplar, Delete,
                Rerender, Plan, Draw, SetSkipped, SetTier, DeleteDrawing, Begins
  <2> QED  BY <1>1, <2>1
<1>3. ASSUME Restart \/ \E p \in Projects : Moves(p) PROVE FALSE
  <2>1. lib' = lib
    BY <1>3 DEF Restart, Moves
  <2> QED  BY <1>1, <2>1
<1>4. PICK t \in Threads : Step(t)
  BY <1>2, <1>3 DEF Next
<1>5. ~(SaveRow(t) \/ StartDraw(t) \/ OnDrawing(t) \/ EndDraw(t) \/ OnPlan(t) \/ Replace(t)
        \/ CheckUnused(t))
  <2>1. SaveRow(t) \/ StartDraw(t) \/ OnDrawing(t) \/ EndDraw(t) \/ OnPlan(t) \/ Replace(t)
        \/ CheckUnused(t) => lib' = lib
    BY DEF SaveRow, StartDraw, OnDrawing, EndDraw, OnPlan, Replace, CheckUnused
  <2> QED  BY <1>1, <2>1
<1>6. ~(Insert(t) \/ UpdateIllustration(t) \/ SavePreview(t) \/ ReleaseExemplar(t))
  <2>1. Insert(t) => DOMAIN lib \subseteq DOMAIN lib'
    BY DEF Insert
  <2>2. UpdateIllustration(t) => DOMAIN lib \subseteq DOMAIN lib'
    BY DEF UpdateIllustration
  <2>3. SavePreview(t) => DOMAIN lib \subseteq DOMAIN lib'
    BY DEF SavePreview
  <2>4. ReleaseExemplar(t) => DOMAIN lib \subseteq DOMAIN lib'
    BY DEF ReleaseExemplar
  <2> QED  BY <1>1, <2>1, <2>2, <2>3, <2>4
<1>7. DeleteIllustration(t)
  BY <1>4, <1>5, <1>6 DEF Step
<1>8. PICK l : l = call[t]
  OBVIOUS
<1>9. /\ l.at = "delete" /\ Users(l.id) \subseteq l.checked /\ Cleared(l.id)
      /\ IF l.op = "deleteDrawing" THEN Goes(t, SavingRow(l.op, l.r, l.row)) ELSE Returns(t)
  BY <1>1, <1>7, <1>8 DEF DeleteIllustration
<1>10. l.id = id
  BY <1>9 DEF Cleared
<1>11. call'[t] # l
  <2>1. t \in DOMAIN call
    BY DEF Inv, CallsOK
  <2>2. call'[t] \in {Idle, SavingRow(l.op, l.r, l.row)}
    BY <1>9, <2>1 DEF Goes, Returns
  <2>3. Idle.at = "idle" /\ SavingRow(l.op, l.r, l.row).at = "saveRow"
    BY DEF Idle, SavingRow
  <2> QED  BY <1>9, <2>2, <2>3
<1> QED  BY <1>8, <1>9, <1>10, <1>11

\* However requests overlap, a drawing that videos link goes only once they were
\* looked at and found done with it.
THEOREM LinksStay == Spec => LinkedStays
<1>1. Inv /\ [Next]_vars =>
        [\A id \in DOMAIN lib \ DOMAIN lib' :
            \E t \in Threads :
                /\ call[t].at = "delete" /\ call[t].id = id /\ call'[t] # call[t]
                /\ Users(id) \subseteq call[t].checked]_vars
  BY OnlyDeletes
<1> QED  BY <1>1, InvAlways, PTL DEF Spec, LinkedStays

-----------------------------------------------------------------------------
(* The samples: the invariant.                                             *)

\* A rebuild was promised no newer kit than it draws with.
RebuildsClaimNoNewer ==
    \A a \in Stills!Actors : rebuilds[a] # None =>
        /\ rebuilds[a].version <= kit
        /\ rebuilds[a].file # None => rebuilds[a].version <= rebuilds[a].file[2]

\* The keeper has recorded every sample before the one it is at.
KeeperRecords ==
    rebuilds[Keeper] # None =>
        /\ keeper.at = "rebuild"
        /\ \A i \in 1..Len(Order) : i < rebuilds[Keeper].next => samples[Order[i]] # None

RecordsInv ==
    /\ Stills!TypeOK
    /\ Stills!NeverClaimsNewer /\ RebuildsClaimNoNewer
    /\ Stills!AtRestAllRecorded /\ KeeperRecords

\* Nothing is drawn while the stills are pruned, and what was drawn is there.
StillsInv ==
    /\ Stills!ShownIsThere
    /\ \A a \in Stills!Actors : rebuilds[a] # None /\ rebuilds[a].file # None
                                  => stills[rebuilds[a].file] # None
    /\ keeper.at = "prune" => /\ keeper.keep = Stills!Shown
                              /\ \A a \in Stills!Actors : rebuilds[a] = None

\* A rebuild under way is at a sample, and one that has drawn it names the file.
LEMMA RebuildShape ==
    ASSUME Stills!TypeOK, NEW a \in Stills!Actors, rebuilds[a] # None
    PROVE  /\ rebuilds[a] \in Stills!Rebuild
           /\ rebuilds[a].version \in Nat /\ rebuilds[a].version \in Stills!Kits
           /\ rebuilds[a].file # None => /\ rebuilds[a].file \in Stills!Files
                                         /\ rebuilds[a].file[2] \in Nat
           /\ Len(Order) \in Nat /\ rebuilds[a].next \in 1..Len(Order)
           /\ Order[rebuilds[a].next] \in Stills!Samples
<1>1. rebuilds[a] \in Stills!Rebuild /\ Stills!Kits \subseteq Nat
  BY DEF Stills!TypeOK, Stills!Kits
<1>2. Len(Order) \in Nat /\ DOMAIN Order = 1..Len(Order)
  BY SamplesAssumption DEF Stills!OrderAssumption
<1> QED  BY <1>1, <1>2 DEF Stills!Rebuild, Stills!Samples, Stills!Files, Stills!Range

LEMMA SamplesInit ==
    ASSUME Stills!Init PROVE RecordsInv /\ StillsInv
<1> USE DEF Stills!Init
<1>1. Stills!TypeOK
  <2>1. kit \in Stills!Kits
    BY SamplesAssumption DEF Stills!Kits, Stills!BoundsAssumption
  <2>2. keeper \in Stills!Loop
    BY DEF Stills!Loop
  <2> QED  BY <2>1, <2>2 DEF Stills!TypeOK
<1>2. Keeper \in Stills!Actors
  BY DEF Stills!Actors
<1>3. Stills!Shown = {}
  BY DEF Stills!Shown
<1> QED
  BY <1>1, <1>2, <1>3 DEF RecordsInv, StillsInv, Stills!NeverClaimsNewer, RebuildsClaimNoNewer,
     Stills!AtRestAllRecorded, KeeperRecords, Stills!ShownIsThere


\* A sample that is recorded, and the rebuild that recorded it, in one step.
LEMMA SaveStep ==
    ASSUME RecordsInv, NEW a \in Stills!Actors, Stills!SaveLanguageSample(a)
    PROVE  RecordsInv'
<1> DEFINE n == rebuilds[a].next
           new == [version |-> rebuilds[a].version, file |-> rebuilds[a].file]
           after == [version |-> rebuilds[a].version, file |-> None, next |-> n + 1]
<1>1. /\ rebuilds[a] # None /\ rebuilds[a].file # None
      /\ samples' = [samples EXCEPT ![Order[n]] = new]
      /\ UNCHANGED <<kit, stills>>
  BY DEF Stills!SaveLanguageSample, Stills!Recorded
<1>2. Stills!TypeOK /\ Keeper \in Stills!Actors
  BY DEF RecordsInv, Stills!Actors
<1>3. /\ rebuilds[a] \in Stills!Rebuild
      /\ rebuilds[a].version \in Nat /\ rebuilds[a].version \in Stills!Kits
      /\ rebuilds[a].file \in Stills!Files /\ rebuilds[a].file[2] \in Nat
      /\ Len(Order) \in Nat /\ n \in 1..Len(Order) /\ Order[n] \in Stills!Samples
  BY <1>1, <1>2, RebuildShape
<1>4. new \in Stills!Sample /\ new # None
  BY <1>3, SamplesAssumption DEF Stills!Sample, Stills!NoneAssumption
<1>5. /\ samples \in [Stills!Samples -> Stills!Sample \cup {None}]
      /\ rebuilds \in [Stills!Actors -> Stills!Rebuild \cup {None}]
      /\ keeper \in Stills!Loop
      /\ kit \in Stills!Kits /\ stills \in [Stills!Files -> {"young", "old", None}]
  BY <1>2 DEF Stills!TypeOK
<1>6. /\ samples' \in [Stills!Samples -> Stills!Sample \cup {None}]
      /\ \A s \in Stills!Samples : samples'[s] # None => samples'[s] = new \/ samples'[s] = samples[s]
      /\ \A s \in Stills!Samples : samples[s] # None => samples'[s] # None
      /\ samples'[Order[n]] # None
  BY <1>1, <1>3, <1>4, <1>5
<1>7. \/ /\ n < Len(Order) /\ rebuilds' = [rebuilds EXCEPT ![a] = after] /\ keeper' = keeper
      \/ /\ ~(n < Len(Order)) /\ rebuilds' = [rebuilds EXCEPT ![a] = None]
         /\ keeper' = IF a = Keeper THEN [keeper EXCEPT !.at = "idle"] ELSE keeper
  <2>1. CASE n < Len(Order)
    <3>1. rebuilds' = [rebuilds EXCEPT ![a] = after]
      BY <2>1 DEF Stills!SaveLanguageSample
    <3> QED  BY <2>1, <3>1 DEF Stills!SaveLanguageSample
  <2>2. CASE ~(n < Len(Order))
    BY <2>2 DEF Stills!SaveLanguageSample
  <2> QED  BY <2>1, <2>2
<1>8. n < Len(Order) => after \in Stills!Rebuild
  BY <1>3 DEF Stills!Rebuild
<1>9. /\ rebuilds' \in [Stills!Actors -> Stills!Rebuild \cup {None}]
      /\ \A b \in Stills!Actors : b # a => rebuilds'[b] = rebuilds[b]
  BY <1>5, <1>7, <1>8
<1>10. keeper' \in Stills!Loop
  <2>1. KeeperRecords
    BY DEF RecordsInv
  <2>2. a = Keeper => keeper.at = "rebuild"
    BY <1>1, <2>1 DEF KeeperRecords
  <2> QED  BY <1>5, <1>7, <2>2 DEF Stills!Loop
<1>11. Stills!TypeOK'
  BY <1>1, <1>5, <1>6, <1>9, <1>10 DEF Stills!TypeOK, Stills!Kits, Stills!Files, Stills!Samples,
     Stills!Actors, Stills!Rebuild, Stills!Sample, Stills!Loop
<1>12. Stills!NeverClaimsNewer' /\ RebuildsClaimNoNewer'
  <2>1. new.version <= new.file[2]
    BY <1>1 DEF RecordsInv, RebuildsClaimNoNewer
  <2>2. rebuilds[a].version <= kit
    BY <1>1 DEF RecordsInv, RebuildsClaimNoNewer
  <2>3. Stills!NeverClaimsNewer'
    BY <1>6, <2>1 DEF RecordsInv, Stills!NeverClaimsNewer, Stills!Samples
  <2>4. after.version <= kit' /\ after.file = None
    BY <1>1, <2>2
  <2>5. ASSUME NEW b \in Stills!Actors, rebuilds'[b] # None
        PROVE  /\ rebuilds'[b].version <= kit'
               /\ rebuilds'[b].file # None => rebuilds'[b].version <= rebuilds'[b].file[2]
    <3>1. CASE b = a
      <4>1. rebuilds'[a] = after
        BY <1>5, <1>7, <2>5, <3>1
      <4> QED  BY <2>4, <3>1, <4>1
    <3>2. CASE b # a
      BY <1>1, <1>9, <2>5, <3>2 DEF RecordsInv, RebuildsClaimNoNewer
    <3> QED  BY <3>1, <3>2
  <2> QED  BY <2>3, <2>5 DEF RebuildsClaimNoNewer, Stills!Actors
<1>13. KeeperRecords'
  <2>1. SUFFICES ASSUME rebuilds'[Keeper] # None
                 PROVE  /\ keeper'.at = "rebuild"
                        /\ \A i \in 1..Len(Order) :
                              i < rebuilds'[Keeper].next => samples'[Order[i]] # None
    BY DEF KeeperRecords
  <2>2. CASE a # Keeper
    <3>1. rebuilds'[Keeper] = rebuilds[Keeper] /\ keeper' = keeper
      BY <1>2, <1>7, <1>9, <2>2
    <3>2. \A i \in 1..Len(Order) : Order[i] \in Stills!Samples
      BY <1>3, SamplesAssumption DEF Stills!OrderAssumption, Stills!Samples, Stills!Range
    <3> QED  BY <1>6, <2>1, <3>1, <3>2 DEF RecordsInv, KeeperRecords
  <2>3. CASE a = Keeper
    <3>1. rebuilds'[Keeper] = after /\ keeper' = keeper
      BY <1>2, <1>5, <1>7, <2>1, <2>3
    <3>2. /\ keeper.at = "rebuild"
          /\ \A i \in 1..Len(Order) : i < n => samples[Order[i]] # None
      BY <1>1, <2>3 DEF RecordsInv, KeeperRecords
    <3>3. \A i \in 1..Len(Order) : Order[i] \in Stills!Samples
      BY <1>3, SamplesAssumption DEF Stills!OrderAssumption, Stills!Samples, Stills!Range
    <3>4. ASSUME NEW i \in 1..Len(Order), i < n + 1 PROVE samples'[Order[i]] # None
      <4>1. i < n \/ i = n
        BY <1>3, <3>4
      <4> QED  BY <1>6, <3>2, <3>3, <4>1
    <3> QED  BY <3>1, <3>2, <3>4
  <2> QED  BY <2>2, <2>3
<1>14. Stills!AtRestAllRecorded'
  <2>1. SUFFICES ASSUME keeper'.at \in {"idle", "prune"}, NEW s \in Stills!Samples
                 PROVE  samples'[s] # None
    BY DEF Stills!AtRestAllRecorded, Stills!Samples
  <2>2. CASE keeper' = keeper
    BY <1>6, <2>1, <2>2 DEF RecordsInv, Stills!AtRestAllRecorded
  <2>3. CASE keeper' # keeper
    <3>1. a = Keeper /\ n = Len(Order)
      BY <1>3, <1>7, <2>3
    <3>2. PICK i \in 1..Len(Order) : s = Order[i]
      BY <1>3, SamplesAssumption DEF Stills!OrderAssumption, Stills!Samples, Stills!Range
    <3>3. i < n => samples[Order[i]] # None
      BY <1>1, <3>1 DEF RecordsInv, KeeperRecords
    <3>4. i < n \/ i = n
      BY <1>3, <3>1
    <3> QED  BY <1>6, <3>2, <3>3, <3>4
  <2> QED  BY <2>2, <2>3
<1> QED  BY <1>11, <1>12, <1>13, <1>14 DEF RecordsInv

\* A rebuild that begins.
LEMMA StartStep ==
    ASSUME RecordsInv, NEW a \in Stills!Actors, Stills!StartRebuild(a)
    PROVE  RecordsInv'
<1> DEFINE new == [version |-> kit, file |-> None, next |-> 1]
<1>1. /\ rebuilds' = [rebuilds EXCEPT ![a] = new]
      /\ a = Keeper => keeper.at = "rebuild"
      /\ UNCHANGED <<kit, stills, samples, keeper>>
  BY DEF Stills!StartRebuild
<1>2. Stills!TypeOK /\ Keeper \in Stills!Actors
  BY DEF RecordsInv, Stills!Actors
<1>3. 1 \in 1..Len(Order) /\ kit \in Nat
  BY <1>2, SamplesAssumption DEF Stills!OrderAssumption, Stills!TypeOK, Stills!Kits
<1>4. new \in Stills!Rebuild
  BY <1>2, <1>3 DEF Stills!TypeOK, Stills!Rebuild
<1>5. Stills!TypeOK'
  BY <1>1, <1>2, <1>4 DEF Stills!TypeOK, Stills!Kits, Stills!Files, Stills!Samples,
     Stills!Actors, Stills!Rebuild, Stills!Sample, Stills!Loop
<1>6. \A b \in Stills!Actors : rebuilds'[b] = IF b = a THEN new ELSE rebuilds[b]
  BY <1>1, <1>2 DEF Stills!TypeOK
<1>7. Stills!NeverClaimsNewer' /\ Stills!AtRestAllRecorded'
  BY <1>1 DEF RecordsInv, Stills!NeverClaimsNewer, Stills!AtRestAllRecorded, Stills!Samples
<1>8. RebuildsClaimNoNewer'
  BY <1>1, <1>3, <1>6 DEF RecordsInv, RebuildsClaimNoNewer, Stills!Actors
<1>9. KeeperRecords'
  BY <1>1, <1>2, <1>6 DEF RecordsInv, KeeperRecords
<1> QED  BY <1>5, <1>7, <1>8, <1>9 DEF RecordsInv

\* A still that is drawn, or found as it is.
LEMMA StillStep ==
    ASSUME RecordsInv, NEW a \in Stills!Actors, Stills!Still(a)
    PROVE  /\ RecordsInv'
           /\ \E name \in Stills!Files :
                 /\ rebuilds' = [rebuilds EXCEPT ![a].file = name]
                 /\ stills'[name] # None
           /\ \A f \in Stills!Files : stills[f] # None => stills'[f] # None
<1> DEFINE name == <<Order[rebuilds[a].next], kit>>
<1>1. /\ rebuilds[a] # None
      /\ stills' = IF stills[name] # None THEN stills ELSE [stills EXCEPT ![name] = "young"]
      /\ rebuilds' = [rebuilds EXCEPT ![a].file = name]
      /\ UNCHANGED <<kit, samples, keeper>>
  BY DEF Stills!Still
<1>2. Stills!TypeOK /\ Keeper \in Stills!Actors
  BY DEF RecordsInv, Stills!Actors
<1>3. /\ rebuilds[a] \in Stills!Rebuild /\ rebuilds[a].version \in Nat
      /\ rebuilds[a].next \in 1..Len(Order) /\ Len(Order) \in Nat
      /\ Order[rebuilds[a].next] \in Stills!Samples
      /\ kit \in Stills!Kits /\ kit \in Nat
  BY <1>1, <1>2, RebuildShape DEF Stills!TypeOK, Stills!Kits
<1>4. name \in Stills!Files /\ name[2] = kit
  BY <1>3 DEF Stills!Files
<1>5. "young" # None
  BY SamplesAssumption DEF Stills!NoneAssumption
<1>6. /\ stills' \in [Stills!Files -> {"young", "old", None}]
      /\ stills'[name] # None
      /\ \A f \in Stills!Files : stills[f] # None => stills'[f] # None
  BY <1>1, <1>2, <1>4, <1>5 DEF Stills!TypeOK
<1>7. PICK v \in Stills!Kits, m \in 1..Len(Order), f \in Stills!Files \cup {None} :
         rebuilds[a] = [version |-> v, file |-> f, next |-> m]
  BY <1>3 DEF Stills!Rebuild
<1> HIDE DEF name
<1>8. rebuilds' = [rebuilds EXCEPT ![a] = [version |-> v, file |-> name, next |-> m]]
  <2>1. [[version |-> v, file |-> f, next |-> m] EXCEPT !.file = name]
          = [version |-> v, file |-> name, next |-> m]
    OBVIOUS
  <2>2. rebuilds' = [rebuilds EXCEPT ![a] = [rebuilds[a] EXCEPT !.file = name]]
    BY <1>1
  <2> QED  BY <1>7, <2>1, <2>2
<1>9. [version |-> v, file |-> name, next |-> m] \in Stills!Rebuild
  BY <1>4 DEF Stills!Rebuild
<1>10. Stills!TypeOK'
  BY <1>1, <1>2, <1>6, <1>8, <1>9 DEF Stills!TypeOK, Stills!Kits, Stills!Files, Stills!Samples,
     Stills!Actors, Stills!Rebuild, Stills!Sample, Stills!Loop
<1>11. \A b \in Stills!Actors :
         rebuilds'[b] = IF b = a THEN [version |-> v, file |-> name, next |-> m] ELSE rebuilds[b]
  BY <1>2, <1>8 DEF Stills!TypeOK
<1>12. Stills!NeverClaimsNewer' /\ Stills!AtRestAllRecorded'
  BY <1>1 DEF RecordsInv, Stills!NeverClaimsNewer, Stills!AtRestAllRecorded, Stills!Samples
<1>13. v <= kit
  BY <1>1, <1>7 DEF RecordsInv, RebuildsClaimNoNewer
<1>14. RebuildsClaimNoNewer'
  BY <1>1, <1>4, <1>11, <1>13 DEF RecordsInv, RebuildsClaimNoNewer, Stills!Actors
<1>15. KeeperRecords'
  <2>1. /\ rebuilds'[Keeper] # None => rebuilds[Keeper] # None
        /\ rebuilds[Keeper] # None => rebuilds'[Keeper].next = rebuilds[Keeper].next
    BY <1>1, <1>2, <1>7, <1>11
  <2> QED  BY <1>1, <2>1 DEF RecordsInv, KeeperRecords
<1> QED
  BY <1>1, <1>4, <1>6, <1>10, <1>12, <1>14, <1>15 DEF RecordsInv

\* A rebuild that breaks off, and a restart of the service, which breaks off all.
LEMMA BreakStep ==
    ASSUME RecordsInv,
           \/ \E a \in Stills!Actors : Stills!RebuildFails(a)
           \/ Stills!RestartAuthoring
    PROVE  RecordsInv'
<1>1. /\ Stills!TypeOK /\ Keeper \in Stills!Actors
      /\ UNCHANGED <<kit, stills, samples>>
  BY DEF RecordsInv, Stills!Actors, Stills!RebuildFails, Stills!RestartAuthoring
<1>2. /\ rebuilds' \in [Stills!Actors -> Stills!Rebuild \cup {None}]
      /\ \A b \in Stills!Actors : rebuilds'[b] \in {rebuilds[b], None}
  BY <1>1 DEF Stills!TypeOK, Stills!RebuildFails, Stills!RestartAuthoring
<1>3. /\ keeper' \in Stills!Loop
      /\ keeper' = keeper \/ keeper'.at = "ensure"
      /\ keeper' # keeper => rebuilds'[Keeper] = None
  <2>1. CASE Stills!RestartAuthoring
    BY <1>1, <2>1 DEF Stills!RestartAuthoring, Stills!Loop
  <2>2. ASSUME NEW a \in Stills!Actors, Stills!RebuildFails(a)
        PROVE  /\ keeper' \in Stills!Loop
               /\ keeper' = keeper \/ keeper'.at = "ensure"
               /\ keeper' # keeper => rebuilds'[Keeper] = None
    <3>1. CASE a = Keeper
      <4>1. keeper.at = "rebuild" /\ keeper \in Stills!Loop
        BY <1>1, <2>2, <3>1 DEF RecordsInv, KeeperRecords, Stills!TypeOK, Stills!RebuildFails
      <4>2. keeper' = [keeper EXCEPT !.at = "ensure"]
        BY <2>2, <3>1 DEF Stills!RebuildFails
      <4>3. keeper' \in Stills!Loop /\ keeper'.at = "ensure"
        BY <4>1, <4>2 DEF Stills!Loop
      <4>4. rebuilds'[Keeper] = None
        BY <1>1, <2>2, <3>1 DEF Stills!RebuildFails, Stills!TypeOK
      <4> QED  BY <4>3, <4>4
    <3>2. CASE a # Keeper
      BY <1>1, <2>2, <3>2 DEF Stills!TypeOK, Stills!RebuildFails
    <3> QED  BY <3>1, <3>2
  <2> QED  BY <2>1, <2>2
<1>4. Stills!TypeOK'
  BY <1>1, <1>2, <1>3 DEF Stills!TypeOK, Stills!Kits, Stills!Files, Stills!Samples,
     Stills!Actors, Stills!Rebuild, Stills!Sample, Stills!Loop
<1>5. Stills!NeverClaimsNewer' /\ RebuildsClaimNoNewer'
  <2>1. Stills!NeverClaimsNewer'
    BY <1>1 DEF RecordsInv, Stills!NeverClaimsNewer, Stills!Samples
  <2>2. RebuildsClaimNoNewer'
    BY <1>1, <1>2 DEF RecordsInv, RebuildsClaimNoNewer, Stills!Actors
  <2> QED  BY <2>1, <2>2
<1>6. Stills!AtRestAllRecorded'
  BY <1>1, <1>3 DEF RecordsInv, Stills!AtRestAllRecorded, Stills!Samples
<1>7. KeeperRecords'
  BY <1>1, <1>2, <1>3 DEF RecordsInv, KeeperRecords
<1> QED  BY <1>4, <1>5, <1>6, <1>7 DEF RecordsInv

\* The keeper's loop and what happens around it record nothing.
LEMMA KeeperStep ==
    ASSUME RecordsInv,
           \/ Stills!EnsureSamples \/ Stills!PruneStills \/ Stills!Prune
           \/ Stills!PruneFails \/ Stills!DeployRendering \/ Stills!DayPasses
    PROVE  RecordsInv'
<1>1. /\ Stills!TypeOK /\ Keeper \in Stills!Actors
      /\ UNCHANGED <<samples, rebuilds>>
      /\ kit \in Nat /\ kit' \in Stills!Kits /\ kit <= kit'
  <2>1. Stills!TypeOK /\ Keeper \in Stills!Actors
    BY DEF RecordsInv, Stills!Actors
  <2>2. kit \in Stills!Kits /\ kit \in Nat /\ MaxKit \in Nat
    BY <2>1, SamplesAssumption DEF Stills!TypeOK, Stills!Kits, Stills!BoundsAssumption
  <2> QED
    BY <2>1, <2>2 DEF Stills!EnsureSamples, Stills!PruneStills, Stills!Prune, Stills!PruneFails,
       Stills!DeployRendering, Stills!DayPasses, Stills!Kits
<1>2. keeper \in Stills!Loop /\ stills \in [Stills!Files -> {"young", "old", None}]
  BY <1>1 DEF Stills!TypeOK
<1>3. stills' \in [Stills!Files -> {"young", "old", None}]
  BY <1>2 DEF Stills!EnsureSamples, Stills!PruneStills, Stills!Prune, Stills!PruneFails,
     Stills!DeployRendering, Stills!DayPasses
<1>4. /\ keeper' \in Stills!Loop
      /\ keeper.at = "rebuild" => keeper' = keeper
      /\ keeper'.at \in {"idle", "prune"} =>
            keeper.at \in {"idle", "prune"} \/ Stills!SamplesCurrent(kit)
  <2>1. Stills!Shown \subseteq Stills!Files
    BY <1>1 DEF Stills!Shown, Stills!TypeOK, Stills!Sample
  <2>2. CASE Stills!EnsureSamples
    BY <1>2, <2>2 DEF Stills!EnsureSamples, Stills!Loop
  <2>3. CASE Stills!PruneStills
    BY <1>2, <2>1, <2>3 DEF Stills!PruneStills, Stills!KeepList, Stills!Loop
  <2>4. CASE Stills!Prune \/ Stills!PruneFails
    BY <1>2, <2>4 DEF Stills!Prune, Stills!PruneFails, Stills!Loop
  <2>5. CASE Stills!DeployRendering \/ Stills!DayPasses
    BY <1>2, <2>5 DEF Stills!DeployRendering, Stills!DayPasses
  <2> QED  BY <2>2, <2>3, <2>4, <2>5
<1>5. Stills!TypeOK'
  BY <1>1, <1>3, <1>4 DEF Stills!TypeOK, Stills!Kits, Stills!Files, Stills!Samples,
     Stills!Actors, Stills!Rebuild, Stills!Sample, Stills!Loop
<1>6. Stills!NeverClaimsNewer' /\ RebuildsClaimNoNewer'
  <2>1. Stills!NeverClaimsNewer'
    BY <1>1 DEF RecordsInv, Stills!NeverClaimsNewer, Stills!Samples
  <2>2. ASSUME NEW b \in Stills!Actors, rebuilds[b] # None
        PROVE  rebuilds[b].version <= kit'
    <3>1. rebuilds[b].version <= kit /\ rebuilds[b].version \in Nat
      BY <1>1, <2>2, RebuildShape DEF RecordsInv, RebuildsClaimNoNewer
    <3>2. kit' \in Nat
      BY <1>1 DEF Stills!Kits
    <3> QED  BY <1>1, <3>1, <3>2
  <2>3. RebuildsClaimNoNewer'
    BY <1>1, <2>2 DEF RecordsInv, RebuildsClaimNoNewer, Stills!Actors
  <2> QED  BY <2>1, <2>3
<1>7. Stills!AtRestAllRecorded'
  BY <1>1, <1>4 DEF RecordsInv, Stills!AtRestAllRecorded, Stills!SamplesCurrent, Stills!Samples
<1>8. KeeperRecords'
  BY <1>1, <1>4 DEF RecordsInv, KeeperRecords
<1> QED  BY <1>5, <1>6, <1>7, <1>8 DEF RecordsInv

\* The records keep their invariant in every step.
LEMMA RecordsStep ==
    ASSUME RecordsInv, [Stills!Next]_(Stills!vars)
    PROVE  RecordsInv'
<1>1. CASE UNCHANGED Stills!vars
  <2>1. Stills!TypeOK'
    BY <1>1 DEF RecordsInv, Stills!vars, Stills!TypeOK, Stills!Kits, Stills!Files, Stills!Samples,
       Stills!Actors, Stills!Rebuild, Stills!Sample, Stills!Loop
  <2> QED
    BY <1>1, <2>1 DEF RecordsInv, Stills!vars, Stills!NeverClaimsNewer, RebuildsClaimNoNewer,
       Stills!AtRestAllRecorded, KeeperRecords, Stills!Samples, Stills!Actors
<1>2. CASE Stills!Next
  BY <1>2, StartStep, StillStep, SaveStep, BreakStep, KeeperStep DEF Stills!Next
<1> QED  BY <1>1, <1>2

\* Where a page does not rebuild while stills are pruned, what is shown, and what was
\* drawn to be shown, stays.
LEMMA StillsStep ==
    ASSUME RecordsInv, StillsInv, [Stills!Next]_(Stills!vars), PageWhilePruning = FALSE
    PROVE  StillsInv'
<1>1. Stills!TypeOK /\ Keeper \in Stills!Actors /\ Stills!TypeOK'
  BY RecordsStep DEF RecordsInv, Stills!Actors
<1>2. CASE UNCHANGED Stills!vars
  BY <1>2 DEF StillsInv, Stills!vars, Stills!ShownIsThere, Stills!Shown, Stills!Samples,
     Stills!Actors
<1>3. ASSUME NEW a \in Stills!Actors, Stills!StartRebuild(a) PROVE StillsInv'
  <2>1. /\ rebuilds' = [rebuilds EXCEPT ![a] = [version |-> kit, file |-> None, next |-> 1]]
        /\ UNCHANGED <<stills, samples, keeper>>
        /\ keeper.at # "prune"
    BY <1>3 DEF Stills!StartRebuild
  <2>2. \A b \in Stills!Actors : rebuilds'[b] # None /\ rebuilds'[b].file # None
                                   => b # a /\ rebuilds'[b] = rebuilds[b]
    BY <1>1, <2>1 DEF Stills!TypeOK
  <2> QED
    BY <2>1, <2>2 DEF StillsInv, Stills!ShownIsThere, Stills!Shown, Stills!Samples, Stills!Actors
<1>4. ASSUME NEW a \in Stills!Actors, Stills!Still(a) PROVE StillsInv'
  <2>1. PICK name \in Stills!Files : /\ rebuilds' = [rebuilds EXCEPT ![a].file = name]
                                     /\ stills'[name] # None
    BY <1>4, StillStep
  <2>2. \A f \in Stills!Files : stills[f] # None => stills'[f] # None
    BY <1>4, StillStep
  <2>3. /\ rebuilds[a] # None /\ UNCHANGED <<kit, samples, keeper>>
    BY <1>4 DEF Stills!Still
  <2>4. rebuilds[a] \in Stills!Rebuild
    BY <1>1, <2>3 DEF Stills!TypeOK
  <2>5. \A b \in Stills!Actors : rebuilds'[b] = rebuilds[b] \/ rebuilds'[b].file = name
    BY <1>1, <2>1, <2>4 DEF Stills!TypeOK, Stills!Rebuild
  <2>6. \A b \in Stills!Actors : rebuilds[b] # None /\ rebuilds[b].file # None
                                   => rebuilds[b].file \in Stills!Files
    BY <1>1, RebuildShape
  <2>7. Stills!Shown \subseteq Stills!Files /\ Stills!Shown' = Stills!Shown
    BY <1>1, <2>3 DEF Stills!Shown, Stills!TypeOK, Stills!Sample, Stills!Samples
  <2>8. Stills!ShownIsThere'
    BY <2>2, <2>7 DEF StillsInv, Stills!ShownIsThere
  <2>9. keeper.at # "prune"
    BY <2>3 DEF StillsInv
  <2> QED
    BY <2>1, <2>2, <2>3, <2>5, <2>6, <2>8, <2>9 DEF StillsInv, Stills!Actors
<1>5. ASSUME NEW a \in Stills!Actors, Stills!SaveLanguageSample(a) PROVE StillsInv'
  <2> DEFINE new == [version |-> rebuilds[a].version, file |-> rebuilds[a].file]
             s == Order[rebuilds[a].next]
  <2>1. /\ rebuilds[a] # None /\ rebuilds[a].file # None
        /\ samples' = [samples EXCEPT ![s] = new]
        /\ UNCHANGED <<kit, stills>>
        /\ keeper' = keeper \/ keeper' = [keeper EXCEPT !.at = "idle"]
    BY <1>5 DEF Stills!SaveLanguageSample, Stills!Recorded
  <2>2. s \in Stills!Samples
    BY <1>1, <2>1, RebuildShape
  <2>3. \A f \in Stills!Shown' : f = rebuilds[a].file \/ f \in Stills!Shown
    <3> SUFFICES ASSUME NEW x \in Stills!Samples, samples'[x] # None
                 PROVE  \/ samples'[x].file = rebuilds[a].file
                        \/ samples'[x].file \in Stills!Shown
      BY DEF Stills!Shown, Stills!Samples
    <3>1. samples'[x] = new \/ samples'[x] = samples[x]
      BY <1>1, <2>1, <2>2 DEF Stills!TypeOK
    <3> QED  BY <3>1 DEF Stills!Shown
  <2>4. Stills!ShownIsThere'
    BY <2>1, <2>3 DEF StillsInv, Stills!ShownIsThere
  <2>5. /\ keeper.at # "prune" /\ keeper'.at # "prune"
    BY <1>1, <2>1 DEF StillsInv, Stills!TypeOK, Stills!Loop
  <2>6. ASSUME NEW b \in Stills!Actors, rebuilds'[b] # None, rebuilds'[b].file # None
        PROVE  stills'[rebuilds'[b].file] # None
    <3>1. b # a => rebuilds'[b] = rebuilds[b]
      BY <1>1, <1>5 DEF Stills!SaveLanguageSample, Stills!TypeOK
    <3>2. b = a => rebuilds'[b] = None \/ rebuilds'[b].file = None
      BY <1>1, <1>5 DEF Stills!SaveLanguageSample, Stills!TypeOK
    <3> QED  BY <2>1, <2>6, <3>1, <3>2 DEF StillsInv
  <2> QED  BY <2>4, <2>5, <2>6 DEF StillsInv, Stills!Actors
<1>6. CASE \/ \E a \in Stills!Actors : Stills!RebuildFails(a)
           \/ Stills!RestartAuthoring
  <2>1. /\ UNCHANGED <<stills, samples>>
        /\ \A b \in Stills!Actors : rebuilds'[b] \in {rebuilds[b], None}
    BY <1>1, <1>6 DEF Stills!RebuildFails, Stills!RestartAuthoring, Stills!TypeOK
  <2>2. keeper' = keeper \/ keeper'.at = "ensure"
    BY <1>1, <1>6 DEF Stills!RebuildFails, Stills!RestartAuthoring, Stills!TypeOK, Stills!Loop
  <2> QED
    BY <2>1, <2>2 DEF StillsInv, Stills!ShownIsThere, Stills!Shown, Stills!Samples, Stills!Actors
<1>7. CASE Stills!EnsureSamples \/ Stills!PruneFails \/ Stills!DeployRendering
  <2>1. /\ UNCHANGED <<stills, samples, rebuilds>>
        /\ keeper' = keeper \/ keeper'.at # "prune"
    BY <1>1, <1>7 DEF Stills!EnsureSamples, Stills!PruneFails, Stills!DeployRendering,
       Stills!TypeOK, Stills!Loop
  <2> QED
    BY <2>1 DEF StillsInv, Stills!ShownIsThere, Stills!Shown, Stills!Samples, Stills!Actors
<1>8. CASE Stills!PruneStills
  <2>1. /\ UNCHANGED <<stills, samples, rebuilds>>
        /\ keeper' = [at |-> "prune", keep |-> Stills!Shown]
        /\ keeper.at = "idle" /\ \A a \in LanguagePages : rebuilds[a] = None
    BY <1>8 DEF Stills!PruneStills, Stills!KeepList
  <2>2. rebuilds[Keeper] = None
    BY <2>1 DEF RecordsInv, KeeperRecords
  <2> QED
    BY <2>1, <2>2 DEF StillsInv, Stills!ShownIsThere, Stills!Shown, Stills!Samples, Stills!Actors
<1>9. CASE Stills!Prune
  <2>1. /\ UNCHANGED <<samples, rebuilds>> /\ keeper'.at = "idle"
        /\ keeper.keep = Stills!Shown /\ \A a \in Stills!Actors : rebuilds[a] = None
        /\ stills' = [f \in Stills!Files |->
                         IF Stills!Prunable(f, keeper.keep) THEN None ELSE stills[f]]
    BY <1>9 DEF Stills!Prune, StillsInv
  <2>2. Stills!Shown \subseteq Stills!Files /\ Stills!Shown' = Stills!Shown
    BY <1>1, <2>1 DEF Stills!Shown, Stills!TypeOK, Stills!Sample, Stills!Samples
  <2>3. Stills!ShownIsThere'
    BY <2>1, <2>2 DEF StillsInv, Stills!ShownIsThere, Stills!Prunable
  <2> QED  BY <2>1, <2>3 DEF StillsInv, Stills!Actors
<1>10. CASE Stills!DayPasses
  <2>1. /\ UNCHANGED <<samples, rebuilds, keeper>> /\ keeper.at # "prune"
        /\ \A a \in Stills!Actors : rebuilds[a] = None
        /\ stills' = [f \in Stills!Files |-> IF stills[f] = None THEN None ELSE "old"]
    BY <1>10 DEF Stills!DayPasses
  <2>2. Stills!Shown \subseteq Stills!Files /\ Stills!Shown' = Stills!Shown
    BY <1>1, <2>1 DEF Stills!Shown, Stills!TypeOK, Stills!Sample, Stills!Samples
  <2>3. "old" # None
    BY SamplesAssumption DEF Stills!NoneAssumption
  <2>4. Stills!ShownIsThere'
    BY <2>1, <2>2, <2>3 DEF StillsInv, Stills!ShownIsThere
  <2> QED  BY <2>1, <2>4 DEF StillsInv, Stills!Actors
<1> QED
  BY <1>2, <1>3, <1>4, <1>5, <1>6, <1>7, <1>8, <1>9, <1>10 DEF Stills!Next

-----------------------------------------------------------------------------
\* However deployments fall between the calls of rebuilds, and whatever breaks off, no
\* sample is recorded under a kit newer than the one that drew it, and once the keeper
\* rests every sample is recorded; also where pages rebuild while stills are pruned.
THEOREM RecordsStand ==
    Stills!Spec => [](Stills!TypeOK /\ Stills!NeverClaimsNewer /\ Stills!AtRestAllRecorded)
<1>1. Stills!Init => RecordsInv
  BY SamplesInit
<1>2. RecordsInv /\ [Stills!Next]_(Stills!vars) => RecordsInv'
  BY RecordsStep
<1>3. RecordsInv => Stills!TypeOK /\ Stills!NeverClaimsNewer /\ Stills!AtRestAllRecorded
  BY DEF RecordsInv
<1> QED  BY <1>1, <1>2, <1>3, PTL DEF Stills!Spec

\* Where no page rebuilds the samples while stills are pruned, the page also never shows
\* a still that was deleted (keepLanguageSamples, PruneStills).
THEOREM SamplesStandAlways ==
    ASSUME PageWhilePruning = FALSE
    PROVE  Stills!Spec => []SamplesStand
<1>1. Stills!Init => RecordsInv /\ StillsInv
  BY SamplesInit
<1>2. RecordsInv /\ StillsInv /\ [Stills!Next]_(Stills!vars) => (RecordsInv /\ StillsInv)'
  BY RecordsStep, StillsStep
<1>3. RecordsInv /\ StillsInv => SamplesStand
  BY DEF RecordsInv, StillsInv, SamplesStand, Stills!SamplesStand
<1> QED  BY <1>1, <1>2, <1>3, PTL DEF Stills!Spec

-----------------------------------------------------------------------------
(* The languages: the invariant.                                           *)

\* Every language has a version; the shipped one is there, and as it is shipped.
StoreOK ==
    /\ shipped \in Rules
    /\ langs \in [Languages -> Store!Language \cup {None, Gone}]
    /\ \A id \in Store!Stored : Len(langs[id].rules) \in 1..MaxVersions
    /\ Phatsang \in Store!Stored /\ langs[Phatsang].system
    /\ Store!ShippedIsNewest
    /\ Store!ExactlyOneActive

\* A pin that was read names a version that was stored; only the language may be gone.
ReadPinOK(pin) ==
    /\ pin \in Store!Pin /\ pin.id \in Languages
    /\ langs[pin.id] # None
    /\ pin.id \in Store!Stored => pin.version \in 1..Len(langs[pin.id].rules)

RequestsOK ==
    /\ languageCalls \in [PageRequests -> Store!Call \cup {None}]
    /\ \A r \in PageRequests : languageCalls[r] # None =>
          /\ languageCalls[r].op = "update" => languageCalls[r].id # Phatsang
          /\ languageCalls[r].op = "insert" => ReadPinOK(languageCalls[r].pin)

PinsOK ==
    /\ pins \in [Videos -> Store!Pin \cup {None}]
    /\ \A p \in Videos : pins[p] # None =>
          /\ pins[p].id \in Store!Stored
          /\ pins[p].version \in 1..Len(langs[pins[p].id].rules)

LanguagesInv == StoreOK /\ RequestsOK /\ PinsOK

\* What a step does to the store: a language that goes does not come back, and the
\* versions of one that stays are only added to.
VersionsKept ==
    \A id \in Languages : langs[id] # None =>
        /\ langs'[id] # None
        /\ langs'[id] # Gone =>
              /\ langs[id] # Gone
              /\ Len(langs[id].rules) <= Len(langs'[id].rules)
              /\ \A v \in 1..Len(langs[id].rules) : langs'[id].rules[v] = langs[id].rules[v]

\* One more version at the end of some.
LEMMA Appended ==
    ASSUME NEW s \in Seq(Rules), NEW text \in Rules
    PROVE  /\ Append(s, text) \in Seq(Rules)
           /\ Len(s) \in Nat /\ Len(Append(s, text)) = Len(s) + 1
           /\ \A v \in 1..Len(s) : Append(s, text)[v] = s[v]
           /\ Append(s, text)[Len(s) + 1] = text
  OBVIOUS

\* A language that becomes active or passive.
LEMMA ActiveChanged ==
    ASSUME NEW x \in Store!Language, NEW c \in BOOLEAN
    PROVE  /\ [x EXCEPT !.active = c] \in Store!Language
           /\ [x EXCEPT !.active = c].active = c
           /\ [x EXCEPT !.active = c].system = x.system
           /\ [x EXCEPT !.active = c].rules = x.rules
  BY DEF Store!Language

\* A language with one more version.
LEMMA VersionAdded ==
    ASSUME NEW x \in Store!Language, NEW text \in Rules
    PROVE  /\ [x EXCEPT !.rules = Append(@, text)] \in Store!Language
           /\ [x EXCEPT !.rules = Append(@, text)].active = x.active
           /\ [x EXCEPT !.rules = Append(@, text)].system = x.system
           /\ [x EXCEPT !.rules = Append(@, text)].rules = Append(x.rules, text)
  BY DEF Store!Language

\* A stored language, field by field.
LEMMA StoredShape ==
    ASSUME StoreOK, NEW id \in Store!Stored
    PROVE  /\ id \in Languages /\ langs[id] \in Store!Language
           /\ langs[id] # None /\ langs[id] # Gone
           /\ langs[id].rules \in Seq(Rules) /\ Len(langs[id].rules) \in Nat
  BY DEF StoreOK, Store!Stored, Store!There, Store!Language

\* The store after one language has changed or come, none becoming active or passive.
LEMMA OneChanges ==
    ASSUME StoreOK, NEW id \in Languages, NEW new \in Store!Language,
           langs[id] # Gone,
           Len(new.rules) \in 1..MaxVersions,
           langs' = [langs EXCEPT ![id] = new],
           IF langs[id] = None THEN ~new.active /\ ~new.system
           ELSE /\ new.active = langs[id].active /\ new.system = langs[id].system
                /\ Len(langs[id].rules) <= Len(new.rules)
                /\ \A v \in 1..Len(langs[id].rules) : new.rules[v] = langs[id].rules[v],
           IF id = Phatsang THEN shipped' \in Rules /\ new.rules[Len(new.rules)] = shipped'
                            ELSE shipped' = shipped
    PROVE  StoreOK' /\ VersionsKept
<1>1. /\ langs \in [Languages -> Store!Language \cup {None, Gone}]
      /\ new # None /\ new # Gone /\ None # Gone
      /\ Phatsang \in Languages
  BY LanguagesAssumption DEF StoreOK, Store!NoneAssumption, Store!PhatsangAssumption
<1>2. /\ langs' \in [Languages -> Store!Language \cup {None, Gone}]
      /\ \A l \in Languages : langs'[l] = IF l = id THEN new ELSE langs[l]
  BY <1>1
<1>3. Store!Stored' = Store!Stored \cup {id}
  BY <1>1, <1>2 DEF Store!Stored, Store!There
<1>4. \A l \in Store!Stored' : Len(langs'[l].rules) \in 1..MaxVersions
  BY <1>2, <1>3, StoredShape DEF StoreOK
<1>5. Phatsang \in Store!Stored' /\ langs'[Phatsang].system /\ shipped' \in Rules
  BY <1>1, <1>2, <1>3, StoredShape DEF StoreOK
<1>6. Store!ShippedIsNewest'
  BY <1>1, <1>2 DEF StoreOK, Store!ShippedIsNewest, Store!Newest, Store!Last
<1>7. Store!Active' = Store!Active
  <2>1. Store!Stored \subseteq Languages
    BY DEF Store!Stored, Store!There
  <2>2. ASSUME NEW l \in Languages
        PROVE  l \in Store!Active' <=> l \in Store!Active
    <3>1. CASE l # id
      BY <1>2, <1>3, <3>1 DEF Store!Active
    <3>2. CASE l = id /\ langs[id] = None
      BY <1>2, <1>3, <3>2 DEF Store!Active, Store!Stored, Store!There
    <3>3. CASE l = id /\ langs[id] # None
      BY <1>2, <1>3, <3>3 DEF Store!Active, Store!Stored, Store!There
    <3> QED  BY <3>1, <3>2, <3>3
  <2> QED  BY <1>3, <2>1, <2>2 DEF Store!Active
<1>8. Store!ExactlyOneActive'
  BY <1>7 DEF StoreOK, Store!ExactlyOneActive
<1>9. VersionsKept
  <2>1. \A l \in Languages : langs[l] # None /\ langs[l] # Gone => Len(langs[l].rules) \in Nat
    BY StoredShape DEF Store!Stored, Store!There
  <2> QED  BY <1>1, <1>2, <2>1 DEF VersionsKept
<1> QED  BY <1>2, <1>4, <1>5, <1>6, <1>8, <1>9 DEF StoreOK

\* The languages at the first start of the service.
LEMMA LanguagesInit ==
    ASSUME Store!Init PROVE LanguagesInv
<1> DEFINE none == [id \in Languages |-> None]
           empty == [system |-> TRUE, active |-> FALSE, rules |-> <<>>]
           first == [empty EXCEPT !.rules = Append(@, shipped)]
           seed == [first EXCEPT !.active = TRUE]
<1>1. /\ Phatsang \in Languages /\ MaxVersions \in Nat \ {0} /\ None # Gone
      /\ shipped \in Rules
      /\ langs = Store!SeedVisualLanguages(none, shipped)
  BY LanguagesAssumption DEF Store!Init, Store!PhatsangAssumption, Store!BoundsAssumption,
     Store!NoneAssumption
<1>2. /\ empty \in Store!Language /\ ~empty.active /\ empty.system /\ empty.rules = <<>>
  BY DEF Store!Language
<1> HIDE DEF empty
<1>3. /\ first \in Store!Language /\ ~first.active /\ first.system
      /\ first.rules = Append(<<>>, shipped)
  <2>1. /\ first \in Store!Language /\ first.active = empty.active
        /\ first.system = empty.system /\ first.rules = Append(empty.rules, shipped)
    BY <1>1, <1>2, VersionAdded, Zenon
  <2> QED  BY <1>2, <2>1
<1>4. Store!WithShipped(Store!Present(none), shipped) = [none EXCEPT ![Phatsang] = first]
  <2>1. Store!Present(none) = [none EXCEPT ![Phatsang] = empty]
    BY <1>1 DEF Store!Present, empty
  <2>2. Store!Present(none)[Phatsang] = empty
    BY <1>1, <2>1
  <2>3. ~Store!SameAsShipped(Store!Present(none)[Phatsang].rules, shipped)
    BY <1>2, <2>2 DEF Store!SameAsShipped
  <2>4. Store!WithShipped(Store!Present(none), shipped)
          = [Store!Present(none) EXCEPT ![Phatsang].rules = Append(@, shipped)]
    BY <2>3 DEF Store!WithShipped
  <2> QED  BY <1>1, <2>1, <2>4
<1> HIDE DEF first
<1>5. first # None /\ first # Gone
  BY <1>3, LanguagesAssumption DEF Store!NoneAssumption
<1>6. langs = [none EXCEPT ![Phatsang] = seed]
  <2> DEFINE seeded == Store!WithShipped(Store!Present(none), shipped)
  <2>1. ~\E id \in Store!There(seeded) : seeded[id].active
    BY <1>1, <1>3, <1>4 DEF Store!There
  <2>2. langs = [seeded EXCEPT ![Phatsang].active = TRUE]
    BY <1>1, <2>1 DEF Store!SeedVisualLanguages
  <2> QED  BY <1>1, <1>4, <2>2
<1>7. /\ seed \in Store!Language /\ seed.active /\ seed.system
      /\ seed.rules = Append(<<>>, shipped)
  <2>1. /\ seed \in Store!Language /\ seed.active = TRUE
        /\ seed.system = first.system /\ seed.rules = first.rules
    BY <1>1, <1>3, ActiveChanged, Zenon
  <2> QED  BY <1>3, <2>1
<1> HIDE DEF seed
<1>8. seed # None /\ seed # Gone
  BY <1>7, LanguagesAssumption DEF Store!NoneAssumption
<1>9. /\ langs \in [Languages -> Store!Language \cup {None, Gone}]
      /\ langs[Phatsang] = seed
      /\ \A id \in Languages : id # Phatsang => langs[id] = None
  BY <1>1, <1>6, <1>7
<1>10. Store!Stored = {Phatsang}
  BY <1>1, <1>8, <1>9 DEF Store!Stored, Store!There
<1>11. Len(seed.rules) = 1 /\ seed.rules[1] = shipped
  BY <1>1, <1>7
<1>12. StoreOK
  <2>1. Store!ExactlyOneActive
    <3>1. Store!Active = {Phatsang}
      BY <1>7, <1>9, <1>10 DEF Store!Active
    <3> QED  BY <1>1, <3>1 DEF Store!ExactlyOneActive
  <2>2. Store!ShippedIsNewest
    BY <1>9, <1>11 DEF Store!ShippedIsNewest, Store!Newest, Store!Last
  <2>3. 1 \in 1..MaxVersions
    BY <1>1
  <2>4. \A id \in Store!Stored : Len(langs[id].rules) \in 1..MaxVersions
    BY <1>9, <1>10, <1>11, <2>3
  <2> QED
    BY <1>1, <1>7, <1>9, <1>10, <2>1, <2>2, <2>4 DEF StoreOK
<1> QED  BY <1>12 DEF LanguagesInv, RequestsOK, PinsOK, Store!Init

-----------------------------------------------------------------------------
(* What each step does to the store.                                       *)

\* No language that stands goes.
StoredStay == Store!Stored \subseteq Store!Stored'

LEMMA SameStore ==
    ASSUME StoreOK, UNCHANGED <<langs, shipped>>
    PROVE  StoreOK' /\ VersionsKept /\ StoredStay
<1>1. \A id \in Languages : langs[id] # None /\ langs[id] # Gone => Len(langs[id].rules) \in Nat
  BY StoredShape DEF Store!Stored, Store!There
<1>2. VersionsKept
  BY <1>1 DEF VersionsKept
<1>3. Store!Stored' = Store!Stored /\ Store!Active' = Store!Active
  BY DEF Store!Stored, Store!There, Store!Active
<1> QED
  BY <1>2, <1>3 DEF StoreOK, StoredStay, Store!ShippedIsNewest, Store!Newest, Store!Last,
     Store!ExactlyOneActive

LEMMA OneChangesStays ==
    ASSUME StoreOK, NEW id \in Languages, NEW new \in Store!Language,
           langs' = [langs EXCEPT ![id] = new]
    PROVE  StoredStay
<1>1. new # None /\ new # Gone /\ langs \in [Languages -> Store!Language \cup {None, Gone}]
  BY LanguagesAssumption DEF StoreOK, Store!NoneAssumption
<1> QED  BY <1>1 DEF StoredStay, Store!Stored, Store!There

\* A start of the service seeds the shipped language with at most one version more.
LEMMA RestartKeeps ==
    ASSUME StoreOK, NEW text \in Rules, Store!Restart(text)
    PROVE  StoreOK' /\ VersionsKept /\ StoredStay
<1>1. /\ Phatsang \in Languages /\ langs[Phatsang] \in Store!Language
      /\ langs[Phatsang] # None /\ langs[Phatsang] # Gone
      /\ langs[Phatsang].rules \in Seq(Rules) /\ Len(langs[Phatsang].rules) \in 1..MaxVersions
      /\ MaxVersions \in Nat
  BY StoredShape, LanguagesAssumption DEF StoreOK, Store!BoundsAssumption
<1>2. Store!Present(langs) = langs
  BY <1>1 DEF Store!Present
<1> DEFINE old == langs[Phatsang]
           new == IF Store!SameAsShipped(old.rules, text) THEN old
                  ELSE [old EXCEPT !.rules = Append(@, text)]
           seeded == Store!WithShipped(langs, text)
<1>3. /\ new \in Store!Language /\ new.active = old.active /\ new.system = old.system
      /\ new.rules[Len(new.rules)] = text
      /\ Len(new.rules) \in 1..MaxVersions /\ Len(old.rules) <= Len(new.rules)
      /\ \A v \in 1..Len(old.rules) : new.rules[v] = old.rules[v]
  <2>1. CASE Store!SameAsShipped(old.rules, text)
    BY <1>1, <2>1 DEF Store!SameAsShipped, Store!Last
  <2>2. CASE ~Store!SameAsShipped(old.rules, text)
    <3>1. /\ new \in Store!Language /\ new.active = old.active /\ new.system = old.system
          /\ new.rules = Append(old.rules, text)
      BY <1>1, <2>2, VersionAdded
    <3>2. Len(old.rules) < MaxVersions
      BY <2>2 DEF Store!Restart
    <3> QED  BY <1>1, <3>1, <3>2, Appended
  <2> QED  BY <2>1, <2>2
<1>4. seeded = [langs EXCEPT ![Phatsang] = new]
  BY <1>1 DEF Store!WithShipped, StoreOK
<1>5. \E id \in Store!There(seeded) : seeded[id].active
  <2>1. PICK id \in Languages : id \in Store!Active
    BY DEF StoreOK, Store!ExactlyOneActive
  <2>2. id \in Store!Stored /\ langs[id].active
    BY <2>1 DEF Store!Active
  <2>3. new # None /\ new # Gone
    BY <1>3, LanguagesAssumption DEF Store!NoneAssumption
  <2>4. id \in Store!There(seeded)
    BY <1>4, <2>2, <2>3 DEF StoreOK, Store!There, Store!Stored
  <2>5. seeded[id].active
    BY <1>3, <1>4, <2>1, <2>2 DEF StoreOK
  <2> QED  BY <2>4, <2>5
<1>6. langs' = seeded /\ shipped' = text
  BY <1>2, <1>5 DEF Store!Restart, Store!SeedVisualLanguages
<1> HIDE DEF new
<1>7. langs' = [langs EXCEPT ![Phatsang] = new]
  BY <1>4, <1>6
<1> QED  BY <1>1, <1>3, <1>6, <1>7, OneChanges, OneChangesStays

\* Whatever became active between the two statements, the commit leaves one active.
LEMMA ActivateKeeps ==
    ASSUME StoreOK, NEW r \in PageRequests, Store!SetActive(r)
    PROVE  StoreOK' /\ VersionsKept /\ StoredStay
<1> DEFINE asked == languageCalls[r]
           after == [id \in Languages |->
                      IF id \notin Store!Stored THEN langs[id]
                      ELSE IF id = asked.id THEN [langs[id] EXCEPT !.active = TRUE]
                      ELSE IF id \in asked.clear THEN [langs[id] EXCEPT !.active = FALSE]
                      ELSE langs[id]]
<1>1. /\ shipped' = shipped
      /\ langs' = IF asked.id \in Store!Stored /\ Store!OneActive(after) THEN after ELSE langs
  BY DEF Store!SetActive
<1>2. CASE ~(asked.id \in Store!Stored /\ Store!OneActive(after))
  BY <1>1, <1>2, SameStore
<1>3. CASE asked.id \in Store!Stored /\ Store!OneActive(after)
  <2>1. langs' = after
    BY <1>1, <1>3
  <2>2. /\ langs \in [Languages -> Store!Language \cup {None, Gone}]
        /\ Store!Stored \subseteq Languages
    BY DEF StoreOK, Store!Stored, Store!There
  <2>3. ASSUME NEW id \in Store!Stored
        PROVE  /\ after[id] \in Store!Language
               /\ after[id].system = langs[id].system /\ after[id].rules = langs[id].rules
    <3>1. langs[id] \in Store!Language
      BY StoredShape
    <3> QED  BY <2>2, <3>1, ActiveChanged
  <2>4. after[asked.id].active
    BY <1>3, <2>2, StoredShape, ActiveChanged
  <2>5. \A id \in Languages : id \notin Store!Stored => after[id] = langs[id]
    OBVIOUS
  <2> HIDE DEF after
  <2>6. \A id \in Store!Stored : after[id] # None /\ after[id] # Gone
    BY <2>3, LanguagesAssumption DEF Store!NoneAssumption
  <2>7. Store!There(after) = Store!Stored /\ Store!Stored' = Store!Stored
    BY <2>1, <2>2, <2>5, <2>6 DEF Store!There, Store!Stored
  <2>8. Store!Active' = {asked.id}
    <3>1. \A i, j \in Store!Stored : after[i].active /\ after[j].active => i = j
      BY <1>3, <2>7 DEF Store!OneActive
    <3>2. Store!Active' = {id \in Store!Stored : after[id].active}
      BY <2>1, <2>7 DEF Store!Active
    <3> QED  BY <1>3, <2>4, <3>1, <3>2
  <2>9. Store!ExactlyOneActive'
    BY <1>3, <2>2, <2>8 DEF Store!ExactlyOneActive
  <2>10. langs' \in [Languages -> Store!Language \cup {None, Gone}]
    <3>1. DOMAIN after = Languages /\ after = [id \in Languages |-> after[id]]
      BY DEF after
    <3>2. \A id \in Languages : after[id] \in Store!Language \cup {None, Gone}
      BY <2>2, <2>3, <2>5
    <3> QED  BY <2>1, <3>1, <3>2
  <2>11. /\ Phatsang \in Store!Stored' /\ langs'[Phatsang].system
         /\ Store!ShippedIsNewest'
         /\ \A id \in Store!Stored' : Len(langs'[id].rules) \in 1..MaxVersions
    BY <1>1, <2>1, <2>3, <2>7 DEF StoreOK, Store!ShippedIsNewest, Store!Newest, Store!Last
  <2>12. StoreOK'
    BY <1>1, <2>9, <2>10, <2>11 DEF StoreOK
  <2>13. VersionsKept
    <3>1. \A id \in Store!Stored : Len(langs[id].rules) \in Nat
      BY StoredShape
    <3>2. \A id \in Languages : id \notin Store!Stored => langs[id] = None \/ langs[id] = Gone
      BY DEF Store!Stored, Store!There
    <3>3. None # Gone
      BY LanguagesAssumption DEF Store!NoneAssumption
    <3>4. ASSUME NEW id \in Languages, langs[id] # None
          PROVE  /\ langs'[id] # None
                 /\ langs'[id] # Gone =>
                      /\ langs[id] # Gone
                      /\ Len(langs[id].rules) <= Len(langs'[id].rules)
                      /\ \A v \in 1..Len(langs[id].rules) : langs'[id].rules[v] = langs[id].rules[v]
      <4>1. CASE id \in Store!Stored
        <5>1. langs'[id].rules = langs[id].rules /\ Len(langs[id].rules) \in Nat
          BY <2>1, <2>3, <3>1, <4>1
        <5>2. langs'[id] # None /\ langs[id] # Gone
          BY <2>1, <2>6, <4>1 DEF Store!Stored, Store!There
        <5> QED  BY <5>1, <5>2
      <4>2. CASE id \notin Store!Stored
        BY <2>1, <2>5, <3>2, <3>3, <3>4, <4>2
      <4> QED  BY <4>1, <4>2
    <3> QED  BY <3>4 DEF VersionsKept
  <2> QED  BY <2>7, <2>12, <2>13 DEF StoredStay
<1> QED  BY <1>2, <1>3

\* A copy takes an id that was never given.
LEMMA CopyKeeps ==
    ASSUME StoreOK, RequestsOK, NEW r \in PageRequests, Store!CreateVisualLanguage(r)
    PROVE  StoreOK' /\ VersionsKept /\ StoredStay
<1> DEFINE new == [system |-> FALSE, active |-> FALSE, rules |-> <<languageCalls[r].new>>]
<1>1. PICK id \in Languages : langs[id] = None /\ langs' = [langs EXCEPT ![id] = new]
  BY DEF Store!CreateVisualLanguage
<1>2. shipped' = shipped /\ id # Phatsang
  BY <1>1, StoredShape DEF StoreOK, Store!CreateVisualLanguage
<1>3. languageCalls[r] \in Store!Call /\ languageCalls[r].op = "copy"
  BY DEF Store!CreateVisualLanguage, Store!Doing, RequestsOK
<1>4. languageCalls[r].new \in Rules
  BY <1>3 DEF Store!Call
<1>5. new \in Store!Language /\ ~new.active /\ ~new.system /\ Len(new.rules) = 1
  BY <1>4 DEF Store!Language
<1>6. 1 \in 1..MaxVersions /\ None # Gone
  BY LanguagesAssumption DEF Store!BoundsAssumption, Store!NoneAssumption
<1> HIDE DEF new
<1>7. Len(new.rules) \in 1..MaxVersions /\ langs[id] # Gone
  BY <1>1, <1>5, <1>6
<1> QED  BY <1>1, <1>2, <1>5, <1>7, OneChanges, OneChangesStays

\* An edit is the next version of a language that is not shipped.
LEMMA EditKeeps ==
    ASSUME StoreOK, RequestsOK, NEW r \in PageRequests, Store!AddVersion(r)
    PROVE  StoreOK' /\ VersionsKept /\ StoredStay
<1> DEFINE id == languageCalls[r].id
           new == [langs[id] EXCEPT !.rules = Append(@, languageCalls[r].new)]
<1>1. /\ languageCalls[r] \in Store!Call /\ languageCalls[r].op = "update"
      /\ id # Phatsang /\ shipped' = shipped
  BY DEF Store!AddVersion, Store!Doing, RequestsOK
<1>2. CASE id \notin Store!Stored
  BY <1>1, <1>2, SameStore DEF Store!AddVersion
<1>3. CASE id \in Store!Stored
  <2>1. /\ Len(langs[id].rules) < MaxVersions
        /\ langs' = [langs EXCEPT ![id].rules = Append(@, languageCalls[r].new)]
    BY <1>3 DEF Store!AddVersion, Store!Edited
  <2>2. languageCalls[r].new \in Rules
    BY <1>1 DEF Store!Call
  <2>3. /\ id \in Languages /\ langs[id] \in Store!Language
        /\ langs[id] # None /\ langs[id] # Gone
        /\ langs[id].rules \in Seq(Rules) /\ Len(langs[id].rules) \in Nat
        /\ MaxVersions \in Nat
    BY <1>3, StoredShape, LanguagesAssumption DEF Store!BoundsAssumption
  <2>4. /\ new \in Store!Language
        /\ new.active = langs[id].active /\ new.system = langs[id].system
        /\ new.rules = Append(langs[id].rules, languageCalls[r].new)
    BY <2>2, <2>3, VersionAdded
  <2>5. /\ Len(new.rules) \in 1..MaxVersions /\ Len(langs[id].rules) <= Len(new.rules)
        /\ \A v \in 1..Len(langs[id].rules) : new.rules[v] = langs[id].rules[v]
    <3>1. new.rules = Append(langs[id].rules, languageCalls[r].new)
      BY <2>4
    <3>2. /\ Len(new.rules) = Len(langs[id].rules) + 1
          /\ \A v \in 1..Len(langs[id].rules) : new.rules[v] = langs[id].rules[v]
      BY <2>2, <2>3, <3>1, Appended
    <3> HIDE DEF new, id
    <3> QED  BY <2>1, <2>3, <3>2
  <2>6. langs' = [langs EXCEPT ![id] = new]
    BY <2>1
  <2> HIDE DEF new
  <2> QED  BY <1>1, <2>3, <2>4, <2>5, <2>6, OneChanges, OneChangesStays
<1> QED  BY <1>2, <1>3

\* A language goes only while it is neither active nor shipped nor pinned.
LEMMA GoneKeeps ==
    ASSUME StoreOK, PinsOK, NEW r \in PageRequests, Store!DeleteVisualLanguage(r)
    PROVE  /\ StoreOK' /\ VersionsKept
           /\ \A p \in Videos : pins[p] # None => pins[p].id \in Store!Stored'
<1> DEFINE id == languageCalls[r].id
<1>1. shipped' = shipped /\ langs' = IF Store!MayDelete(id) THEN [langs EXCEPT ![id] = Gone] ELSE langs
  BY DEF Store!DeleteVisualLanguage
<1>2. CASE ~Store!MayDelete(id)
  BY <1>1, <1>2, SameStore DEF PinsOK, StoredStay
<1>3. CASE Store!MayDelete(id)
  <2>1. /\ id \in Store!Stored /\ id \in Languages /\ ~langs[id].system /\ ~langs[id].active
        /\ \A p \in Videos : pins[p] # None => pins[p].id # id
        /\ None # Gone
    BY <1>3, LanguagesAssumption DEF Store!MayDelete, Store!Editable, Store!Pinned, Store!Stored,
       Store!There, Store!NoneAssumption
  <2>2. /\ langs \in [Languages -> Store!Language \cup {None, Gone}]
        /\ langs' = [langs EXCEPT ![id] = Gone]
    BY <1>1, <1>3 DEF StoreOK
  <2>3. /\ langs' \in [Languages -> Store!Language \cup {None, Gone}]
        /\ \A l \in Languages : langs'[l] = IF l = id THEN Gone ELSE langs[l]
    BY <2>1, <2>2
  <2>4. Store!Stored' = Store!Stored \ {id}
    BY <2>1, <2>3 DEF Store!Stored, Store!There
  <2>5. Store!Active' = Store!Active
    BY <2>1, <2>3, <2>4, StoredShape DEF Store!Active
  <2>6. Phatsang \in Store!Stored' /\ langs'[Phatsang] = langs[Phatsang]
    BY <2>1, <2>3, <2>4, StoredShape DEF StoreOK
  <2>7. \A l \in Store!Stored' : l \in Store!Stored /\ langs'[l] = langs[l]
    BY <2>3, <2>4, StoredShape
  <2>8. StoreOK'
    BY <1>1, <2>3, <2>5, <2>6, <2>7 DEF StoreOK, Store!ShippedIsNewest, Store!Newest,
       Store!Last, Store!ExactlyOneActive
  <2>9. VersionsKept
    <3>1. \A l \in Store!Stored : Len(langs[l].rules) \in Nat
      BY StoredShape
    <3> QED  BY <2>1, <2>3, <3>1 DEF VersionsKept, Store!Stored, Store!There
  <2>10. \A p \in Videos : pins[p] # None => pins[p].id \in Store!Stored'
    BY <2>1, <2>4 DEF PinsOK
  <2> QED  BY <2>8, <2>9, <2>10
<1> QED  BY <1>2, <1>3

-----------------------------------------------------------------------------
(* What the requests carry, and the rows.                                  *)

\* Everything a step does to the store, and to the languages that are pinned.
LEMMA StoreStep ==
    ASSUME LanguagesInv, [Store!Next]_(Store!vars)
    PROVE  /\ StoreOK' /\ VersionsKept
           /\ \A p \in Videos : pins[p] # None => pins[p].id \in Store!Stored'
<1>1. \A p \in Videos : pins[p] # None => pins[p].id \in Store!Stored
  BY DEF LanguagesInv, PinsOK
<1> USE DEF LanguagesInv
<1>2. CASE UNCHANGED <<langs, shipped>>
  BY <1>1, <1>2, SameStore DEF StoredStay
<1>3. ASSUME NEW text \in Rules, Store!Restart(text)
      PROVE  StoreOK' /\ VersionsKept /\ StoredStay
  BY <1>3, RestartKeeps
<1>4. ASSUME NEW r \in PageRequests,
             Store!SetActive(r) \/ Store!CreateVisualLanguage(r) \/ Store!AddVersion(r)
      PROVE  StoreOK' /\ VersionsKept /\ StoredStay
  BY <1>4, ActivateKeeps, CopyKeeps, EditKeeps
<1>5. \/ UNCHANGED <<langs, shipped>>
      \/ \E text \in Rules : Store!Restart(text)
      \/ \E r \in PageRequests :
            \/ Store!SetActive(r) \/ Store!CreateVisualLanguage(r) \/ Store!AddVersion(r)
            \/ Store!DeleteVisualLanguage(r)
  BY DEF Store!Next, Store!vars, Store!DeleteAuthoring, Store!handleActivate, Store!handleCopy,
     Store!handleDelete, Store!handleUpdate, Store!SaveRow, Store!Asks, Store!ClearActive,
     Store!InsertRow
<1> QED  BY <1>1, <1>2, <1>3, <1>4, <1>5, GoneKeeps DEF StoredStay

\* A pin that was read stays one that may be written.
LEMMA ReadPinStays ==
    ASSUME StoreOK, StoreOK', VersionsKept, NEW pin, ReadPinOK(pin)
    PROVE  ReadPinOK(pin)'
<1>1. pin \in Store!Pin /\ pin.id \in Languages /\ langs[pin.id] # None /\ langs'[pin.id] # None
  BY DEF ReadPinOK, VersionsKept
<1>2. ASSUME pin.id \in Store!Stored' PROVE pin.version \in 1..Len(langs'[pin.id].rules)
  <2>1. langs'[pin.id] # Gone
    BY <1>2 DEF Store!Stored, Store!There
  <2>2. pin.id \in Store!Stored
    BY <1>1, <2>1 DEF VersionsKept, Store!Stored, Store!There
  <2>3. pin.version \in 1..Len(langs[pin.id].rules) /\ Len(langs[pin.id].rules) \in Nat
    BY <2>2, StoredShape DEF ReadPinOK
  <2>4. Len(langs'[pin.id].rules) \in 1..MaxVersions
    BY <1>2 DEF StoreOK
  <2>5. Len(langs[pin.id].rules) <= Len(langs'[pin.id].rules)
    BY <1>1, <2>1 DEF VersionsKept
  <2> QED  BY <2>3, <2>4, <2>5
<1> QED  BY <1>1, <1>2 DEF ReadPinOK, Store!Pin

\* The trigger reads the newest version of the one active language.
LEMMA TriggerReads ==
    ASSUME StoreOK PROVE ReadPinOK(Store!TriggerPin)
<1>1. PICK l \in Languages : Store!Active = {l}
  BY DEF StoreOK, Store!ExactlyOneActive
<1> DEFINE id == CHOOSE x \in Store!Active : TRUE
<1>2. id = l /\ Store!Active # {}
  BY <1>1
<1>3. Store!TriggerPin = [id |-> l, version |-> Len(langs[l].rules)]
  BY <1>2 DEF Store!TriggerPin
<1>4. l \in Store!Stored
  BY <1>1 DEF Store!Active
<1>5. Len(langs[l].rules) \in 1..MaxVersions /\ langs[l] # None /\ MaxVersions \in Nat
  BY <1>4, StoredShape, LanguagesAssumption DEF StoreOK, Store!BoundsAssumption
<1>6. Store!TriggerPin \in Store!Pin
  BY <1>3, <1>5 DEF Store!Pin
<1> QED  BY <1>3, <1>5, <1>6 DEF ReadPinOK

\* A request that begins carries what it may.
LEMMA AskedOK ==
    ASSUME LanguagesInv, StoreOK', NEW r \in PageRequests, NEW new \in Store!Call,
           new.op = "update" => new.id # Phatsang,
           new.op = "insert" => ReadPinOK(new.pin),
           VersionsKept,
           languageCalls' = [languageCalls EXCEPT ![r] = new]
    PROVE  RequestsOK'
<1>1. languageCalls' \in [PageRequests -> Store!Call \cup {None}]
  BY DEF LanguagesInv, RequestsOK
<1>2. ASSUME NEW q \in PageRequests, languageCalls'[q] # None
      PROVE  /\ languageCalls'[q].op = "update" => languageCalls'[q].id # Phatsang
             /\ \A pin : languageCalls'[q].op = "insert" /\ pin = languageCalls'[q].pin
                           => ReadPinOK(pin)'
  <2>1. languageCalls'[q] = new \/ languageCalls'[q] = languageCalls[q]
    BY DEF LanguagesInv, RequestsOK
  <2>2. /\ languageCalls'[q].op = "update" => languageCalls'[q].id # Phatsang
        /\ languageCalls'[q].op = "insert" => ReadPinOK(languageCalls'[q].pin)
    BY <1>2, <2>1 DEF LanguagesInv, RequestsOK
  <2>3. LanguagesInv => StoreOK
    BY DEF LanguagesInv
  <2> QED  BY <2>2, <2>3, ReadPinStays
<1> QED  BY <1>1, <1>2 DEF RequestsOK, ReadPinOK, Store!Call, Store!Pin, Store!Stored, Store!There

LEMMA RequestsStep ==
    ASSUME LanguagesInv, [Store!Next]_(Store!vars)
    PROVE  RequestsOK'
<1>1. StoreOK /\ StoreOK' /\ VersionsKept /\ RequestsOK
  BY StoreStep DEF LanguagesInv
<1>2. CASE /\ languageCalls' \in [PageRequests -> Store!Call \cup {None}]
           /\ \A r \in PageRequests : languageCalls'[r] \in {languageCalls[r], None}
  <2>1. ASSUME NEW q \in PageRequests, languageCalls'[q] # None
        PROVE  /\ languageCalls'[q].op = "update" => languageCalls'[q].id # Phatsang
               /\ \A pin : languageCalls'[q].op = "insert" /\ pin = languageCalls'[q].pin
                             => ReadPinOK(pin)'
    <3>1. languageCalls'[q] = languageCalls[q]
      BY <1>2, <2>1
    <3> QED  BY <1>1, <2>1, <3>1, ReadPinStays DEF RequestsOK
  <2> QED
    BY <1>2, <2>1 DEF RequestsOK, ReadPinOK, Store!Call, Store!Pin, Store!Stored, Store!There
<1>3. ASSUME NEW r \in PageRequests, NEW id \in Languages, Store!handleActivate(r, id)
      PROVE  RequestsOK'
  <2> DEFINE new == [id |-> id, op |-> "activate"]
  <2>1. languageCalls' = [languageCalls EXCEPT ![r] = new]
    BY <1>3 DEF Store!handleActivate, Store!Asks
  <2>2. new \in Store!Call /\ new.op = "activate"
    BY DEF Store!Call
  <2> HIDE DEF new
  <2> QED  BY <1>1, <2>1, <2>2, AskedOK
<1>4. ASSUME NEW r \in PageRequests, NEW id \in Languages, Store!handleCopy(r, id)
      PROVE  RequestsOK'
  <2> DEFINE new == [id |-> id, op |-> "copy", new |-> Store!Newest(id)]
  <2>1. languageCalls' = [languageCalls EXCEPT ![r] = new] /\ id \in Store!Stored
    BY <1>4 DEF Store!handleCopy, Store!Asks
  <2>2. Len(langs[id].rules) \in 1..MaxVersions /\ langs[id].rules \in Seq(Rules)
    BY <1>1, <2>1, StoredShape DEF StoreOK
  <2>3. Store!Newest(id) \in Rules
    BY <2>2 DEF Store!Newest, Store!Last
  <2>4. new \in Store!Call /\ new.op = "copy"
    BY <2>3 DEF Store!Call
  <2> HIDE DEF new
  <2> QED  BY <1>1, <2>1, <2>4, AskedOK
<1>5. ASSUME NEW r \in PageRequests, NEW id \in Languages, Store!handleDelete(r, id)
      PROVE  RequestsOK'
  <2> DEFINE new == [id |-> id, op |-> "delete"]
  <2>1. languageCalls' = [languageCalls EXCEPT ![r] = new]
    BY <1>5 DEF Store!handleDelete, Store!Asks
  <2>2. new \in Store!Call /\ new.op = "delete"
    BY DEF Store!Call
  <2> HIDE DEF new
  <2> QED  BY <1>1, <2>1, <2>2, AskedOK
<1>6. ASSUME NEW r \in PageRequests, NEW id \in Languages, NEW text \in Rules,
             Store!handleUpdate(r, id, text)
      PROVE  RequestsOK'
  <2> DEFINE new == [id |-> id, op |-> "update", new |-> text]
  <2>1. languageCalls' = [languageCalls EXCEPT ![r] = new]
    BY <1>6 DEF Store!handleUpdate, Store!Asks
  <2>2. id # Phatsang
    BY <1>1, <1>6 DEF Store!handleUpdate, Store!Editable, StoreOK
  <2>3. new \in Store!Call /\ new.op = "update" /\ new.id # Phatsang
    BY <2>2 DEF Store!Call
  <2> HIDE DEF new
  <2> QED  BY <1>1, <2>1, <2>3, AskedOK
<1>7. ASSUME NEW r \in PageRequests, NEW p \in Videos, Store!SaveRow(r, p)
      PROVE  RequestsOK'
  <2> DEFINE new == [op |-> "insert", project |-> p, pin |-> Store!TriggerPin]
  <2>1. languageCalls' = [languageCalls EXCEPT ![r] = new]
    BY <1>7 DEF Store!SaveRow, Store!Asks
  <2>2. ReadPinOK(Store!TriggerPin)
    BY <1>1, TriggerReads
  <2>3. new \in Store!Call /\ new.op = "insert" /\ ReadPinOK(new.pin)
    BY <2>2 DEF Store!Call, ReadPinOK
  <2> HIDE DEF new
  <2> QED  BY <1>1, <2>1, <2>3, AskedOK
<1>8. ASSUME NEW r \in PageRequests, Store!ClearActive(r)
      PROVE  RequestsOK'
  <2> DEFINE new == [id |-> languageCalls[r].id, op |-> "activating",
                     clear |-> Store!Active \ {languageCalls[r].id}]
  <2>1. /\ languageCalls' = [languageCalls EXCEPT ![r] = new]
        /\ languageCalls[r] \in Store!Call /\ languageCalls[r].op = "activate"
    BY <1>1, <1>8 DEF Store!ClearActive, Store!Doing, RequestsOK
  <2>2. languageCalls[r].id \in Languages /\ Store!Active \subseteq Languages
    BY <2>1 DEF Store!Call, Store!Active, Store!Stored, Store!There
  <2>3. new \in Store!Call /\ new.op = "activating"
    BY <2>2 DEF Store!Call
  <2> HIDE DEF new
  <2> QED  BY <1>1, <2>1, <2>3, AskedOK
<1>9. CASE \/ \E r \in PageRequests :
                 \/ Store!SetActive(r) \/ Store!CreateVisualLanguage(r) \/ Store!AddVersion(r)
                 \/ Store!DeleteVisualLanguage(r) \/ Store!InsertRow(r)
           \/ \E text \in Rules : Store!Restart(text)
           \/ \E p \in Videos : Store!DeleteAuthoring(p)
           \/ UNCHANGED Store!vars
  <2>1. \/ languageCalls' = languageCalls
        \/ languageCalls' = [r \in PageRequests |-> None]
        \/ \E r \in PageRequests : languageCalls' = [languageCalls EXCEPT ![r] = None]
    BY <1>9 DEF Store!SetActive, Store!CreateVisualLanguage, Store!AddVersion,
       Store!DeleteVisualLanguage, Store!InsertRow, Store!Restart, Store!DeleteAuthoring,
       Store!vars, Store!Ends
  <2>2. languageCalls \in [PageRequests -> Store!Call \cup {None}]
    BY <1>1 DEF RequestsOK
  <2> QED  BY <1>2, <2>1, <2>2
<1> QED
  BY <1>3, <1>4, <1>5, <1>6, <1>7, <1>8, <1>9 DEF Store!Next

\* The rows keep pins that are stored; a row that stays keeps its own.
LEMMA PinsStep ==
    ASSUME LanguagesInv, [Store!Next]_(Store!vars)
    PROVE  /\ PinsOK'
           /\ \A p \in Videos : pins[p] # None /\ pins'[p] # None => pins'[p] = pins[p]
<1>1. StoreOK /\ StoreOK' /\ VersionsKept /\ RequestsOK /\ PinsOK
  BY StoreStep DEF LanguagesInv
<1>2. ASSUME NEW pin, \E p \in Videos : pins[p] # None /\ pins[p] = pin
      PROVE  pin.id \in Store!Stored' /\ pin.version \in 1..Len(langs'[pin.id].rules)
  <2>1. pin.id \in Store!Stored'
    BY <1>2, StoreStep
  <2>2. ReadPinOK(pin)
    BY <1>1, <1>2, StoredShape DEF PinsOK, ReadPinOK
  <2>3. ReadPinOK(pin)'
    BY <1>1, <2>2, ReadPinStays
  <2> QED  BY <2>1, <2>3 DEF ReadPinOK
<1>3. CASE pins' = pins
  BY <1>1, <1>2, <1>3 DEF PinsOK, Store!Pin
<1>4. ASSUME NEW p \in Videos, Store!DeleteAuthoring(p)
      PROVE  /\ PinsOK'
             /\ \A q \in Videos : pins[q] # None /\ pins'[q] # None => pins'[q] = pins[q]
  <2>1. /\ pins' \in [Videos -> Store!Pin \cup {None}]
        /\ \A q \in Videos : pins'[q] \in {pins[q], None}
    BY <1>1, <1>4 DEF Store!DeleteAuthoring, PinsOK
  <2> QED  BY <1>2, <2>1 DEF PinsOK, Store!Pin
<1>5. ASSUME NEW r \in PageRequests, Store!InsertRow(r)
      PROVE  /\ PinsOK'
             /\ \A q \in Videos : pins[q] # None /\ pins'[q] # None => pins'[q] = pins[q]
  <2> DEFINE p == languageCalls[r].project
             pin == languageCalls[r].pin
  <2>1. /\ languageCalls[r] \in Store!Call /\ languageCalls[r].op = "insert" /\ ReadPinOK(pin)
        /\ pins' = Store!Inserted(p, pin) /\ UNCHANGED langs
    BY <1>1, <1>5 DEF Store!InsertRow, Store!Doing, RequestsOK
  <2>2. p \in Videos
    BY <2>1 DEF Store!Call
  <2>3. CASE pins' = pins
    BY <1>3, <2>3
  <2>4. CASE pins' # pins
    <3>1. /\ pins[p] = None /\ Store!ForeignKey(pin) /\ pins' = [pins EXCEPT ![p] = pin]
      BY <2>1, <2>4 DEF Store!Inserted
    <3>2. pin \in Store!Pin /\ pin.id \in Languages /\ pin.id # None
      BY <2>1, LanguagesAssumption DEF ReadPinOK, Store!NoneAssumption
    <3>3. pin.id \in Store!Stored /\ pin.version \in 1..Len(langs[pin.id].rules)
      BY <2>1, <3>1, <3>2 DEF ReadPinOK, Store!ForeignKey
    <3>4. /\ pins' \in [Videos -> Store!Pin \cup {None}]
          /\ \A q \in Videos : pins'[q] = IF q = p THEN pin ELSE pins[q]
      BY <1>1, <2>2, <3>1, <3>2 DEF PinsOK
    <3>5. Store!Stored' = Store!Stored
      BY <2>1 DEF Store!Stored, Store!There
    <3> HIDE DEF p, pin
    <3>6. PinsOK'
      BY <1>1, <2>1, <3>3, <3>4, <3>5 DEF PinsOK, Store!Pin
    <3> QED  BY <3>1, <3>4, <3>6
  <2> QED  BY <2>3, <2>4
<1>6. \/ pins' = pins
      \/ \E p \in Videos : Store!DeleteAuthoring(p)
      \/ \E r \in PageRequests : Store!InsertRow(r)
  BY DEF Store!Next, Store!vars, Store!handleActivate, Store!handleCopy, Store!handleDelete,
     Store!handleUpdate, Store!SaveRow, Store!Asks, Store!ClearActive, Store!SetActive,
     Store!CreateVisualLanguage, Store!AddVersion, Store!DeleteVisualLanguage, Store!Restart
<1> QED  BY <1>3, <1>4, <1>5, <1>6

-----------------------------------------------------------------------------
\* However activations, edits, copies, deletions and restarts overlap, exactly one
\* language is active, what a project pinned is stored, the shipped language is the
\* one of this build, and a project's pin and the rule texts it stands for never change
\* while its row is there (SeedVisualLanguages, handleActivate, the trigger's pin).
THEOREM LanguagesStandAlways == Store!Spec => LanguagesStand
<1>1. Store!Init => LanguagesInv
  BY LanguagesInit
<1>2. LanguagesInv /\ [Store!Next]_(Store!vars) => LanguagesInv'
  BY StoreStep, RequestsStep, PinsStep DEF LanguagesInv
<1>3. LanguagesInv
        => Store!ExactlyOneActive /\ Store!PinnedIsStored /\ Store!ShippedIsNewest
  <2> SUFFICES ASSUME LanguagesInv
               PROVE  Store!ExactlyOneActive /\ Store!PinnedIsStored /\ Store!ShippedIsNewest
    OBVIOUS
  <2>1. StoreOK /\ PinsOK
    BY DEF LanguagesInv
  <2>2. \A id \in Store!Stored : DOMAIN langs[id].rules = 1..Len(langs[id].rules)
    BY <2>1, StoredShape
  <2> QED  BY <2>1, <2>2 DEF StoreOK, PinsOK, Store!PinnedIsStored
<1>4. LanguagesInv /\ [Store!Next]_(Store!vars)
        => [\A p \in Videos : pins[p] # None /\ pins'[p] # None =>
               pins'[p] = pins[p] /\ Store!PinnedRules(p)' = Store!PinnedRules(p)]_(Store!vars)
  <2> SUFFICES ASSUME LanguagesInv, Store!Next,
                      NEW p \in Videos, pins[p] # None, pins'[p] # None
               PROVE  pins'[p] = pins[p] /\ Store!PinnedRules(p)' = Store!PinnedRules(p)
    OBVIOUS
  <2>1. pins'[p] = pins[p] /\ PinsOK' /\ VersionsKept
    BY StoreStep, PinsStep
  <2>2. PICK pin : pin = pins[p]
    OBVIOUS
  <2>3. /\ pin.id \in Store!Stored /\ pin.version \in 1..Len(langs[pin.id].rules)
        /\ pin.id \in Store!Stored'
    BY <2>1, <2>2 DEF LanguagesInv, PinsOK
  <2>4. pin.id \in Languages /\ langs[pin.id] # None /\ langs'[pin.id] # Gone
    BY <2>3 DEF Store!Stored, Store!There
  <2>5. langs'[pin.id].rules[pin.version] = langs[pin.id].rules[pin.version]
    BY <2>1, <2>3, <2>4 DEF VersionsKept
  <2> QED  BY <2>1, <2>2, <2>5 DEF Store!PinnedRules
<1> QED
  BY <1>1, <1>2, <1>3, <1>4, PTL DEF Store!Spec, LanguagesStand, Store!LanguagesStand, Store!PinsStay

-----------------------------------------------------------------------------
(* The three side by side.                                                 *)

\* Each part does in the joint run only what it does alone.
THEOREM SideBySide == OneOfSpec => Spec /\ Store!Spec /\ Stills!Spec
<1>1. OneOfInit => Init /\ Store!Init /\ Stills!Init
  BY DEF OneOfInit
<1>2. [OneOfNext]_<<part, libraryVars, languageVars, sampleVars>>
         => [Next]_vars /\ [Store!Next]_(Store!vars) /\ [Stills!Next]_(Stills!vars)
  BY DEF OneOfNext, libraryVars, languageVars, sampleVars, vars, Store!vars, Stills!vars
<1> QED  BY <1>1, <1>2, PTL DEF OneOfSpec, Spec, Store!Spec, Stills!Spec
=============================================================================
