-------------------------- MODULE VisualLanguages --------------------------
(***************************************************************************)
(* The visual languages of a channel (authoring-service): the store of     *)
(* rule texts, of which exactly one language is active, and the pin that   *)
(* holds a project to the version it was created with.                     *)
(*                                                                         *)
(* A request first reads the language it names and then writes in one      *)
(* transaction; other requests run between the two.  Activating takes two  *)
(* statements: the second sees what was committed since the first chose    *)
(* the rows to clear.  The pin is read by a trigger and checked by a       *)
(* foreign key at the end of the insert.  A restart of the service loses   *)
(* the requests under way and seeds the shipped language again.            *)
(*                                                                         *)
(* Left out: names, notes and descriptions (they are only shown; a name    *)
(* that is taken refuses the request), and the kit of a language (every    *)
(* language is drawn with the one kit that is shipped).                    *)
(***************************************************************************)
EXTENDS Naturals, Sequences, SequencesExt

CONSTANTS Languages,    \* ids a language may have
          Phatsang,     \* the id of the shipped language
          Rules,        \* rule texts
          Projects, Requests,
          MaxVersions,  \* bound: versions of one language
          None,         \* no row yet, no request
          Gone          \* a deleted language: its id is not given again

PhatsangAssumption == Phatsang \in Languages
BoundsAssumption == MaxVersions \in Nat \ {0}

VARIABLES langs,    \* visual_languages with the versions of each
          shipped,  \* the rule text this build of the service ships
          pins,     \* project_authoring: the pin of a project's row, or None
          calls     \* what each request under way has read, or None

vars == <<langs, shipped, pins, calls>>

Language == [system : BOOLEAN, active : BOOLEAN, rules : Seq(Rules)]
Pin == [id : Languages \cup {None}, version : 0..MaxVersions]
Call == [id : Languages, op : {"activate", "delete"}]
   \cup [id : Languages, op : {"activating"}, clear : SUBSET Languages]
   \cup [id : Languages, op : {"copy", "update"}, new : Rules]
   \cup [op : {"insert"}, project : Projects, pin : Pin]
NoneAssumption ==
    /\ None # Gone /\ {None, Gone} \cap (Languages \cup Rules) = {}
    /\ \A none \in {None, Gone} : none \notin Language \cup Pin \cup Call

There(ls) == {id \in Languages : ls[id] \notin {None, Gone}}
Stored == There(langs)
Newest(id) == Last(langs[id].rules)
Active == {id \in Stored : langs[id].active}

-----------------------------------------------------------------------------
(* SeedVisualLanguages, one transaction at every start of the service.     *)
Present(ls) ==
    IF ls[Phatsang] # None THEN ls
    ELSE [ls EXCEPT ![Phatsang] = [system |-> TRUE, active |-> FALSE, rules |-> <<>>]]

SameAsShipped(versions, text) == versions # <<>> /\ Last(versions) = text

WithShipped(ls, text) ==
    IF SameAsShipped(ls[Phatsang].rules, text) THEN ls
    ELSE [ls EXCEPT ![Phatsang].rules = Append(@, text)]

SeedVisualLanguages(ls, text) ==
    LET seeded == WithShipped(Present(ls), text)
    IN  IF \E id \in There(seeded) : seeded[id].active THEN seeded
        ELSE [seeded EXCEPT ![Phatsang].active = TRUE]

Restart(text) ==
    /\ \/ SameAsShipped(langs[Phatsang].rules, text)
       \/ Len(langs[Phatsang].rules) < MaxVersions
    /\ shipped' = text
    /\ langs' = SeedVisualLanguages(langs, text)
    /\ calls' = [r \in Requests |-> None]
    /\ UNCHANGED pins

-----------------------------------------------------------------------------
Asks(r, call) ==
    /\ calls[r] = None
    /\ calls' = [calls EXCEPT ![r] = call]
    /\ UNCHANGED <<langs, shipped, pins>>

Ends(r) == calls' = [calls EXCEPT ![r] = None]

Doing(r, op) == calls[r] # None /\ calls[r].op = op

(* Activate: the language is read, the active ones are chosen, and the     *)
(* commit fails when another one has become active meanwhile.              *)
handleActivate(r, id) == id \in Stored /\ Asks(r, [id |-> id, op |-> "activate"])

ClearActive(r) ==
    /\ Doing(r, "activate")
    /\ calls' = [calls EXCEPT ![r] = [id |-> calls[r].id, op |-> "activating",
                                      clear |-> Active \ {calls[r].id}]]
    /\ UNCHANGED <<langs, shipped, pins>>

OneActive(ls) ==
    \A i, j \in There(ls) : ls[i].active /\ ls[j].active => i = j

SetActive(r) ==
    /\ Doing(r, "activating")
    /\ LET call == calls[r]
           after == [id \in Languages |->
                      IF id \notin Stored THEN langs[id]
                      ELSE IF id = call.id THEN [langs[id] EXCEPT !.active = TRUE]
                      ELSE IF id \in call.clear THEN [langs[id] EXCEPT !.active = FALSE]
                      ELSE langs[id]]
       IN  langs' = IF call.id \in Stored /\ OneActive(after) THEN after ELSE langs
    /\ Ends(r)
    /\ UNCHANGED <<shipped, pins>>

(* Copy: the rules of any language become version 1 of a new one.          *)
handleCopy(r, id) ==
    id \in Stored /\ Asks(r, [id |-> id, op |-> "copy", new |-> Newest(id)])

CreateVisualLanguage(r) ==
    /\ Doing(r, "copy")
    /\ \E id \in Languages :
          /\ langs[id] = None
          /\ langs' = [langs EXCEPT ![id] =
                      [system |-> FALSE, active |-> FALSE, rules |-> <<calls[r].new>>]]
    /\ Ends(r)
    /\ UNCHANGED <<shipped, pins>>

(* Update: only a language of the Creator, always as the next version.     *)
Editable(id) == id \in Stored /\ ~langs[id].system

handleUpdate(r, id, text) ==
    Editable(id) /\ Asks(r, [id |-> id, op |-> "update", new |-> text])

Edited(versions, text) == Append(versions, text)

AddVersion(r) ==
    /\ Doing(r, "update")
    /\ LET call == calls[r]
       IN  IF call.id \in Stored
           THEN /\ Len(langs[call.id].rules) < MaxVersions
                /\ langs' = [langs EXCEPT ![call.id].rules = Edited(@, call.new)]
           ELSE UNCHANGED langs
    /\ Ends(r)
    /\ UNCHANGED <<shipped, pins>>

(* Delete: refused while the language is active or a project pinned it.    *)
handleDelete(r, id) == Editable(id) /\ Asks(r, [id |-> id, op |-> "delete"])

Pinned(id) == \E p \in Projects : pins[p] # None /\ pins[p].id = id
MayDelete(id) == Editable(id) /\ ~langs[id].active /\ ~Pinned(id)

DeleteVisualLanguage(r) ==
    /\ Doing(r, "delete")
    /\ LET id == calls[r].id
       IN  langs' = IF MayDelete(id) THEN [langs EXCEPT ![id] = Gone] ELSE langs
    /\ Ends(r)
    /\ UNCHANGED <<shipped, pins>>

-----------------------------------------------------------------------------
(* A save of a project's authoring row: the trigger reads the active       *)
(* language; a row that is there keeps its pin (ON CONFLICT DO UPDATE of   *)
(* other columns), a new one is refused when the language it names is gone *)
TriggerPin ==
    IF Active = {} THEN [id |-> None, version |-> 0]
    ELSE LET id == CHOOSE l \in Active : TRUE
         IN  [id |-> id, version |-> Len(langs[id].rules)]

SaveRow(r, p) == Asks(r, [op |-> "insert", project |-> p, pin |-> TriggerPin])

ForeignKey(pin) == pin.id = None \/ pin.id \in Stored

(* Mutant: a save of the row writes the pin the trigger has just read.     *)
InsertedRepins(p, pin) == IF ForeignKey(pin) THEN [pins EXCEPT ![p] = pin] ELSE pins

Inserted(p, pin) ==
    IF pins[p] # None THEN pins
    ELSE IF ForeignKey(pin) THEN [pins EXCEPT ![p] = pin]
    ELSE pins

InsertRow(r) ==
    /\ Doing(r, "insert")
    /\ pins' = Inserted(calls[r].project, calls[r].pin)
    /\ Ends(r)
    /\ UNCHANGED <<langs, shipped>>

DeleteAuthoring(p) ==
    /\ pins[p] # None
    /\ pins' = [pins EXCEPT ![p] = None]
    /\ UNCHANGED <<langs, shipped, calls>>

-----------------------------------------------------------------------------
Init ==
    /\ shipped \in Rules
    /\ langs = SeedVisualLanguages([id \in Languages |-> None], shipped)
    /\ pins = [p \in Projects |-> None]
    /\ calls = [r \in Requests |-> None]

Next ==
    \/ \E text \in Rules : Restart(text)
    \/ \E p \in Projects : DeleteAuthoring(p)
    \/ \E r \in Requests :
         \/ \E id \in Languages :
              \/ handleActivate(r, id)
              \/ handleCopy(r, id)
              \/ handleDelete(r, id)
              \/ \E text \in Rules : handleUpdate(r, id, text)
         \/ \E p \in Projects : SaveRow(r, p)
         \/ ClearActive(r)
         \/ SetActive(r)
         \/ CreateVisualLanguage(r)
         \/ AddVersion(r)
         \/ DeleteVisualLanguage(r)
         \/ InsertRow(r)

Spec == Init /\ [][Next]_vars

-----------------------------------------------------------------------------
(* Every row and every request under way has the shape of its table.       *)
TypeOK ==
    /\ langs \in [Languages -> Language \cup {None, Gone}]
    /\ shipped \in Rules
    /\ pins \in [Projects -> Pin \cup {None}]
    /\ calls \in [Requests -> Call \cup {None}]

(* However activations, deletions and restarts overlap, exactly one        *)
(* language is active: no project is ever created without a pin.           *)
ExactlyOneActive == \E id \in Languages : Active = {id}

(* A pinned project can always read its language: the version it pinned is *)
(* in the store, though the language was put aside and asked to be deleted *)
(* while the row was being written.                                        *)
PinnedIsStored ==
    \A p \in Projects : pins[p] # None =>
        /\ pins[p].id \in Stored
        /\ pins[p].version \in DOMAIN langs[pins[p].id].rules

PinnedRules(p) == langs[pins[p].id].rules[pins[p].version]

(* What a project is drawn by never changes under it: while its row stands *)
(* so do the version it pinned and that version's rule texts, whatever is  *)
(* edited, activated, seeded or saved.                                     *)
PinsStay ==
    [][\A p \in Projects : pins[p] # None /\ pins'[p] # None =>
          pins'[p] = pins[p] /\ PinnedRules(p)' = PinnedRules(p)]_vars

(* The shipped language, as a new project would pin it, carries the texts  *)
(* of the build that runs, also after a build went back to older texts.    *)
ShippedIsNewest == Newest(Phatsang) = shipped

(* Projects can rely on the languages: one is active, and a pin stands.    *)
LanguagesStand ==
    /\ [](ExactlyOneActive /\ PinnedIsStored /\ ShippedIsNewest)
    /\ PinsStay
=============================================================================
