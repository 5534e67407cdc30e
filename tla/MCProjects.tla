------------------------------ MODULE MCProjects ------------------------------
(***************************************************************************)
(* What is kept of projects, side by side for TLC: the settings of one     *)
(* (ProjectSettings), the rows of several (ProjectRows), the sheet of      *)
(* beats (BeatSheet) and the dialogue of the beats (ScriptDesk) of one.    *)
(* Each behaviour is a behaviour of one of them, the part it begins with;  *)
(* the others stay as they began.                                          *)
(***************************************************************************)
EXTENDS ProjectSettings, TLC

CONSTANTS ProjectIds, Topics, Collected, DefaultChoice, ShortChoice, MaxVersionsOfStory,
          MaxRequests, Overlaps, Breaks,
          Threads, ChainSteps, TargetSeconds, ReplySeconds, EditSeconds, MaxBeats,
          MaxStories, MaxSheetRequests,
          Beats, MaxLines, MaxVersions, MaxChanges, MaxScriptRequests

VARIABLES part, rows, authored, draftCall, requests, chosen, linked,
          story, sheetEditable, sheet, sheetJob, sheetRequests,
          beat, scriptEditable, script, scriptJob, changes, scriptRequests

settingVars == vars
rowVars == <<rows, authored, draftCall, requests, chosen, linked>>
sheetVars == <<story, sheetEditable, sheet, sheetJob, sheetRequests>>
scriptVars == <<beat, scriptEditable, script, scriptJob, changes, scriptRequests>>

Records == INSTANCE ProjectRows WITH
    Ids <- ProjectIds, MaxStories <- MaxVersionsOfStory, call <- draftCall

Sheets == INSTANCE BeatSheet WITH
    MaxRequests <- MaxSheetRequests,
    editable <- sheetEditable, job <- sheetJob, requests <- sheetRequests

Scripted == INSTANCE ScriptDesk WITH
    MaxRequests <- MaxScriptRequests,
    editable <- scriptEditable, job <- scriptJob, requests <- scriptRequests

ASSUME RecordsAssumption ==
    Records!BoundsAssumption /\ Records!NamesAssumption /\ Records!ShapesAssumption
ASSUME SheetsAssumption ==
    Sheets!ThreadsAssumption /\ Sheets!LengthsAssumption /\ Sheets!BoundsAssumption
ASSUME ScriptedAssumption == Scripted!SetsAssumption /\ Scripted!BoundsAssumption

\* The settings begin in one way only while another part runs.
BeginsPlain == part # "settings" => row.render = CHOOSE r \in Renders : TRUE

OneOfInit ==
    /\ part \in {"settings", "rows", "beats", "dialogue"}
    /\ Init /\ Records!Init /\ Sheets!Init /\ Scripted!Init
    /\ BeginsPlain

OneOfNext ==
    \/ part = "settings" /\ Next /\ UNCHANGED <<part, rowVars, sheetVars, scriptVars>>
    \/ part = "rows" /\ Records!Next /\ UNCHANGED <<part, settingVars, sheetVars, scriptVars>>
    \/ part = "beats" /\ Sheets!Next /\ UNCHANGED <<part, settingVars, rowVars, scriptVars>>
    \/ part = "dialogue" /\ Scripted!Next /\ UNCHANGED <<part, settingVars, rowVars, sheetVars>>

OneOfSpec ==
    OneOfInit /\ [][OneOfNext]_<<part, settingVars, rowVars, sheetVars, scriptVars>>

\* Which projects and which topics is all the same.
Alike == Permutations(ProjectIds) \cup Permutations(Topics)

-----------------------------------------------------------------------------
\* What the parts must keep: see the definition of each in its module.
RowsStand == Records!RowsStand
ContentRunFitsTarget == Sheets!ContentRunFitsTarget
RunsSpareTheCreators == Sheets!RunsSpareTheCreators
SparedDialogueStands == Scripted!SparedDialogueStands
StaleUntilRewritten == Scripted!StaleUntilRewritten
=============================================================================
