------------------------------- MODULE MCDesks -------------------------------
(***************************************************************************)
(* The desks a script grows from, side by side: the table of facts and its *)
(* questions (ResearchDesk), and the idea, the brief and the story         *)
(* (StoryDesk), each with the number of requests it takes.  The run of the *)
(* story has a specification here in which the facts stay as they began.   *)
(***************************************************************************)
EXTENDS ResearchDesk

CONSTANTS
    Subjects, IdeaFields, BriefFields, StoryFields, Arc, Facts, Wordings, Unfit, NoInput,
    MaxWritings, MaxChanges                                          \* StoryDesk

VARIABLES subject, kept, resolved, row, review, writing, writings, changes, checked

researchVars == vars
storyVars == <<subject, kept, resolved, row, review, writing, writings, changes, checked>>

Stories == INSTANCE StoryDesk WITH
    MaxRequests <- MaxWritings, call <- writing, requests <- writings

ASSUME StoriesAssumption == Stories!FieldsAssumption /\ Stories!BoundsAssumption

BothInit == Init /\ Stories!Init

StoriesNext == Stories!Next /\ UNCHANGED researchVars

StoriesSpec == BothInit /\ [][StoriesNext]_<<researchVars, storyVars>>

-----------------------------------------------------------------------------
\* What the story must keep: see the definitions in its module.
FreshIsOfInput == Stories!FreshIsOfInput
ApprovedWasApproved == Stories!ApprovedWasApproved
FreshStoryCitesKept == Stories!FreshStoryCitesKept
=============================================================================
