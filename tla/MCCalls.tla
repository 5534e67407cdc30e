------------------------------- MODULE MCCalls -------------------------------
(***************************************************************************)
(* Work that outlives a request, side by side for TLC: lines being read    *)
(* aloud (DraftVoice) and the long calls of the model with the pages that  *)
(* follow them (Operations).  Each behaviour is a behaviour of one of      *)
(* them, the part it begins with; the other stays as it began.             *)
(***************************************************************************)
EXTENDS DraftVoice, TLC

CONSTANTS CallIds, Pages, MaxRestarts, MaxVisits, Hasty, Sleepy, None

VARIABLES part, ops, calls, droppedCalls, posts, stopped, stored, pages, visits, restarts

voiceVars == vars
callVars == <<ops, calls, droppedCalls, posts, stopped, stored, pages, visits, restarts>>

LongCalls == INSTANCE Operations WITH Ids <- CallIds, dropped <- droppedCalls

ASSUME CallsAssumption == LongCalls!BoundsAssumption /\ LongCalls!NoneAssumption

OneOfInit ==
    /\ part \in {"voice", "calls"}
    /\ Init /\ LongCalls!Init

OneOfNext ==
    \/ part = "voice" /\ Next /\ UNCHANGED <<part, callVars>>
    \/ part = "calls" /\ LongCalls!Next /\ UNCHANGED <<part, voiceVars>>

OneOfSpec == OneOfInit /\ [][OneOfNext]_<<part, voiceVars, callVars>>

\* Which calls and which pages is all the same.
Alike == Permutations(CallIds) \cup Permutations(Pages)

-----------------------------------------------------------------------------
\* What Operations must keep: see its definition there.
OperationsTellTruth == LongCalls!OperationsTellTruth
=============================================================================
