------------------------------ MODULE MCPictures ------------------------------
(***************************************************************************)
(* What a channel's pictures look like, side by side for TLC: the drawings *)
(* of the library (Illustrations), the visual languages and their pins     *)
(* (VisualLanguages) and the samples of the languages (LanguageSamples).   *)
(* Each behaviour is a behaviour of one of them, the part it begins with;  *)
(* the others stay as they began.                                          *)
(***************************************************************************)
EXTENDS Illustrations

CONSTANTS Languages, Phatsang, Rules, Videos, PageRequests, MaxVersions, None, Gone,
          Order, LanguagePages, Keeper, MaxKit, PageWhilePruning

VARIABLES part, langs, shipped, pins, languageCalls,
          kit, stills, samples, rebuilds, keeper

libraryVars == vars
languageVars == <<langs, shipped, pins, languageCalls>>
sampleVars == <<kit, stills, samples, rebuilds, keeper>>

\* The samples, in the order the code renders them.
FigThenSpace == <<"fig", "space">>

Store == INSTANCE VisualLanguages WITH
    Projects <- Videos, Requests <- PageRequests, calls <- languageCalls

Stills == INSTANCE LanguageSamples WITH Pages <- LanguagePages

ASSUME LanguagesAssumption ==
    Store!PhatsangAssumption /\ Store!BoundsAssumption /\ Store!NoneAssumption
ASSUME SamplesAssumption ==
    /\ Stills!OrderAssumption /\ Stills!KeeperAssumption
    /\ Stills!BoundsAssumption /\ Stills!NoneAssumption

\* A part that stays as it began begins in one way only.
BeginsPlain ==
    /\ part # "library" => Cardinality(DOMAIN lib) = 1
    /\ part # "languages" => shipped = CHOOSE r \in Rules : TRUE

OneOfInit ==
    /\ part \in {"library", "languages", "samples"}
    /\ Init /\ Store!Init /\ Stills!Init
    /\ BeginsPlain

OneOfNext ==
    \/ part = "library" /\ Next /\ UNCHANGED <<part, languageVars, sampleVars>>
    \/ part = "languages" /\ Store!Next /\ UNCHANGED <<part, libraryVars, sampleVars>>
    \/ part = "samples" /\ Stills!Next /\ UNCHANGED <<part, libraryVars, languageVars>>

OneOfSpec == OneOfInit /\ [][OneOfNext]_<<part, libraryVars, languageVars, sampleVars>>

-----------------------------------------------------------------------------
\* What the parts must keep: see the definition of each in its module.
LanguagesStand == Store!LanguagesStand
SamplesStand == Stills!SamplesStand
=============================================================================
