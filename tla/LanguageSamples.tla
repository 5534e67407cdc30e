-------------------------- MODULE LanguageSamples --------------------------
(***************************************************************************)
(* The sample scenes of the visual languages: authoring-service records    *)
(* which still shows each sample and by which version of the kit, the      *)
(* rendering service draws the stills into a shared directory, one file    *)
(* per sample and kit version, and deletes on request those that are       *)
(* neither named to be kept nor young.                                     *)
(*                                                                         *)
(* Two actors rebuild: a request of the language page, and the keeper, a   *)
(* loop of the service that makes sure of the samples at every start and   *)
(* then prunes the stills once a day.  Rendering may be redeployed with a  *)
(* newer kit between any two calls, any call may fail, and a restart of    *)
(* authoring loses what was under way.                                     *)
(***************************************************************************)
EXTENDS Naturals, FiniteSets, Sequences, Functions

CONSTANTS Order,      \* the samples in the order they are rendered
          Pages,      \* requests of the language page
          Keeper,     \* the loop of the service
          MaxKit,     \* bound: versions of the kit
          PageWhilePruning,  \* whether a page may rebuild while stills are pruned
          None

OrderAssumption == Order \in Seq(Range(Order)) /\ Order # <<>>
KeeperAssumption == Keeper \notin Pages
BoundsAssumption == MaxKit \in Nat \ {0} /\ PageWhilePruning \in BOOLEAN

VARIABLES kit,      \* the version of the kit rendering runs with
          stills,   \* age of each file of the shared directory, or None
          samples,  \* visual_language_samples: what the page shows
          rebuilds, \* the rebuild each actor has under way, or None
          keeper    \* where the keeper's loop is, and its keep list

vars == <<kit, stills, samples, rebuilds, keeper>>

Samples == Range(Order)
Kits == 1..MaxKit
Files == Samples \X Kits         \* a file's name hashes the sample and the kit
Actors == Pages \cup {Keeper}

Sample == [version : Kits, file : Files]
Rebuild == [version : Kits, file : Files \cup {None}, next : 1..Len(Order)]
NoneAssumption == None \notin {"young", "old"} \cup Files \cup Sample \cup Rebuild
Loop == [at : {"ensure", "rebuild", "idle"}, keep : {{}}]
   \cup [at : {"prune"}, keep : SUBSET Files]

SamplesCurrent(version) ==
    \A s \in Samples : samples[s] # None /\ samples[s].version = version

Shown == {samples[s].file : s \in {x \in Samples : samples[x] # None}}

-----------------------------------------------------------------------------
(* RebuildSamples: the kit's version is asked once, then every sample is   *)
(* rendered and recorded, one by one, under that version.                  *)
StartRebuild(a) ==
    /\ rebuilds[a] = None
    /\ IF a = Keeper THEN keeper.at = "rebuild"
       ELSE PageWhilePruning \/ keeper.at # "prune"
    /\ rebuilds' = [rebuilds EXCEPT ![a] = [version |-> kit, file |-> None, next |-> 1]]
    /\ UNCHANGED <<kit, stills, samples, keeper>>

(* A file that is there is taken as it is, its age unchanged.              *)
Still(a) ==
    /\ rebuilds[a] # None
    /\ rebuilds[a].file = None
    /\ LET name == <<Order[rebuilds[a].next], kit>>
       IN  /\ stills' = IF stills[name] # None THEN stills ELSE [stills EXCEPT ![name] = "young"]
           /\ rebuilds' = [rebuilds EXCEPT ![a].file = name]
    /\ UNCHANGED <<kit, samples, keeper>>

Recorded(rebuild) == [version |-> rebuild.version, file |-> rebuild.file]

SaveLanguageSample(a) ==
    /\ rebuilds[a] # None
    /\ rebuilds[a].file # None
    /\ LET n == rebuilds[a].next
       IN  /\ samples' = [samples EXCEPT ![Order[n]] = Recorded(rebuilds[a])]
           /\ IF n < Len(Order)
              THEN /\ rebuilds' = [rebuilds EXCEPT ![a] =
                          [version |-> @.version, file |-> None, next |-> n + 1]]
                   /\ UNCHANGED keeper
              ELSE /\ rebuilds' = [rebuilds EXCEPT ![a] = None]
                   /\ keeper' = IF a = Keeper THEN [keeper EXCEPT !.at = "idle"] ELSE keeper
    /\ UNCHANGED <<kit, stills>>

(* A failed call ends the rebuild where it is; the keeper starts over.     *)
RebuildFails(a) ==
    /\ rebuilds[a] # None
    /\ rebuilds' = [rebuilds EXCEPT ![a] = None]
    /\ keeper' = IF a = Keeper THEN [keeper EXCEPT !.at = "ensure"] ELSE keeper
    /\ UNCHANGED <<kit, stills, samples>>

-----------------------------------------------------------------------------
(* keepLanguageSamples: EnsureSamples until it succeeds, then PruneStills. *)
EnsureSamples ==
    /\ keeper.at = "ensure"
    /\ keeper' = [keeper EXCEPT !.at = IF SamplesCurrent(kit) THEN "idle" ELSE "rebuild"]
    /\ UNCHANGED <<kit, stills, samples, rebuilds>>

(* Mutant: only the stills of the running kit are kept.                    *)
KeepListOfKit == {f \in Shown : f[2] = kit}

KeepList == Shown

PruneStills ==
    /\ keeper.at = "idle"
    /\ PageWhilePruning \/ \A a \in Pages : rebuilds[a] = None
    /\ keeper' = [at |-> "prune", keep |-> KeepList]
    /\ UNCHANGED <<kit, stills, samples, rebuilds>>

Prunable(file, keep) == file \notin keep /\ stills[file] = "old"

Prune ==
    /\ keeper.at = "prune"
    /\ stills' = [f \in Files |-> IF Prunable(f, keeper.keep) THEN None ELSE stills[f]]
    /\ keeper' = [at |-> "idle", keep |-> {}]
    /\ UNCHANGED <<kit, samples, rebuilds>>

PruneFails ==
    /\ keeper.at = "prune"
    /\ keeper' = [at |-> "idle", keep |-> {}]
    /\ UNCHANGED <<kit, stills, samples, rebuilds>>

-----------------------------------------------------------------------------
DeployRendering ==
    /\ kit < MaxKit
    /\ kit' = kit + 1
    /\ UNCHANGED <<stills, samples, rebuilds, keeper>>

RestartAuthoring ==
    /\ rebuilds' = [a \in Actors |-> None]
    /\ keeper' = [at |-> "ensure", keep |-> {}]
    /\ UNCHANGED <<kit, stills, samples>>

(* A day passes between requests, which end within minutes.                *)
DayPasses ==
    /\ \A a \in Actors : rebuilds[a] = None
    /\ keeper.at # "prune"
    /\ stills' = [f \in Files |-> IF stills[f] = None THEN None ELSE "old"]
    /\ UNCHANGED <<kit, samples, rebuilds, keeper>>

Init ==
    /\ kit = 1
    /\ stills = [f \in Files |-> None]
    /\ samples = [s \in Samples |-> None]
    /\ rebuilds = [a \in Actors |-> None]
    /\ keeper = [at |-> "ensure", keep |-> {}]

Next ==
    \/ \E a \in Actors :
         StartRebuild(a) \/ Still(a) \/ SaveLanguageSample(a) \/ RebuildFails(a)
    \/ EnsureSamples
    \/ PruneStills
    \/ Prune
    \/ PruneFails
    \/ DeployRendering
    \/ RestartAuthoring
    \/ DayPasses

Spec == Init /\ [][Next]_vars

-----------------------------------------------------------------------------
(* Files, records and the requests under way have the shape of the code's. *)
TypeOK ==
    /\ kit \in Kits
    /\ stills \in [Files -> {"young", "old", None}]
    /\ samples \in [Samples -> Sample \cup {None}]
    /\ rebuilds \in [Actors -> Rebuild \cup {None}]
    /\ keeper \in Loop

(* EnsureSamples believes the recorded version.  It never claims more than *)
(* the picture is: a sample recorded by the kit rendering runs with was    *)
(* drawn by that kit, however deployments fall between the calls.          *)
NeverClaimsNewer ==
    \A s \in Samples : samples[s] # None => samples[s].version <= samples[s].file[2]

(* A still the language page shows is never deleted, though rebuilds break *)
(* off half way, kits change and stills grow old.                          *)
ShownIsThere == \A f \in Shown : stills[f] # None

(* Once the keeper is at rest, every sample is recorded, also when a page  *)
(* and the keeper rebuilt at once or a rebuild broke off half way.         *)
AtRestAllRecorded ==
    keeper.at \in {"idle", "prune"} => \A s \in Samples : samples[s] # None

(* The page shows samples of the kit they are recorded under, all of them. *)
SamplesStand == NeverClaimsNewer /\ ShownIsThere /\ AtRestAllRecorded
=============================================================================
