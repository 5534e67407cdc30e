----------------------------- MODULE Operations -----------------------------
(***************************************************************************)
(* Long calls of the model in authoring-service and the pages that follow  *)
(* them. The page picks an id, sends it with its request and polls the     *)
(* registry of running calls under it; a page opened later finds the call  *)
(* there and follows it as its own. The registry is kept in memory.        *)
(*                                                                         *)
(* One project and one kind of call; counters and texts are left out.      *)
(* "stored" stands for what the call made, in whichever table that is.     *)
(***************************************************************************)
EXTENDS Naturals, FiniteSets

CONSTANTS Ids,          \* ids the pages pick, each once
          Pages,        \* browser tabs that may show the project's step
          MaxRestarts,  \* bound: restarts of the service
          MaxVisits,    \* bound: how often a page is opened
          Hasty,        \* whether a Creator starts a call before a stop was answered
          Sleepy,       \* whether a page may not poll for ten minutes
          None

BoundsAssumption == {MaxRestarts, MaxVisits} \subseteq Nat /\ {Hasty, Sleepy} \subseteq BOOLEAN

VARIABLES ops,       \* the registry: the operation of an id, or None
          calls,     \* where the request of an id is
          dropped,   \* ids whose connection the page has dropped
          posts,     \* ids of cancel requests on their way
          stopped,   \* history: ids a cancel request was sent for, with nothing stored
          stored,    \* ids whose call has stored what it made
          pages,
          visits,    \* how often a page was opened
          restarts

vars == <<ops, calls, dropped, posts, stopped, stored, pages, visits, restarts>>

Ended == {"succeeded", "failed", "cancelled"}
Operation == [status : {"running"} \cup Ended, asked : BOOLEAN, before : SUBSET Ids, old : BOOLEAN]
NoneAssumption ==
    None \notin Ids \cup Operation /\ {"idle", "asked"} \cap (Ids \cup {None}) = {}
Places == {"unused", "sent", "working", "saved", "done", "failed", "gone"}

(* A page: the id it follows, the one of its own open request, whether it  *)
(* follows a call it found, the status it saw last, what it asked for, and *)
(* the results it shows.                                                   *)
Page == [open : BOOLEAN, id : Ids \cup {None}, own : Ids \cup {None}, resumed : BOOLEAN,
         seen : {"none", "running"} \cup Ended, list : Ids \cup {None, "idle", "asked"},
         stopping : Ids \cup {None}, shown : SUBSET Ids]

Away == [open |-> FALSE, id |-> None, own |-> None, resumed |-> FALSE, seen |-> "none",
         list |-> "idle", stopping |-> None, shown |-> {}]

Registered == {id \in Ids : ops[id] # None}
RunningIds == {id \in Registered : ops[id].status = "running"}

-----------------------------------------------------------------------------
(* The registry, each operation of it under one lock.                      *)
gcLocked == [id \in Ids |-> IF id \in Registered /\ ops[id].old THEN None ELSE ops[id]]

Start(id) ==
    [gcLocked EXCEPT ![id] = [status |-> "running", asked |-> FALSE,
                              before |-> RunningIds, old |-> FALSE]]

Cancel(id) == IF id \in RunningIds THEN [ops EXCEPT ![id].asked = TRUE] ELSE ops

EndOf(op, succeeded) ==
    CASE succeeded -> "succeeded"
      [] ~succeeded /\ op.asked -> "cancelled"
      [] OTHER -> "failed"

Finish(id, succeeded) ==
    IF id \in Registered THEN [ops EXCEPT ![id].status = EndOf(ops[id], succeeded)] ELSE ops

(* The oldest one running, which the page takes from the list.             *)
Running == {id \in RunningIds : ops[id].before \cap RunningIds = {}}

(* Ten minutes after its end an operation may go.                          *)
Follows(p, id) == pages[p].list = id \/ (pages[p].id = id /\ pages[p].resumed)

Ages(id) ==
    /\ id \in Registered \ RunningIds /\ ~ops[id].old
    /\ Sleepy \/ \A p \in Pages : ~Follows(p, id)
    /\ ops' = [ops EXCEPT ![id].old = TRUE]
    /\ UNCHANGED <<calls, dropped, posts, stopped, stored, pages, visits, restarts>>

-----------------------------------------------------------------------------
(* A tracked request: it registers, works, stores and ends. The context is *)
(* done once the connection is dropped or the call is cancelled, and then  *)
(* nothing more can be stored.                                             *)
ContextDone(id) == id \in dropped \/ (id \in Registered /\ ops[id].asked)

trackOperation(id) ==
    /\ calls[id] = "sent"
    /\ calls' = [calls EXCEPT ![id] = "working"]
    /\ ops' = Start(id)
    /\ UNCHANGED <<dropped, posts, stopped, stored, pages, visits, restarts>>

InFlight == {id \in Ids : calls[id] \in {"sent", "working", "saved"}}

(* A request aborted before it was sent off.                               *)
Vanishes(id) ==
    /\ calls[id] = "sent" /\ id \in dropped
    /\ calls' = [calls EXCEPT ![id] = "gone"]
    /\ dropped' = dropped \ {id}
    /\ UNCHANGED <<ops, posts, stopped, stored, pages, visits, restarts>>

Saves(id) ==
    /\ calls[id] = "working" /\ ~ContextDone(id)
    /\ calls' = [calls EXCEPT ![id] = "saved"]
    /\ stored' = stored \cup {id}
    /\ UNCHANGED <<ops, dropped, posts, stopped, pages, visits, restarts>>

(* A call that has stored nothing ends in an error, its own or that of its *)
(* context.                                                                *)
Returns(id) ==
    /\ calls[id] \in {"working", "saved"}
    /\ calls' = [calls EXCEPT ![id] = IF @ = "saved" THEN "done" ELSE "failed"]
    /\ ops' = Finish(id, calls[id] = "saved")
    /\ dropped' = dropped \ {id}
    /\ UNCHANGED <<posts, stopped, stored, pages, visits, restarts>>

handleCancelOperation(id) ==
    /\ id \in posts
    /\ ops' = Cancel(id)
    /\ posts' = posts \ {id}
    /\ UNCHANGED <<calls, dropped, stopped, stored, pages, visits, restarts>>

Restart ==
    /\ restarts < MaxRestarts
    /\ restarts' = restarts + 1
    /\ ops' = [id \in Ids |-> None]
    /\ calls' = [id \in Ids |-> IF calls[id] \in {"working", "saved"} THEN "gone" ELSE calls[id]]
    /\ dropped' = {id \in dropped : calls[id] = "sent"}
    /\ UNCHANGED <<posts, stopped, stored, pages, visits>>

-----------------------------------------------------------------------------
(* A page: useOperationRun, and the step's hook around it.                 *)
Writing(p) == pages[p].own # None \/ pages[p].resumed
Show(p, page) == pages' = [pages EXCEPT ![p] = page]
Loaded(page) == [page EXCEPT !.shown = stored]
end(page) == [page EXCEPT !.id = None, !.resumed = FALSE, !.seen = "none"]

OpenPage(p) ==
    /\ ~pages[p].open
    /\ visits < MaxVisits
    /\ visits' = visits + 1
    /\ Show(p, Loaded([Away EXCEPT !.open = TRUE, !.list = "asked"]))
    /\ UNCHANGED <<ops, calls, dropped, posts, stopped, stored, restarts>>

(* Within the tab a request goes on; with the tab its connection closes.   *)
LeavePage(p) ==
    /\ pages[p].open
    /\ Show(p, Away)
    /\ dropped' \in {dropped, dropped \cup ({pages[p].own} \cap InFlight)}
    /\ UNCHANGED <<ops, calls, posts, stopped, stored, visits, restarts>>

begin(p, id) ==
    /\ pages[p].open /\ ~Writing(p)
    /\ Hasty \/ pages[p].stopping = None
    /\ calls[id] = "unused"
    /\ calls' = [calls EXCEPT ![id] = "sent"]
    /\ Show(p, [pages[p] EXCEPT !.id = id, !.own = id, !.seen = "none"])
    /\ UNCHANGED <<ops, dropped, posts, stopped, stored, visits, restarts>>

(* The page reads the step anew; a failed call keeps its card.             *)
Answered(p) ==
    /\ pages[p].own # None
    /\ calls[pages[p].own] \in {"done", "failed", "gone"}
    /\ LET page == Loaded([pages[p] EXCEPT !.own = None])
       IN  Show(p, IF calls[pages[p].own] = "done" THEN end(page) ELSE page)
    /\ UNCHANGED <<ops, calls, dropped, posts, stopped, stored, visits, restarts>>

(* Mutant: the end of a found run is not followed by a load.               *)
SettledBlind(page) ==
    IF page.resumed /\ page.seen \in Ended
    THEN IF page.seen = "failed" THEN [page EXCEPT !.resumed = FALSE] ELSE end(page)
    ELSE page

(* The end of a call it found is seen by polling only; of its own call it  *)
(* polls the counters.                                                     *)
Settled(page) ==
    IF page.resumed /\ page.seen \in Ended
    THEN Loaded(IF page.seen = "failed" THEN [page EXCEPT !.resumed = FALSE] ELSE end(page))
    ELSE page

Polls(p) ==
    /\ pages[p].resumed /\ pages[p].id \in Registered
    /\ Show(p, Settled([pages[p] EXCEPT !.seen = ops[pages[p].id].status]))
    /\ UNCHANGED <<ops, calls, dropped, posts, stopped, stored, visits, restarts>>

(* The list of running calls is asked for once; no answer is none.         *)
handleListProjectOperations(p) ==
    /\ pages[p].list = "asked"
    /\ \E found \in Running \cup {None} : Show(p, [pages[p] EXCEPT !.list = found])
    /\ UNCHANGED <<ops, calls, dropped, posts, stopped, stored, visits, restarts>>

Adopted(page) ==
    IF page.list = None \/ page.id # None THEN page
    ELSE [page EXCEPT !.id = page.list, !.resumed = TRUE]

Adopts(p) ==
    /\ pages[p].list \notin {"idle", "asked"}
    /\ Show(p, [Adopted(pages[p]) EXCEPT !.list = "idle"])
    /\ UNCHANGED <<ops, calls, dropped, posts, stopped, stored, visits, restarts>>

(* The request to cancel is sent off and the page's own request aborted.   *)
cancel(p) ==
    /\ Writing(p) /\ pages[p].id # None /\ pages[p].stopping = None
    /\ LET id == pages[p].id
       IN  /\ posts' = posts \cup {id}
           /\ stopped' = IF calls[id] \in {"sent", "working"} THEN stopped \cup {id} ELSE stopped
           /\ dropped' = dropped \cup ({pages[p].own} \cap InFlight)
           /\ Show(p, [pages[p] EXCEPT !.own = None, !.stopping = id])
    /\ UNCHANGED <<ops, calls, stored, visits, restarts>>

CancelAnswered(p) ==
    /\ pages[p].stopping # None /\ pages[p].stopping \notin posts
    /\ Show(p, end([pages[p] EXCEPT !.stopping = None]))
    /\ UNCHANGED <<ops, calls, dropped, posts, stopped, stored, visits, restarts>>

-----------------------------------------------------------------------------
Init ==
    /\ ops = [id \in Ids |-> None]
    /\ calls = [id \in Ids |-> "unused"]
    /\ dropped = {} /\ posts = {} /\ stopped = {} /\ stored = {}
    /\ pages = [p \in Pages |-> Away]
    /\ visits = 0 /\ restarts = 0

Call(id) == trackOperation(id) \/ Returns(id)

Next ==
    \/ \E id \in Ids : Call(id) \/ Vanishes(id) \/ Saves(id) \/ Ages(id) \/ handleCancelOperation(id)
    \/ \E p \in Pages : OpenPage(p) \/ LeavePage(p) \/ Answered(p) \/ Polls(p)
                        \/ handleListProjectOperations(p) \/ Adopts(p) \/ cancel(p) \/ CancelAnswered(p)
    \/ \E p \in Pages, id \in Ids : begin(p, id)
    \/ Restart

Spec == Init /\ [][Next]_vars

-----------------------------------------------------------------------------
(* Registry, requests and pages keep their shape.                          *)
TypeOK ==
    /\ ops \in [Ids -> Operation \cup {None}]
    /\ calls \in [Ids -> Places]
    /\ pages \in [Pages -> Page] /\ visits \in 0..MaxVisits /\ restarts \in 0..MaxRestarts

(* The registry shows as running exactly the calls that are: across ends,  *)
(* cancels, restarts and the clearing of old entries.                      *)
RunningIsOpen == \A id \in Ids : id \in RunningIds <=> calls[id] \in {"working", "saved"}

(* What an ended operation says is so: it succeeded if what it made is     *)
(* stored, was cancelled if it was asked to stop and stored nothing, and   *)
(* failed only with nothing stored.                                        *)
StatusTellsTruth ==
    \A id \in Registered :
        /\ ops[id].status = "succeeded" => id \in stored
        /\ ops[id].status \in {"cancelled", "failed"} => id \notin stored
        /\ ops[id].status = "cancelled" => id \in stopped

(* An operation that ended keeps its status as long as it is registered.   *)
EndStands ==
    [][\A id \in Registered : ops[id].status \in Ended /\ ops'[id] # None =>
          ops'[id].status = ops[id].status]_vars

(* A page whose own request is open follows that one, whatever an older    *)
(* answer brings it.                                                       *)
FollowsOwn == \A p \in Pages : pages[p].own # None => pages[p].id = pages[p].own

(* A page that stops following a run of itself shows what the run stored.  *)
SettledIsShown ==
    [][\A p \in Pages :
          LET id == pages[p].id
          IN  /\ Writing(p) /\ pages'[p].open /\ ~Writing(p)'
              /\ pages[p].stopping = None /\ pages'[p].stopping = None
              /\ id \in stored
              => id \in pages'[p].shown]_vars

(* Registry and pages tell the truth of the calls.                         *)
OperationsTellTruth ==
    /\ [](RunningIsOpen /\ StatusTellsTruth /\ FollowsOwn)
    /\ EndStands /\ SettledIsShown
=============================================================================
