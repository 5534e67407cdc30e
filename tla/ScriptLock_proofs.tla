-------------------------- MODULE ScriptLock_proofs --------------------------
(***************************************************************************)
(* Proofs about ScriptLock, for any number of beats, requests and threads: *)
(* what was locked was ready for it, and a finding counts as fixed only    *)
(* when something was done about it.  The work is in JobOK, which says     *)
(* what may still be said of the rows a request has read when it saves     *)
(* them minutes later.                                                     *)
(***************************************************************************)
EXTENDS ScriptLock, FiniteSetTheorems, TLAPS

Ids == ({"r"} \X (1 .. MaxFindings)) \cup ReviewId \cup ({"m-flag"} \X Beats)

NoteRows == [words : Wordings \cup {0}, isApproved : BOOLEAN, sha : Wordings \cup {0}]

Parts == [talk : [Beats -> Wordings], note : [Beats -> Wordings \cup {0}],
          glossary : SUBSET Terms, mine : SUBSET Notes, accepted : SUBSET Ids]

\* A row of a note, whenever it was read: it was saved for the dialogue whose
\* hash it holds, and its items were approved if it says so.
NoteOK(b, n) ==
    /\ n \in NoteRows
    /\ n.words # 0 => Written(n)
    /\ n.isApproved => n.words # 0 /\ <<b, n.words>> \in passed
    /\ Written(n) => <<b, n.words, n.sha>> \in vouched

\* The findings of the model are numbered, each number once; what the machine
\* finds is never fixed by a decision; one decision per finding.
ReviewShape(r) ==
    /\ r = [found |-> r.found, next |-> r.next, decided |-> r.decided,
            mine |-> r.mine, sha |-> r.sha]
    /\ r.next \in 1 .. MaxFindings + 1 /\ r.mine \subseteq Notes
    /\ \A f \in r.found :
          /\ f.says \in Says
          /\ \E k \in 1 .. r.next - 1 : f = [id |-> <<"r", k>>, says |-> f.says]
    /\ \A f, g \in r.found : f.id = g.id => f = g
    /\ \A d \in r.decided : /\ d.id \in Ids /\ d.state \in {"accepted", "fixed"}
                            /\ MachineId(d.id) => d.state = "accepted"
    /\ \A d, e \in r.decided : d.id = e.id => d = e

\* A review, whenever it was read: the model saw the dialogue whose hash it
\* holds, and what is decided as fixed was done.
ReviewPast(r) ==
    /\ r.sha # <<>> => r.sha \in reviewed
    /\ \A f \in r.found, d \in r.decided :
          d.id = f.id /\ d.says = f.says /\ d.state = "fixed" => f \in done

ReviewOK(r) == ReviewShape(r) /\ ReviewPast(r)

\* What Lock saw when it checked could be locked.
SeenReady(s) ==
    /\ ready(s[1])
    /\ \A b \in Beats : s[2][b].isApproved /\ s[2][b].sha = s[1][b].words
    /\ OpenFindings(s[3], s[1]) = {}

OnNotes == {"Edit", "Approve", "Unapprove", "Confirm"}

OnReviews == {"Review", "Accept", "ApplyFix", "AddToHandoff", "Decide", "AddNote"}

JobOK(j) ==
    /\ j.op \in OnNotes =>
          /\ j.beat \in Beats /\ NoteOK(j.beat, j.note)
          /\ j.op \in {"Approve", "Confirm"} => j.note.words # 0
    /\ j.op \in {"Write", "Terms"} => j.beats \subseteq Beats /\ j.glossary \subseteq Terms
    /\ j.op = "AddTerm" => j.text \in Terms /\ j.glossary \subseteq Terms
    /\ j.op = "AddNote" => j.text \in Notes
    /\ j.op \in OnReviews => ReviewOK(j.review)
    /\ j.op = "Accept" => j.finding.id \in Ids
    /\ j.op \in {"ApplyFix", "AddToHandoff", "Decide"} =>
          /\ j.finding.says \in Says
          /\ \E k \in 1 .. MaxFindings :
                j.finding = [id |-> <<"r", k>>, says |-> j.finding.says]
    /\ j.op = "Decide" => j.finding \in done
    /\ j.op = "Lock" => j.next \in 1 .. Len(versions) + 1 /\ SeenReady(j.seen)

TalkOK ==
    /\ talk \in [Beats -> [words : Wordings, isApproved : BOOLEAN]]
    /\ \A b \in Beats : talk[b].isApproved => <<b, talk[b].words>> \in approved

NotesOK ==
    /\ note \in [Beats -> NoteRows]
    /\ \A b \in Beats : NoteOK(b, note[b])

\* The rows as they are now.
RowsOK ==
    /\ editable \in BOOLEAN /\ glossary \subseteq Terms
    /\ changes \in 0 .. MaxChanges /\ requests \in 0 .. MaxRequests
    /\ TalkOK /\ NotesOK /\ ReviewOK(review)
    /\ versions \in Seq(Parts)

JobsOK == DOMAIN job = Threads /\ \A t \in Threads : JobOK(job[t])

Inv == RowsOK /\ JobsOK /\ LockedWasReady

-----------------------------------------------------------------------------
(* The operators on the review.                                            *)

\* The numbers the model's findings have are never taken for the machine's.
LEMMA NotMachine ==
    ASSUME NEW k
    PROVE  ~MachineId(<<"r", k>>)
BY DEF MachineId

\* What the machine finds has ids of its own kind.
LEMMA MachineIds ==
    ASSUME NEW r, NEW d, NEW f \in MachineFindings(r, d)
    PROVE  /\ f.id \in Ids /\ MachineId(f.id)
<1>1. CASE f \in reviewFinal(r, d)
  <2>1. f.id = <<"m-review", 0>>
    BY <1>1 DEF reviewFinal
  <2> QED  BY <2>1 DEF Ids, ReviewId, MachineId
<1>2. CASE f \notin reviewFinal(r, d)
  <2>1. PICK b \in Beats : f = [id |-> <<"m-flag", b>>, says |-> <<"at fault">>]
    BY <1>2 DEF MachineFindings
  <2>2. f.id = <<"m-flag", b>> /\ f.id[1] = "m-flag"
    BY <2>1
  <2> QED  BY <2>2 DEF Ids, MachineId
<1> QED  BY <1>1, <1>2

\* A state is taken from the decision on the finding, or there is none.
LEMMA StateIs ==
    ASSUME NEW r, NEW f
    PROVE  \/ /\ StateOf(r, f) = "open"
              /\ \A d \in r.decided : ~(d.id = f.id /\ d.says = f.says)
           \/ \E d \in r.decided :
                 d.id = f.id /\ d.says = f.says /\ StateOf(r, f) = d.state
<1> DEFINE taken == {d \in r.decided : d.id = f.id /\ d.says = f.says}
<1>1. CASE taken = {}
  BY <1>1 DEF StateOf
<1>2. CASE taken # {}
  <2>1. (CHOOSE d \in taken : TRUE) \in taken
    BY <1>2
  <2> QED  BY <1>2, <2>1 DEF StateOf
<1> QED  BY <1>1, <1>2

\* What a usable reply holds: repeated findings under their numbers, each once,
\* and at most one new finding with the next number.
LEMMA ReplyIs ==
    ASSUME NEW prev, NEW reply \in ParseReviewReply(prev)
    PROVE  /\ \A f \in reply.same : /\ f.says \in Says
                                    /\ f = [id |-> f.id, says |-> f.says]
                                    /\ \E g \in prev.found : g.id = f.id
           /\ \A f, g \in reply.same : f.id = g.id => f = g
           /\ \/ reply.new = {}
              \/ /\ ~(prev.next > MaxFindings)
                 /\ \E s \in Says : reply.new = {[id |-> <<"r", prev.next>>, says |-> s]}
<1> DEFINE fresh == IF prev.next > MaxFindings THEN {}
                    ELSE {{[id |-> <<"r", prev.next>>, says |-> s]} : s \in Says}
<1>1. PICK again \in SUBSET {f.id : f \in prev.found} :
         reply \in {[same |-> {[id |-> n, says |-> said[n]] : n \in again}, new |-> new] :
                       said \in [again -> Says], new \in {{}} \cup fresh}
  BY DEF ParseReviewReply
<1>2. PICK said \in [again -> Says], new \in {{}} \cup fresh :
         reply = [same |-> {[id |-> n, says |-> said[n]] : n \in again}, new |-> new]
  BY <1>1
<1>3. /\ \A f \in reply.same : /\ f.says \in Says
                               /\ f = [id |-> f.id, says |-> f.says]
                               /\ \E g \in prev.found : g.id = f.id
      /\ \A f, g \in reply.same : f.id = g.id => f = g
  BY <1>1, <1>2
<1>4. reply.new = new
  BY <1>2
<1> QED  BY <1>3, <1>4

\* A decision on a finding leaves the review in shape.
LEMMA DecideShape ==
    ASSUME NEW r, ReviewShape(r), NEW f, f.id \in Ids, NEW state \in {"accepted", "fixed"},
           MachineId(f.id) => state = "accepted"
    PROVE  /\ ReviewShape(Decide(r, f, state))
           /\ Decide(r, f, state).found = r.found /\ Decide(r, f, state).sha = r.sha
           /\ Decide(r, f, state).decided =
                 {d \in r.decided : d.id # f.id}
                 \cup {[id |-> f.id, says |-> f.says, state |-> state]}
<1> DEFINE now == {d \in r.decided : d.id # f.id}
                  \cup {[id |-> f.id, says |-> f.says, state |-> state]}
<1>1. PICK q : q = Decide(r, f, state)
  OBVIOUS
<1>2. PICK n : n = now
  OBVIOUS
<1>3. q = [r EXCEPT !.decided = n]
  BY <1>1, <1>2 DEF Decide
<1>4. r = [found |-> r.found, next |-> r.next, decided |-> r.decided,
           mine |-> r.mine, sha |-> r.sha]
  BY DEF ReviewShape
<1>5. q = [found |-> r.found, next |-> r.next, decided |-> n, mine |-> r.mine, sha |-> r.sha]
  BY <1>3, <1>4
<1>6. /\ q.found = r.found /\ q.next = r.next /\ q.decided = n
      /\ q.mine = r.mine /\ q.sha = r.sha
  BY <1>5
<1>7. \A d \in n : /\ d.id \in Ids /\ d.state \in {"accepted", "fixed"}
                   /\ MachineId(d.id) => d.state = "accepted"
  BY <1>2 DEF ReviewShape
<1>8. \A d, e \in n : d.id = e.id => d = e
  BY <1>2 DEF ReviewShape
<1>9. ReviewShape(q)
  BY <1>5, <1>6, <1>7, <1>8 DEF ReviewShape
<1> QED  BY <1>1, <1>2, <1>6, <1>9

\* Laying a reply over a review leaves it in shape; a decision of it that says
\* fixed is an old one on a finding that stays, or on one the reply left out.
LEMMA ApplyShape ==
    ASSUME NEW prev, ReviewShape(prev), NEW reply \in ParseReviewReply(prev), NEW shown
    PROVE  LET r == ApplyReview(prev, reply.same, reply.new, shown)
           IN  /\ ReviewShape(r) /\ r.sha = shown
               /\ \A f \in r.found, d \in r.decided :
                     d.id = f.id /\ d.says = f.says /\ d.state = "fixed" =>
                        \/ f \in prev.found /\ d \in prev.decided
                        \/ f \in prev.found /\ \A g \in reply.same : g.id # f.id
<1> DEFINE Left == {f \in prev.found : StateOf(prev, f) # "fixed" /\ \A g \in reply.same : g.id # f.id}
           Gone == {f \in Left : StateOf(prev, f) = "open"}
           Kept == {d \in prev.decided :
                       MachineId(d.id) \/ \E f \in Left \ Gone : f.id = d.id}
           Fixed == {[id |-> f.id, says |-> f.says, state |-> "fixed"] : f \in Gone}
<1>1. PICK left, gone, kept, fixed, again :
         /\ left = Left /\ gone = Gone /\ kept = Kept /\ fixed = Fixed
         /\ again = AcceptedAgain(prev, reply.same)
  OBVIOUS
<1>2. PICK found, decided, next :
         /\ found = reply.same \cup reply.new \cup left
         /\ decided = kept \cup again \cup fixed
         /\ next = prev.next + Cardinality(reply.new)
  OBVIOUS
<1>3. PICK r : r = ApplyReview(prev, reply.same, reply.new, shown)
  OBVIOUS
<1>4. r = [prev EXCEPT !.found = found, !.next = next, !.decided = decided, !.sha = shown]
  BY <1>1, <1>2, <1>3 DEF ApplyReview
<1> HIDE DEF Left, Gone, Kept, Fixed
<1>5. prev = [found |-> prev.found, next |-> prev.next, decided |-> prev.decided,
              mine |-> prev.mine, sha |-> prev.sha]
  BY DEF ReviewShape
<1>6. r = [found |-> found, next |-> next, decided |-> decided, mine |-> prev.mine, sha |-> shown]
  BY <1>4, <1>5
<1>7. /\ r.found = found /\ r.next = next /\ r.decided = decided
      /\ r.mine = prev.mine /\ r.sha = shown
  BY <1>6
<1>8. /\ \A f \in reply.same : /\ f.says \in Says
                               /\ f = [id |-> f.id, says |-> f.says]
                               /\ \E g \in prev.found : g.id = f.id
      /\ \A f, g \in reply.same : f.id = g.id => f = g
      /\ \/ reply.new = {}
         \/ /\ ~(prev.next > MaxFindings)
            /\ \E s \in Says : reply.new = {[id |-> <<"r", prev.next>>, says |-> s]}
  BY ReplyIs
<1>9. /\ prev.next \in 1 .. MaxFindings + 1 /\ MaxFindings \in Nat
      /\ next \in prev.next .. MaxFindings + 1
      /\ \A f \in reply.new : /\ f.says \in Says /\ f = [id |-> <<"r", prev.next>>, says |-> f.says]
                              /\ next = prev.next + 1
  <2>1. prev.next \in 1 .. MaxFindings + 1 /\ MaxFindings \in Nat
    BY BoundsAssumption DEF ReviewShape
  <2>2. CASE reply.new = {}
    BY <1>2, <2>1, <2>2, FS_EmptySet
  <2>3. CASE /\ ~(prev.next > MaxFindings)
             /\ \E s \in Says : reply.new = {[id |-> <<"r", prev.next>>, says |-> s]}
    <3>1. PICK s \in Says : reply.new = {[id |-> <<"r", prev.next>>, says |-> s]}
      BY <2>3
    <3>2. Cardinality(reply.new) = 1
      BY <3>1, FS_Singleton
    <3> QED  BY <1>2, <2>1, <2>3, <3>1, <3>2
  <2> QED  BY <1>8, <2>2, <2>3
<1>10. \A f \in prev.found : /\ f.says \in Says
                             /\ \E k \in 1 .. prev.next - 1 : f = [id |-> <<"r", k>>, says |-> f.says]
  BY DEF ReviewShape
<1>11. \A f \in found : /\ f.says \in Says
                        /\ \E k \in 1 .. next - 1 : f = [id |-> <<"r", k>>, says |-> f.says]
  <2>1. ASSUME NEW f \in reply.same
        PROVE  \E k \in 1 .. prev.next - 1 : f = [id |-> <<"r", k>>, says |-> f.says]
    <3>1. PICK g \in prev.found : g.id = f.id
      BY <1>8
    <3>2. PICK k \in 1 .. prev.next - 1 : g = [id |-> <<"r", k>>, says |-> g.says]
      BY <1>10
    <3> QED  BY <1>8, <3>1, <3>2
  <2>2. ASSUME NEW f \in left PROVE f \in prev.found
    BY <1>1 DEF Left
  <2> QED  BY <1>2, <1>8, <1>9, <1>10, <2>1, <2>2
<1>12. \A f \in prev.found \cup reply.same : f.id # <<"r", prev.next>>
  <2>1. ASSUME NEW f \in prev.found PROVE f.id # <<"r", prev.next>>
    <3>1. PICK k \in 1 .. prev.next - 1 : f = [id |-> <<"r", k>>, says |-> f.says]
      BY <1>10
    <3>2. k # prev.next
      BY <1>9
    <3> QED  BY <3>1, <3>2
  <2> QED  BY <1>8, <2>1
<1>13. \A f, g \in found : f.id = g.id => f = g
  <2>1. \A f, g \in prev.found : f.id = g.id => f = g
    BY DEF ReviewShape
  <2>2. \A f \in left : f \in prev.found /\ \A g \in reply.same : g.id # f.id
    BY <1>1 DEF Left
  <2>3. \A f \in reply.new : f.id = <<"r", prev.next>> /\ \A g \in reply.new : f = g
    BY <1>8
  <2> QED  BY <1>2, <1>8, <1>12, <2>1, <2>2, <2>3
<1>14. \A f \in found : f.id \in Ids /\ ~MachineId(f.id)
  <2> SUFFICES ASSUME NEW f \in found PROVE f.id \in Ids /\ ~MachineId(f.id)
    OBVIOUS
  <2>1. PICK k \in 1 .. next - 1 : f = [id |-> <<"r", k>>, says |-> f.says]
    BY <1>11
  <2>2. k \in 1 .. MaxFindings
    BY <1>9
  <2> QED  BY <2>1, <2>2, NotMachine DEF Ids
<1>15. /\ \A f \in left : f \in prev.found /\ \A g \in reply.same : g.id # f.id
       /\ gone \subseteq left
  BY <1>1 DEF Left, Gone
<1>16. \A d \in kept : /\ d \in prev.decided
                       /\ MachineId(d.id) \/ \E f \in left \ gone : f.id = d.id
  BY <1>1 DEF Kept
<1>17. \A d \in again : \E f \in reply.same :
          d = [id |-> f.id, says |-> f.says, state |-> "accepted"]
  BY <1>1 DEF AcceptedAgain
<1>18. \A d \in fixed : \E f \in gone :
          d = [id |-> f.id, says |-> f.says, state |-> "fixed"]
  BY <1>1 DEF Fixed
<1>19. /\ \A d \in prev.decided : /\ d.id \in Ids /\ d.state \in {"accepted", "fixed"}
                                  /\ MachineId(d.id) => d.state = "accepted"
       /\ \A d, e \in prev.decided : d.id = e.id => d = e
  BY DEF ReviewShape
<1>20. \A d \in decided : /\ d.id \in Ids /\ d.state \in {"accepted", "fixed"}
                          /\ MachineId(d.id) => d.state = "accepted"
  <2>1. ASSUME NEW d \in again
        PROVE  d.id \in Ids /\ d.state = "accepted"
    <3>1. PICK f \in reply.same : d = [id |-> f.id, says |-> f.says, state |-> "accepted"]
      BY <1>17
    <3>2. f \in found
      BY <1>2
    <3> QED  BY <1>14, <3>1, <3>2
  <2>2. ASSUME NEW d \in fixed
        PROVE  d.id \in Ids /\ d.state = "fixed" /\ ~MachineId(d.id)
    <3>1. PICK f \in gone : d = [id |-> f.id, says |-> f.says, state |-> "fixed"]
      BY <1>18
    <3>2. f.id \in Ids /\ ~MachineId(f.id)
      BY <1>2, <1>14, <1>15
    <3>3. d.id = f.id /\ d.state = "fixed"
      BY <3>1
    <3> QED  BY <3>2, <3>3
  <2>3. ASSUME NEW d \in kept
        PROVE  /\ d.id \in Ids /\ d.state \in {"accepted", "fixed"}
               /\ MachineId(d.id) => d.state = "accepted"
    BY <1>16, <1>19
  <2> QED  BY <1>2, <2>1, <2>2, <2>3
<1>21. \A d, e \in decided : d.id = e.id => d = e
  <2> DEFINE P(d) == d \in kept
             Q(d) == \E f \in reply.same : d = [id |-> f.id, says |-> f.says, state |-> "accepted"]
             R(d) == \E f \in gone : d = [id |-> f.id, says |-> f.says, state |-> "fixed"]
  <2>1. \A d \in decided : P(d) \/ Q(d) \/ R(d)
    BY <1>2, <1>17, <1>18
  <2>2. \A d, e : P(d) /\ P(e) /\ d.id = e.id => d = e
    BY <1>16, <1>19
  <2>3. \A d, e : Q(d) /\ Q(e) /\ d.id = e.id => d = e
    BY <1>8
  <2>4. \A f, g \in prev.found : f.id = g.id => f = g
    BY DEF ReviewShape
  <2>5. \A d, e : R(d) /\ R(e) /\ d.id = e.id => d = e
    BY <1>15, <2>4
  <2>6. \A d, e : P(d) /\ Q(e) => d.id # e.id
    <3> SUFFICES ASSUME NEW d, NEW e, P(d), Q(e) PROVE d.id # e.id
      OBVIOUS
    <3>1. e.id \in {g.id : g \in reply.same} /\ ~MachineId(e.id)
      BY <1>2, <1>14
    <3> QED  BY <1>15, <1>16, <3>1
  <2>7. \A d, e : P(d) /\ R(e) => d.id # e.id
    <3> SUFFICES ASSUME NEW d, NEW e, P(d), R(e), d.id = e.id PROVE FALSE
      OBVIOUS
    <3>1. PICK f \in gone : e = [id |-> f.id, says |-> f.says, state |-> "fixed"]
      OBVIOUS
    <3>2. ~MachineId(f.id)
      BY <1>2, <1>14, <1>15
    <3>3. PICK g \in left \ gone : g.id = f.id
      BY <1>16, <3>1, <3>2
    <3> QED  BY <1>15, <2>4, <3>3
  <2>8. \A d, e : Q(d) /\ R(e) => d.id # e.id
    BY <1>15
  <2> HIDE DEF P, Q, R
  <2> QED  BY <2>1, <2>2, <2>3, <2>5, <2>6, <2>7, <2>8
<1>22. ReviewShape(r)
  <2>1. prev.mine \subseteq Notes
    BY DEF ReviewShape
  <2>2. next \in 1 .. MaxFindings + 1
    BY <1>9
  <2> QED  BY <1>6, <1>7, <1>11, <1>13, <1>20, <1>21, <2>1, <2>2 DEF ReviewShape
<1>23. ASSUME NEW f \in found, NEW d \in decided,
              d.id = f.id, d.says = f.says, d.state = "fixed"
       PROVE  \/ f \in prev.found /\ d \in prev.decided
              \/ f \in prev.found /\ \A g \in reply.same : g.id # f.id
  <2>1. CASE d \in kept
    <3>1. PICK h \in left \ gone : h.id = f.id
      BY <1>14, <1>16, <1>23, <2>1
    <3>2. h = f
      BY <1>2, <1>13, <3>1
    <3> QED  BY <1>15, <1>16, <2>1, <3>1, <3>2
  <2>2. CASE d \in again
    BY <1>17, <1>23, <2>2
  <2>3. CASE d \in fixed
    <3>1. PICK h \in gone : d = [id |-> h.id, says |-> h.says, state |-> "fixed"]
      BY <1>18, <2>3
    <3>2. h = f
      BY <1>2, <1>13, <1>15, <1>23, <3>1
    <3> QED  BY <1>15, <3>1, <3>2
  <2> QED  BY <1>2, <2>1, <2>2, <2>3
<1> QED  BY <1>3, <1>7, <1>22, <1>23

-----------------------------------------------------------------------------
(* What a step leaves as it was.                                           *)

\* The histories only grow.
Grows ==
    /\ approved \subseteq approved' /\ vouched \subseteq vouched' /\ passed \subseteq passed'
    /\ reviewed \subseteq reviewed' /\ done \subseteq done' /\ torn \subseteq torn'

\* A note that was as it should be still is.
LEMMA NoteStays ==
    ASSUME Grows, NEW CONSTANT b, NEW CONSTANT n, NoteOK(b, n)
    PROVE  NoteOK(b, n)'
BY DEF Grows, NoteOK, Written

\* A review that was as it should be still is.
LEMMA ReviewStays ==
    ASSUME Grows, NEW CONSTANT r, ReviewOK(r)
    PROVE  ReviewOK(r)'
<1>1. ReviewShape(r)'
  BY DEF ReviewOK, ReviewShape, MachineId
<1>2. ReviewPast(r)'
  BY DEF ReviewOK, ReviewPast, Grows
<1> QED  BY <1>1, <1>2 DEF ReviewOK

\* A request that has read what it should still has.
LEMMA JobStays ==
    ASSUME Grows, NEW CONSTANT j, JobOK(j),
           Len(versions) \in Nat, Len(versions)' \in Nat, Len(versions) <= Len(versions)'
    PROVE  JobOK(j)'
<1>1. (j.op \in OnNotes =>
          /\ j.beat \in Beats /\ NoteOK(j.beat, j.note)
          /\ j.op \in {"Approve", "Confirm"} => j.note.words # 0)'
  BY NoteStays DEF JobOK, OnNotes
<1>2. (j.op \in OnReviews => ReviewOK(j.review))'
  BY ReviewStays DEF JobOK, OnReviews
<1>3. (j.op = "Decide" => j.finding \in done)'
  BY DEF JobOK, Grows
<1>4. (j.op = "Lock" => j.next \in 1 .. Len(versions) + 1 /\ SeenReady(j.seen))'
  BY DEF JobOK, SeenReady, ready, OpenFindings
<1>5. /\ j.op \in {"Write", "Terms"} => j.beats \subseteq Beats /\ j.glossary \subseteq Terms
      /\ j.op = "AddTerm" => j.text \in Terms /\ j.glossary \subseteq Terms
      /\ j.op = "AddNote" => j.text \in Notes
      /\ j.op = "Accept" => j.finding.id \in Ids
      /\ j.op \in {"ApplyFix", "AddToHandoff", "Decide"} =>
            /\ j.finding.says \in Says
            /\ \E k \in 1 .. MaxFindings :
                  j.finding = [id |-> <<"r", k>>, says |-> j.finding.says]
  BY DEF JobOK
<1> QED  BY <1>1, <1>2, <1>3, <1>4, <1>5 DEF JobOK

\* Only the request of t moves, to k.
LEMMA JobsStep ==
    ASSUME JobsOK, Grows, NEW t \in Threads, NEW CONSTANT k,
           job' = [job EXCEPT ![t] = k], JobOK(k)',
           Len(versions) \in Nat, Len(versions)' \in Nat, Len(versions) <= Len(versions)'
    PROVE  JobsOK'
<1>1. DOMAIN job' = Threads
  BY DEF JobsOK
<1>2. ASSUME NEW u \in Threads PROVE JobOK(job[u])'
  <2>1. PICK j : j = job[u]
    OBVIOUS
  <2>2. CASE u = t
    BY <2>2 DEF JobsOK
  <2>3. CASE u # t
    <3>1. job'[u] = j
      BY <2>1, <2>3 DEF JobsOK
    <3>2. JobOK(j)'
      BY <2>1, JobStays DEF JobsOK
    <3> QED  BY <3>1, <3>2
  <2> QED  BY <2>2, <2>3
<1> QED  BY <1>1, <1>2 DEF JobsOK

\* The versions locked stay what they were.
LEMMA VersionsStay ==
    ASSUME LockedWasReady, Grows, versions' = versions
    PROVE  LockedWasReady'
BY DEF LockedWasReady, Grows

\* Rows that are not written stay as they should be.
LEMMA RowsSame ==
    ASSUME RowsOK, Grows
    PROVE  /\ UNCHANGED talk => TalkOK'
           /\ UNCHANGED note => NotesOK'
           /\ UNCHANGED review => ReviewOK(review)'
<1>1. UNCHANGED talk => TalkOK'
  BY DEF RowsOK, TalkOK, Grows
<1>2. ASSUME UNCHANGED note PROVE NotesOK'
  <2>1. \A b \in Beats : NoteOK(b, note[b])'
    BY <1>2 DEF RowsOK, NotesOK, NoteOK, Written, Grows
  <2> QED  BY <1>2, <2>1 DEF RowsOK, NotesOK
<1>3. ASSUME UNCHANGED review PROVE ReviewOK(review)'
  <2>1. ReviewShape(review)'
    BY <1>3 DEF RowsOK, ReviewOK, ReviewShape, MachineId
  <2>2. ReviewPast(review)'
    BY <1>3 DEF RowsOK, ReviewOK, ReviewPast, Grows
  <2> QED  BY <2>1, <2>2 DEF ReviewOK
<1> QED  BY <1>1, <1>2, <1>3

\* The rows of the notes after one of them was saved.
LEMMA NoteSaved ==
    ASSUME RowsOK, Grows, NEW CONSTANT b \in Beats, NEW CONSTANT row,
           saveLockUnit(b, row), NoteOK(b, row)'
    PROVE  NotesOK'
<1>1. row \in NoteRows /\ note \in [Beats -> NoteRows]
  BY DEF NoteOK, RowsOK, NotesOK, NoteRows
<1>2. note' \in [Beats -> NoteRows] /\ \A x \in Beats : note'[x] = IF x = b THEN row ELSE note[x]
  BY <1>1 DEF saveLockUnit
<1>3. ASSUME NEW x \in Beats PROVE NoteOK(x, note[x])'
  <2>1. PICK n : n = note[x]
    OBVIOUS
  <2>2. NoteOK(x, n)'
    BY <2>1, NoteStays DEF RowsOK, NotesOK
  <2>3. NoteOK(x, row)' \/ x # b
    OBVIOUS
  <2>4. CASE x = b
    BY <1>2, <2>4
  <2>5. CASE x # b
    BY <1>2, <2>1, <2>2, <2>5
  <2> QED  BY <2>4, <2>5
<1> QED  BY <1>2, <1>3 DEF NotesOK

-----------------------------------------------------------------------------
(* The inductive invariant.                                                *)

\* It holds when the desk opens.
LEMMA InitInv ==
    ASSUME Init
    PROVE  Inv
<1> USE SetsAssumption, BoundsAssumption
<1>1. /\ editable \in BOOLEAN /\ glossary \subseteq Terms
      /\ changes \in 0 .. MaxChanges /\ requests \in 0 .. MaxRequests
      /\ talk \in [Beats -> [words : Wordings, isApproved : BOOLEAN]]
      /\ \A b \in Beats : talk[b].isApproved => <<b, talk[b].words>> \in approved
      /\ versions \in Seq(Parts)
  BY DEF Init
<1>4. note \in [Beats -> NoteRows] /\ \A b \in Beats : NoteOK(b, note[b])
  <2>1. \/ note = [b \in Beats |-> NoNote]
        \/ note = [b \in Beats |-> [words |-> 1, isApproved |-> TRUE, sha |-> 1]]
    BY DEF Init
  <2>2. note = [b \in Beats |-> NoNote] =>
           note \in [Beats -> NoteRows] /\ \A b \in Beats : NoteOK(b, note[b])
    BY DEF NoNote, NoteRows, NoteOK, Written
  <2>3. ASSUME note = [b \in Beats |-> [words |-> 1, isApproved |-> TRUE, sha |-> 1]]
        PROVE  note \in [Beats -> NoteRows] /\ \A b \in Beats : NoteOK(b, note[b])
    <3>1. \A b \in Beats : note[b] = [words |-> 1, isApproved |-> TRUE, sha |-> 1] /\ Written(note[b])
      BY <2>3 DEF Written
    <3>2. \A b \in Beats : <<b, 1>> \in passed /\ <<b, 1, 1>> \in vouched
      BY <3>1 DEF Init
    <3>3. note \in [Beats -> NoteRows]
      BY <2>3 DEF NoteRows
    <3> QED  BY <3>1, <3>2, <3>3 DEF NoteOK
  <2> QED  BY <2>1, <2>2, <2>3
<1>5. ReviewOK(review)
  BY DEF Init, Unreviewed, ReviewOK, ReviewShape, ReviewPast
<1>6. JobsOK
  BY DEF Init, Idle, JobsOK, JobOK, OnNotes, OnReviews
<1>7. LockedWasReady
  BY DEF Init, LockedWasReady
<1> QED  BY <1>1, <1>4, <1>5, <1>6, <1>7 DEF Inv, RowsOK, TalkOK, NotesOK

\* A request that begins reads what is there.
LEMMA Begins ==
    ASSUME Inv, NEW t \in Threads, NEW CONSTANT request, Serve(t, request), JobOK(request)
    PROVE  Inv'
<1>1. UNCHANGED <<editable, talk, desk, changes, history>>
  BY DEF Serve
<1>2. Grows /\ UNCHANGED <<editable, talk, note, review, glossary, versions, changes, approved>>
  BY <1>1 DEF Grows, desk, history
<1>3. Len(versions) \in Nat /\ Len(versions)' = Len(versions)
  BY <1>2 DEF Inv, RowsOK
<1>4. JobOK(request)'
  BY <1>2, <1>3, JobStays
<1>5. JobsOK'
  <2>1. JobsOK /\ job' = [job EXCEPT ![t] = request] /\ Len(versions) <= Len(versions)'
    BY <1>3 DEF Serve, Inv
  <2> QED  BY <1>2, <1>3, <1>4, <2>1, JobsStep
<1>6. requests' \in 0 .. MaxRequests
  BY BoundsAssumption DEF Serve, Inv, RowsOK
<1>7. RowsOK'
  BY <1>2, <1>6, RowsSame DEF Inv, RowsOK
<1>8. LockedWasReady'
  BY <1>2, VersionsStay DEF Inv
<1> QED  BY <1>5, <1>7, <1>8 DEF Inv

\* A request on a note has read it.
LEMMA OnNoteKeeps ==
    ASSUME Inv, NEW t \in Threads, NEW b \in Beats, NEW op \in OnNotes, OnNote(t, op, b),
           op \in {"Approve", "Confirm"} => note[b].words # 0
    PROVE  Inv'
<1>1. PICK request : request = [op |-> op, beat |-> b, note |-> note[b]]
  OBVIOUS
<1>2. NoteOK(b, note[b])
  BY DEF Inv, RowsOK, NotesOK
<1>3. request.op = op /\ request.beat = b /\ request.note = note[b]
  BY <1>1
<1>4. JobOK(request)
  BY <1>2, <1>3 DEF JobOK, OnNotes, OnReviews
<1> QED  BY <1>1, <1>4, Begins DEF OnNote

\* A request on a finding has read it and the review.
LEMMA OnFindingKeeps ==
    ASSUME Inv, NEW t \in Threads, NEW f, NEW CONSTANT request, Serve(t, request),
           request.op \in {"Accept", "ApplyFix", "AddToHandoff"},
           request.finding = f, request.review = review, f \in Findings(review, talk),
           request.op \in {"ApplyFix", "AddToHandoff"} => f \in review.found
    PROVE  Inv'
<1>1. ReviewOK(review)
  BY DEF Inv, RowsOK
<1>2. ASSUME f \in review.found
      PROVE  /\ f.says \in Says
             /\ \E k \in 1 .. MaxFindings : f = [id |-> <<"r", k>>, says |-> f.says]
  BY <1>1, <1>2, BoundsAssumption DEF ReviewOK, ReviewShape
<1>3. f.id \in Ids
  <2>1. CASE f \in review.found
    <3>1. PICK k \in 1 .. MaxFindings : f = [id |-> <<"r", k>>, says |-> f.says]
      BY <1>2, <2>1
    <3> QED  BY <3>1 DEF Ids
  <2>2. CASE f \in MachineFindings(review, talk)
    BY <2>2, MachineIds
  <2> QED  BY <2>1, <2>2 DEF Findings
<1>4. JobOK(request)
  BY <1>1, <1>2, <1>3 DEF JobOK, OnNotes, OnReviews
<1> QED  BY <1>4, Begins

\* Whatever a request asks, it begins with what is stored.
LEMMA RequestKeeps ==
    ASSUME Inv, NEW t \in Threads, Request(t)
    PROVE  Inv'
<1>0. ReviewOK(review) /\ glossary \subseteq Terms /\ versions \in Seq(Parts)
  BY DEF Inv, RowsOK
<1>1. ASSUME NEW b \in Beats,
             \/ Edit(t, b) \/ Approve(t, b) \/ Unapprove(t, b) \/ ConfirmHandoff(t, b)
      PROVE  Inv'
  <2>1. /\ Edit(t, b) => OnNote(t, "Edit", b)
        /\ Approve(t, b) => OnNote(t, "Approve", b) /\ note[b].words # 0
        /\ Unapprove(t, b) => OnNote(t, "Unapprove", b)
        /\ ConfirmHandoff(t, b) => OnNote(t, "Confirm", b) /\ note[b].words # 0
    BY DEF Edit, Approve, Unapprove, ConfirmHandoff
  <2> QED  BY <1>1, <2>1, OnNoteKeeps DEF OnNotes
<1>2. ASSUME NEW todo \in SUBSET Beats,
             Serve(t, [op |-> "Write", beats |-> todo, glossary |-> glossary])
      PROVE  Inv'
  <2>1. PICK request : request = [op |-> "Write", beats |-> todo, glossary |-> glossary]
    OBVIOUS
  <2>2. request.op = "Write" /\ request.beats = todo /\ request.glossary = glossary
    BY <2>1
  <2>3. JobOK(request)
    BY <1>0, <2>2 DEF JobOK, OnNotes, OnReviews
  <2> QED  BY <1>2, <2>1, <2>3, Begins
<1>3. ASSUME NEW b \in Beats, Redo(t, b) PROVE Inv'
  BY <1>2, <1>3 DEF Redo
<1>4. ASSUME NEW asked \in {Beats} \cup {{b} : b \in Beats}, GenerateHandoff(t, asked)
      PROVE  Inv'
  <2>1. {b \in asked : ~Written(note[b])} \in SUBSET Beats
    OBVIOUS
  <2> QED  BY <1>2, <1>4, <2>1 DEF GenerateHandoff
<1>5. ASSUME NEW f \in Findings(review, talk), Accept(t, f) \/ ApplyFix(t, f)
      PROVE  Inv'
  <2>1. PICK op \in {"Accept", "ApplyFix"} :
           /\ Serve(t, [op |-> op, finding |-> f, review |-> review])
           /\ op = "ApplyFix" => f \in review.found
    BY <1>5 DEF Accept, ApplyFix, OnFinding
  <2>2. PICK request : request = [op |-> op, finding |-> f, review |-> review]
    OBVIOUS
  <2>3. request.op = op /\ request.finding = f /\ request.review = review
    BY <2>2
  <2> QED  BY <2>1, <2>2, <2>3, OnFindingKeeps
<1>6. ASSUME NEW f \in Findings(review, talk), AddToHandoff(t, f)
      PROVE  Inv'
  <2>1. PICK request : request = [op |-> "AddToHandoff", finding |-> f, review |-> review,
                                  note |-> note[f.says.beat]]
    OBVIOUS
  <2>2. request.op = "AddToHandoff" /\ request.finding = f /\ request.review = review
    BY <2>1
  <2>3. Serve(t, request) /\ f \in review.found
    BY <1>6, <2>1 DEF AddToHandoff
  <2> QED  BY <2>2, <2>3, OnFindingKeeps
<1>7. ASSUME NEW n \in Notes, AddNote(t, n) PROVE Inv'
  <2>1. PICK request : request = [op |-> "AddNote", text |-> n, review |-> review]
    OBVIOUS
  <2>2. request.op = "AddNote" /\ request.text = n /\ request.review = review
    BY <2>1
  <2>3. JobOK(request)
    BY <1>0, <2>2 DEF JobOK, OnNotes, OnReviews
  <2> QED  BY <1>7, <2>1, <2>3, Begins DEF AddNote
<1>8. ASSUME NEW g \in Terms, AddTerm(t, g) PROVE Inv'
  <2>1. PICK request : request = [op |-> "AddTerm", text |-> g, glossary |-> glossary]
    OBVIOUS
  <2>2. request.op = "AddTerm" /\ request.text = g /\ request.glossary = glossary
    BY <2>1
  <2>3. JobOK(request)
    BY <1>0, <2>2 DEF JobOK, OnNotes, OnReviews
  <2> QED  BY <1>8, <2>1, <2>3, Begins DEF AddTerm
<1>9. CASE Review(t)
  <2>1. PICK request : request = [op |-> "Review", review |-> review, shown |-> ScriptSHA(talk)]
    OBVIOUS
  <2>2. request.op = "Review" /\ request.review = review
    BY <2>1
  <2>3. JobOK(request)
    BY <1>0, <2>2 DEF JobOK, OnNotes, OnReviews
  <2> QED  BY <1>9, <2>1, <2>3, Begins DEF Review
<1>10. CASE Lock(t)
  <2>1. PICK request : request = [op |-> "Lock", next |-> Len(versions) + 1,
                                  seen |-> <<talk, note, review, glossary>>]
    OBVIOUS
  <2>2. /\ request.op = "Lock" /\ request.next = Len(versions) + 1
        /\ request.seen = <<talk, note, review, glossary>>
    BY <2>1
  <2>3. SeenReady(request.seen)
    <3>1. /\ request.seen[1] = talk /\ request.seen[2] = note /\ request.seen[3] = review
      BY <2>2
    <3> QED  BY <1>10, <3>1 DEF SeenReady, Lock, CanLock, NotesDone
  <2>4. Len(versions) \in Nat
    BY <1>0
  <2>5. JobOK(request)
    BY <2>2, <2>3, <2>4 DEF JobOK, OnNotes, OnReviews
  <2> QED  BY <1>10, <2>1, <2>5, Begins DEF Lock
<1> QED
  BY <1>1, <1>3, <1>4, <1>5, <1>6, <1>7, <1>8, <1>9, <1>10 DEF Request

\* A step of a request that locks nothing, and leaves the rows as they should be.
LEMMA Saves ==
    ASSUME Inv, Grows, NEW t \in Threads, NEW CONSTANT k, job' = [job EXCEPT ![t] = k],
           JobOK(k)', RowsOK', versions' = versions
    PROVE  Inv'
<1>1. Len(versions) \in Nat /\ Len(versions)' = Len(versions) /\ Len(versions) <= Len(versions)'
  BY DEF Inv, RowsOK
<1>2. JobsOK'
  BY <1>1, JobsStep DEF Inv
<1> QED  BY <1>2, VersionsStay DEF Inv

\* A thread that serves nothing has read nothing.
LEMMA IdleOK == JobOK(Idle)'
BY DEF JobOK, Idle, OnNotes, OnReviews

\* A request that ends, having locked nothing.
LEMMA Ends ==
    ASSUME Inv, Grows, NEW t \in Threads, Done(t), RowsOK', versions' = versions
    PROVE  Inv'
<1>1. PICK k : k = Idle
  OBVIOUS
<1>2. JobOK(k)'
  BY <1>1, IdleOK
<1> QED  BY <1>1, <1>2, Saves DEF Done

\* The row saveHandoff saves fits the dialogue of now.
LEMMA HandoffSaved ==
    ASSUME RowsOK, Grows, NEW b \in Beats, NEW w \in Wordings \cup {0}, NEW a \in BOOLEAN,
           saveHandoff(b, w, a), a => w # 0 /\ <<b, w>> \in passed'
    PROVE  NotesOK'
<1>1. PICK row, sha : /\ sha = talk[b].words
                      /\ row = [words |-> w, isApproved |-> a, sha |-> sha]
  OBVIOUS
<1>2. row.words = w /\ row.isApproved = a /\ row.sha = sha
  BY <1>1
<1>3. sha \in Wordings /\ sha # 0
  BY <1>1, SetsAssumption DEF RowsOK, TalkOK
<1>4. <<b, w, sha>> \in vouched'
  BY <1>1 DEF saveHandoff
<1>5. row \in NoteRows
  BY <1>1, <1>3 DEF NoteRows
<1>6. NoteOK(b, row)'
  BY <1>2, <1>3, <1>4, <1>5 DEF NoteOK, Written
<1>7. saveLockUnit(b, row)
  BY <1>1 DEF saveHandoff
<1> QED  BY <1>6, <1>7, NoteSaved

\* What a request is told when it was served is good when it saves.
LEMMA ServedOK ==
    ASSUME Inv, NEW t \in Threads
    PROVE  JobOK(job[t]) /\ RowsOK /\ JobsOK
BY DEF Inv, JobsOK

\* The requests on one note.
LEMMA NoteRequests ==
    ASSUME Inv, NEW t \in Threads, EndEdit(t) \/ EndConfirm(t) \/ EndSetStatus(t)
    PROVE  Inv'
<1>0. JobOK(job[t]) /\ RowsOK
  BY ServedOK
<1>1. CASE EndEdit(t)
  <2>1. Grows /\ UNCHANGED <<editable, talk, review, glossary, versions, changes, requests>>
    BY <1>1 DEF EndEdit, Grows, bounds, saveHandoff
  <2>2. PICK w \in Wordings \cup {0} : saveHandoff(job[t].beat, w, FALSE)
    BY <1>1 DEF EndEdit
  <2>3. job[t].beat \in Beats
    BY <1>0, <1>1 DEF EndEdit, JobOK, OnNotes
  <2>4. NotesOK'
    BY <1>0, <2>1, <2>2, <2>3, HandoffSaved
  <2>5. RowsOK'
    BY <1>0, <2>1, <2>4, RowsSame DEF RowsOK
  <2> QED  BY <1>1, <2>1, <2>5, Ends DEF EndEdit
<1>2. CASE EndConfirm(t)
  <2>1. Grows /\ UNCHANGED <<editable, talk, review, glossary, versions, changes, requests>>
    BY <1>2 DEF EndConfirm, Grows, bounds, saveHandoff
  <2>2. PICK b, w : b = job[t].beat /\ w = job[t].note.words
    OBVIOUS
  <2>3. b \in Beats /\ w \in Wordings \cup {0} /\ w # 0
    BY <1>0, <1>2, <2>2 DEF EndConfirm, JobOK, OnNotes, NoteOK, NoteRows
  <2>4. saveHandoff(b, w, TRUE) /\ <<b, w>> \in passed'
    BY <1>2, <2>2 DEF EndConfirm
  <2>5. NotesOK'
    BY <1>0, <2>1, <2>3, <2>4, HandoffSaved
  <2>6. RowsOK'
    BY <1>0, <2>1, <2>5, RowsSame DEF RowsOK
  <2> QED  BY <1>2, <2>1, <2>6, Ends DEF EndConfirm
<1>3. CASE EndSetStatus(t)
  <2>1. Grows /\ UNCHANGED <<editable, talk, review, glossary, versions, changes, requests>>
    BY <1>3 DEF EndSetStatus, Grows, bounds
  <2>2. PICK b, n, a : b = job[t].beat /\ n = job[t].note /\ a = (job[t].op = "Approve")
    OBVIOUS
  <2>3. b \in Beats /\ NoteOK(b, n) /\ (a => n.words # 0) /\ a \in BOOLEAN
    BY <1>0, <1>3, <2>2 DEF EndSetStatus, JobOK, OnNotes
  <2>4. n \in NoteRows
    BY <2>3 DEF NoteOK
  <2>5. PICK row : row = [words |-> n.words, isApproved |-> a, sha |-> n.sha]
    OBVIOUS
  <2>6. row = WithStatus(job[t])
    BY <2>2, <2>4, <2>5 DEF WithStatus, NoteRows
  <2>7. /\ row.words = n.words /\ row.isApproved = a /\ row.sha = n.sha /\ row \in NoteRows
    BY <2>3, <2>4, <2>5 DEF NoteRows
  <2>8. a => <<b, n.words>> \in passed'
    BY <1>3, <2>2 DEF EndSetStatus
  <2>9. NoteOK(b, n)'
    BY <2>1, <2>3, NoteStays
  <2>10. NoteOK(b, row)'
    BY <2>3, <2>7, <2>8, <2>9 DEF NoteOK, Written
  <2>11. NotesOK'
    BY <1>0, <1>3, <2>1, <2>2, <2>3, <2>6, <2>10, NoteSaved DEF EndSetStatus
  <2>12. RowsOK'
    BY <1>0, <2>1, <2>11, RowsSame DEF RowsOK
  <2> QED  BY <1>3, <2>1, <2>12, Ends DEF EndSetStatus
<1> QED  BY <1>1, <1>2, <1>3

\* Writing the notes with the model, beat after beat, and the terms they bring.
LEMMA WriteRequests ==
    ASSUME Inv, NEW t \in Threads, writeHandoff(t) \/ EndTerms(t) \/ EndAddTerm(t)
    PROVE  Inv'
<1>0. JobOK(job[t]) /\ RowsOK
  BY ServedOK
<1>a. ASSUME NEW left \in SUBSET Beats, NEW terms \in SUBSET Terms, NextBeat(t, left, terms),
             Grows, RowsOK', versions' = versions
      PROVE  Inv'
  <2>1. CASE left = {}
    BY <1>a, <2>1, Ends DEF NextBeat, Done
  <2>2. CASE left # {}
    <3>1. PICK k : k = [op |-> "Write", beats |-> left, glossary |-> terms]
      OBVIOUS
    <3>2. k.op = "Write" /\ k.beats = left /\ k.glossary = terms
      BY <3>1
    <3>3. JobOK(k)'
      BY <3>2 DEF JobOK, OnNotes, OnReviews
    <3> QED  BY <1>a, <2>2, <3>1, <3>3, Saves DEF NextBeat
  <2> QED  BY <2>1, <2>2
<1>1. CASE writeHandoff(t)
  <2>1. job[t].beats \subseteq Beats /\ job[t].glossary \subseteq Terms
    BY <1>0, <1>1 DEF writeHandoff, JobOK
  <2>2. Grows /\ UNCHANGED <<editable, talk, review, glossary, versions, changes, requests>>
    BY <1>1 DEF writeHandoff, Grows, bounds, saveHandoff
  <2>3. PICK b \in job[t].beats, reply \in ParseHandoffReply :
           /\ saveHandoff(b, reply.words, FALSE)
           /\ IF reply.terms = {} THEN NextBeat(t, job[t].beats \ {b}, glossary)
              ELSE job' = [job EXCEPT ![t] =
                              [op |-> "Terms", beats |-> job[t].beats \ {b},
                               glossary |-> Merge(job[t].glossary, reply.terms)]]
    BY <1>1 DEF writeHandoff
  <2>4. reply.words \in Wordings /\ reply.terms \subseteq Terms
    BY <2>3 DEF ParseHandoffReply
  <2>5. NotesOK'
    BY <1>0, <2>1, <2>2, <2>3, <2>4, HandoffSaved
  <2>6. RowsOK'
    BY <1>0, <2>2, <2>5, RowsSame DEF RowsOK
  <2>7. CASE reply.terms = {}
    <3>1. job[t].beats \ {b} \in SUBSET Beats /\ glossary \in SUBSET Terms
      BY <1>0, <2>1 DEF RowsOK
    <3> QED  BY <1>a, <2>2, <2>3, <2>6, <2>7, <3>1
  <2>8. CASE reply.terms # {}
    <3>1. PICK k : k = [op |-> "Terms", beats |-> job[t].beats \ {b},
                        glossary |-> Merge(job[t].glossary, reply.terms)]
      OBVIOUS
    <3>2. k.op = "Terms" /\ k.beats \subseteq Beats /\ k.glossary \subseteq Terms
      BY <2>1, <2>4, <3>1 DEF Merge
    <3>3. JobOK(k)'
      BY <3>2 DEF JobOK, OnNotes, OnReviews
    <3> QED  BY <2>2, <2>3, <2>6, <2>8, <3>1, <3>3, Saves
  <2> QED  BY <2>7, <2>8
<1>2. CASE EndTerms(t)
  <2>1. job[t].beats \subseteq Beats /\ job[t].glossary \subseteq Terms
    BY <1>0, <1>2 DEF EndTerms, JobOK
  <2>2. Grows /\ UNCHANGED <<editable, talk, note, review, versions, changes, requests>>
    BY <1>2 DEF EndTerms, Grows, bounds, history
  <2>3. glossary' \subseteq Terms
    BY <1>2, <2>1 DEF EndTerms
  <2>4. RowsOK'
    BY <1>0, <2>2, <2>3, RowsSame DEF RowsOK
  <2>5. PICK left, terms : left = job[t].beats /\ terms = glossary'
    OBVIOUS
  <2>6. left \in SUBSET Beats /\ terms \in SUBSET Terms /\ NextBeat(t, left, terms)
    BY <1>2, <2>1, <2>3, <2>5 DEF EndTerms, NextBeat
  <2> QED  BY <1>a, <2>2, <2>4, <2>6
<1>3. CASE EndAddTerm(t)
  <2>1. job[t].text \in Terms /\ job[t].glossary \subseteq Terms
    BY <1>0, <1>3 DEF EndAddTerm, JobOK
  <2>2. Grows /\ UNCHANGED <<editable, talk, note, review, versions, changes, requests>>
    BY <1>3 DEF EndAddTerm, Grows, bounds, history
  <2>3. glossary' \subseteq Terms
    BY <1>3, <2>1 DEF EndAddTerm, Merge
  <2>4. RowsOK'
    BY <1>0, <2>2, <2>3, RowsSame DEF RowsOK
  <2> QED  BY <1>3, <2>2, <2>4, Ends DEF EndAddTerm
<1> QED  BY <1>1, <1>2, <1>3

\* The requests on the review.
LEMMA ReviewRequests ==
    ASSUME Inv, NEW t \in Threads, EndReview(t) \/ EndDecide(t) \/ EndAddNote(t)
    PROVE  Inv'
<1>0. JobOK(job[t]) /\ RowsOK
  BY ServedOK
<1>a. ASSUME NEW CONSTANT r, ReviewOK(r)', review' = r, Grows, Done(t),
             UNCHANGED <<editable, talk, note, glossary, versions, changes, requests>>
      PROVE  Inv'
  <2>1. ReviewOK(review)'
    BY <1>a
  <2>2. RowsOK'
    BY <1>0, <1>a, <2>1, RowsSame DEF RowsOK
  <2> QED  BY <1>a, <2>2, Ends
<1>1. CASE EndReview(t)
  <2>1. Grows /\ UNCHANGED <<editable, talk, note, glossary, versions, changes, requests>>
    BY <1>1 DEF EndReview, Grows, bounds
  <2>2. PICK prev, shown : prev = job[t].review /\ shown = job[t].shown
    OBVIOUS
  <2>3. ReviewOK(prev)
    BY <1>0, <1>1, <2>2 DEF EndReview, JobOK, OnReviews
  <2>4. PICK reply \in ParseReviewReply(prev) :
           /\ review' = ApplyReview(prev, reply.same, reply.new, shown)
           /\ done' = done \cup {f \in prev.found : \A g \in reply.same : g.id # f.id}
           /\ reviewed' = reviewed \cup {shown}
    BY <1>1, <2>2 DEF EndReview
  <2>5. PICK r : r = ApplyReview(prev, reply.same, reply.new, shown)
    OBVIOUS
  <2>6. /\ ReviewShape(r) /\ r.sha = shown
        /\ \A f \in r.found, d \in r.decided :
              d.id = f.id /\ d.says = f.says /\ d.state = "fixed" =>
                 \/ f \in prev.found /\ d \in prev.decided
                 \/ f \in prev.found /\ \A g \in reply.same : g.id # f.id
    BY <2>3, <2>5, ApplyShape DEF ReviewOK
  <2>7. ReviewPast(r)'
    BY <2>3, <2>4, <2>6 DEF ReviewOK, ReviewPast
  <2>8. ReviewShape(r)'
    BY <2>6 DEF ReviewShape, MachineId
  <2> QED  BY <1>1, <1>a, <2>1, <2>4, <2>5, <2>7, <2>8 DEF EndReview, ReviewOK
<1>2. CASE EndDecide(t)
  <2>1. Grows /\ UNCHANGED <<editable, talk, note, glossary, versions, changes, requests>>
    BY <1>2 DEF EndDecide, Grows, bounds, history
  <2>2. PICK prev, f, state : /\ prev = job[t].review /\ f = job[t].finding
                              /\ state = IF job[t].op = "Accept" THEN "accepted" ELSE "fixed"
    OBVIOUS
  <2>3. ReviewOK(prev) /\ state \in {"accepted", "fixed"} /\ review' = Decide(prev, f, state)
    BY <1>0, <1>2, <2>2 DEF EndDecide, JobOK, OnReviews
  <2>4. state = "fixed" => /\ f \in done
                           /\ \E k \in 1 .. MaxFindings : f = [id |-> <<"r", k>>, says |-> f.says]
    BY <1>0, <1>2, <2>2 DEF EndDecide, JobOK
  <2>5. f.id \in Ids /\ (MachineId(f.id) => state = "accepted")
    <3>1. CASE state = "fixed"
      <4>1. PICK k \in 1 .. MaxFindings : f = [id |-> <<"r", k>>, says |-> f.says]
        BY <2>4, <3>1
      <4>2. f.id = <<"r", k>>
        BY <4>1
      <4> QED  BY <4>2, NotMachine DEF Ids
    <3>2. CASE state # "fixed"
      BY <1>0, <1>2, <2>2, <2>3, <3>2 DEF JobOK
    <3> QED  BY <3>1, <3>2
  <2>6. PICK r : r = Decide(prev, f, state)
    OBVIOUS
  <2>7. /\ ReviewShape(r) /\ r.found = prev.found /\ r.sha = prev.sha
        /\ r.decided = {d \in prev.decided : d.id # f.id}
                       \cup {[id |-> f.id, says |-> f.says, state |-> state]}
    BY <2>3, <2>5, <2>6, DecideShape DEF ReviewOK
  <2>8. ASSUME NEW g \in r.found, NEW d \in r.decided,
               d.id = g.id, d.says = g.says, d.state = "fixed"
        PROVE  g \in done
    <3>1. CASE d \in prev.decided
      BY <2>3, <2>7, <2>8, <3>1 DEF ReviewOK, ReviewPast
    <3>2. CASE d = [id |-> f.id, says |-> f.says, state |-> state]
      <4>1. d.id = f.id /\ d.says = f.says /\ d.state = state
        BY <3>2
      <4>2. PICK k : g = [id |-> <<"r", k>>, says |-> g.says]
        BY <2>7 DEF ReviewShape
      <4>3. PICK m : f = [id |-> <<"r", m>>, says |-> f.says] /\ f \in done
        BY <2>4, <2>8, <4>1
      <4>4. g.id = f.id /\ g.says = f.says
        BY <2>8, <4>1
      <4>5. g = [id |-> g.id, says |-> g.says] /\ f = [id |-> f.id, says |-> f.says]
        BY <4>2, <4>3
      <4>6. g = f
        BY <4>4, <4>5
      <4> QED  BY <4>3, <4>6
    <3> QED  BY <2>7, <3>1, <3>2
  <2>9. r.sha # <<>> => r.sha \in reviewed
    BY <2>3, <2>7 DEF ReviewOK, ReviewPast
  <2>10. ReviewOK(r)
    BY <2>7, <2>8, <2>9 DEF ReviewOK, ReviewPast
  <2>11. ReviewOK(r)'
    BY <2>1, <2>10, ReviewStays
  <2> QED  BY <1>2, <1>a, <2>1, <2>3, <2>6, <2>11 DEF EndDecide
<1>3. CASE EndAddNote(t)
  <2>1. Grows /\ UNCHANGED <<editable, talk, note, glossary, versions, changes, requests>>
    BY <1>3 DEF EndAddNote, Grows, bounds, history
  <2>2. PICK prev, mine : prev = job[t].review /\ mine = prev.mine \cup {job[t].text}
    OBVIOUS
  <2>3. ReviewOK(prev) /\ job[t].text \in Notes
    BY <1>0, <1>3, <2>2 DEF EndAddNote, JobOK, OnReviews
  <2>4. PICK r : r = [prev EXCEPT !.mine = mine]
    OBVIOUS
  <2>5. prev = [found |-> prev.found, next |-> prev.next, decided |-> prev.decided,
                mine |-> prev.mine, sha |-> prev.sha]
    BY <2>3 DEF ReviewOK, ReviewShape
  <2>6. r = [found |-> prev.found, next |-> prev.next, decided |-> prev.decided,
             mine |-> mine, sha |-> prev.sha]
    BY <2>4, <2>5
  <2>7. /\ r.found = prev.found /\ r.next = prev.next /\ r.decided = prev.decided
        /\ r.mine = mine /\ r.sha = prev.sha
    BY <2>6
  <2>8. mine \subseteq Notes
    BY <2>2, <2>3 DEF ReviewOK, ReviewShape
  <2>9. ReviewShape(r)
    BY <2>3, <2>6, <2>7, <2>8 DEF ReviewOK, ReviewShape
  <2>10. ReviewOK(r)
    BY <2>3, <2>7, <2>9 DEF ReviewOK, ReviewPast
  <2>11. ReviewOK(r)'
    BY <2>1, <2>10, ReviewStays
  <2>12. review' = r
    BY <1>3, <2>2, <2>4, <2>5 DEF EndAddNote
  <2> QED  BY <1>3, <1>a, <2>1, <2>11, <2>12 DEF EndAddNote
<1> QED  BY <1>1, <1>2, <1>3

\* Putting the line of a finding in, before it is decided.
LEMMA PutRequests ==
    ASSUME Inv, NEW t \in Threads, PutFix(t) \/ PutInHandoff(t)
    PROVE  Inv'
<1>0. JobOK(job[t]) /\ RowsOK
  BY ServedOK
<1>1. job[t].op \in {"ApplyFix", "AddToHandoff"} /\ ThenDecide(t)
  BY DEF PutFix, PutInHandoff
<1>2. PICK f, r : f = job[t].finding /\ r = job[t].review
  OBVIOUS
<1>3. /\ ReviewOK(r) /\ f.says \in Says
      /\ \E k \in 1 .. MaxFindings : f = [id |-> <<"r", k>>, says |-> f.says]
  BY <1>0, <1>1, <1>2 DEF JobOK, OnReviews
<1>4. f.says.beat \in Beats
  BY <1>3 DEF Says
<1>5. /\ Grows /\ done' = done \cup {f}
      /\ UNCHANGED <<editable, review, glossary, versions, changes, requests>>
  <2>1. CASE PutFix(t)
    BY <1>2, <2>1 DEF PutFix, Grows, bounds, desk
  <2>2. CASE PutInHandoff(t)
    BY <1>2, <2>2 DEF PutInHandoff, Grows, bounds, saveHandoff
  <2> QED  BY <2>1, <2>2
<1>6. TalkOK' /\ NotesOK'
  <2>1. CASE PutFix(t)
    <3>1. PICK w \in Wordings :
             talk' = [talk EXCEPT ![f.says.beat] = [words |-> w, isApproved |-> FALSE]]
      BY <1>2, <2>1 DEF PutFix
    <3>2. TalkOK'
      BY <1>0, <1>4, <1>5, <3>1 DEF RowsOK, TalkOK, Grows
    <3>3. UNCHANGED note
      BY <2>1 DEF PutFix, desk
    <3> QED  BY <1>0, <1>5, <3>2, <3>3, RowsSame
  <2>2. CASE PutInHandoff(t)
    <3>1. PICK w \in Wordings : saveHandoff(f.says.beat, w, FALSE)
      BY <1>2, <2>2 DEF PutInHandoff
    <3>2. NotesOK'
      BY <1>0, <1>4, <1>5, <3>1, HandoffSaved
    <3>3. UNCHANGED talk
      BY <2>2 DEF PutInHandoff
    <3> QED  BY <1>0, <1>5, <3>2, <3>3, RowsSame
  <2> QED  BY <2>1, <2>2
<1>7. RowsOK'
  BY <1>0, <1>5, <1>6, RowsSame DEF RowsOK
<1>8. PICK k : k = [op |-> "Decide", finding |-> f, review |-> r]
  OBVIOUS
<1>9. job' = [job EXCEPT ![t] = k]
  BY <1>1, <1>2, <1>8 DEF ThenDecide, Inv, JobsOK
<1>10. k.op = "Decide" /\ k.finding = f /\ k.review = r
  BY <1>8
<1>11. ReviewOK(r)' /\ f \in done'
  BY <1>3, <1>5, ReviewStays
<1>12. JobOK(k)'
  BY <1>3, <1>10, <1>11 DEF JobOK, OnNotes, OnReviews
<1> QED  BY <1>5, <1>7, <1>9, <1>12, Saves

\* What LockedWasReady asks of one version.
VersionReady(v) ==
    /\ \A b \in Beats : /\ <<b, v.talk[b]>> \in approved
                        /\ <<b, v.note[b], v.talk[b]>> \in vouched
                        /\ <<b, v.note[b]>> \in passed
                        /\ v.talk[b] \in Flagged => <<"m-flag", b>> \in v.accepted
    /\ v.talk \in reviewed \/ v.accepted \cap ReviewId # {}

\* A machine finding that is not open was accepted.
LEMMA MachineAccepted ==
    ASSUME RowsOK, NEW f \in MachineFindings(review, talk), OpenFindings(review, talk) = {}
    PROVE  f.id \in Accepted(review)
<1>1. StateOf(review, f) # "open"
  BY DEF OpenFindings, Findings
<1>2. PICK d \in review.decided :
         d.id = f.id /\ d.says = f.says /\ StateOf(review, f) = d.state
  BY <1>1, StateIs
<1>3. MachineId(d.id)
  BY <1>2, MachineIds
<1>4. d.state = "accepted"
  BY <1>3 DEF RowsOK, ReviewOK, ReviewShape
<1> QED  BY <1>2, <1>3, <1>4 DEF Accepted

\* What is frozen has the shape of a version.
LEMMA PartsShape ==
    ASSUME RowsOK
    PROVE  CurrentParts \in Parts
<1>1. ScriptSHA(talk) \in [Beats -> Wordings]
  BY DEF RowsOK, TalkOK, ScriptSHA
<1>2. [b \in Beats |-> note[b].words] \in [Beats -> Wordings \cup {0}]
  BY DEF RowsOK, NotesOK, NoteRows
<1>3. Accepted(review) \in SUBSET Ids
  BY DEF Accepted, RowsOK, ReviewOK, ReviewShape
<1>4. glossary \in SUBSET Terms /\ review.mine \in SUBSET Notes
  BY DEF RowsOK, ReviewOK, ReviewShape
<1> QED  BY <1>1, <1>2, <1>3, <1>4 DEF CurrentParts, Parts

\* What could be locked when it was checked, and is the same now, is ready.
LEMMA CurrentReady ==
    ASSUME RowsOK, SeenReady(<<talk, note, review, glossary>>)
    PROVE  VersionReady(CurrentParts)
<1>0. PICK seen : seen = <<talk, note, review, glossary>>
  OBVIOUS
<1>a. seen[1] = talk /\ seen[2] = note /\ seen[3] = review /\ SeenReady(seen)
  BY <1>0
<1>1. /\ ready(talk)
      /\ \A b \in Beats : note[b].isApproved /\ note[b].sha = talk[b].words
      /\ OpenFindings(review, talk) = {}
  BY <1>a DEF SeenReady
<1>2. PICK v : v = CurrentParts
  OBVIOUS
<1>3. /\ v.talk = ScriptSHA(talk) /\ v.accepted = Accepted(review)
      /\ \A b \in Beats : v.note[b] = note[b].words /\ v.talk[b] = talk[b].words
  BY <1>2 DEF CurrentParts, ScriptSHA
<1>4. ASSUME NEW b \in Beats
      PROVE  /\ <<b, talk[b].words>> \in approved
             /\ <<b, note[b].words, talk[b].words>> \in vouched
             /\ <<b, note[b].words>> \in passed
  <2>1. talk[b].isApproved /\ talk[b].words \in Wordings
    BY <1>1 DEF ready, RowsOK, TalkOK
  <2>2. talk[b].words # 0
    BY <2>1, SetsAssumption
  <2> QED  BY <1>1, <2>1, <2>2 DEF RowsOK, TalkOK, NotesOK, NoteOK, Written
<1>5. ASSUME NEW b \in Beats, talk[b].words \in Flagged
      PROVE  <<"m-flag", b>> \in Accepted(review)
  <2>1. PICK f : f = [id |-> <<"m-flag", b>>, says |-> <<"at fault">>]
    OBVIOUS
  <2>2. f \in MachineFindings(review, talk) /\ f.id = <<"m-flag", b>>
    BY <1>5, <2>1 DEF MachineFindings
  <2> QED  BY <1>1, <2>2, MachineAccepted
<1>6. ScriptSHA(talk) \in reviewed \/ Accepted(review) \cap ReviewId # {}
  <2>1. CASE review.sha # <<>> /\ review.sha = ScriptSHA(talk)
    BY <2>1 DEF RowsOK, ReviewOK, ReviewPast
  <2>2. CASE ~(review.sha # <<>> /\ review.sha = ScriptSHA(talk))
    <3>1. PICK f \in reviewFinal(review, talk) : f.id = <<"m-review", 0>>
      BY <2>2 DEF reviewFinal
    <3>2. f \in MachineFindings(review, talk)
      BY DEF MachineFindings
    <3>3. <<"m-review", 0>> \in Accepted(review)
      BY <1>1, <3>1, <3>2, MachineAccepted
    <3> QED  BY <3>3 DEF ReviewId
  <2> QED  BY <2>1, <2>2
<1>7. VersionReady(v)
  BY <1>3, <1>4, <1>5, <1>6 DEF VersionReady
<1> QED  BY <1>2, <1>7

\* The lock: a version goes in ready, or its number in torn.
LEMMA LockRequest ==
    ASSUME Inv, NEW t \in Threads, EndLock(t)
    PROVE  Inv'
<1>0. JobOK(job[t]) /\ RowsOK /\ JobsOK
  BY ServedOK
<1>1. /\ UNCHANGED <<editable, talk, note, review, glossary, changes, requests, approved,
                    vouched, passed, reviewed, done>>
      /\ versions' = SaveScriptVersion(job[t].next, CurrentParts)
      /\ torn' = IF versions' = versions \/ job[t].seen = <<talk, note, review, glossary>>
                 THEN torn ELSE torn \cup {job[t].next}
  BY DEF EndLock, bounds
<1>2. Grows
  BY <1>1 DEF Grows
<1>3. job[t].next \in 1 .. Len(versions) + 1 /\ SeenReady(job[t].seen)
  BY <1>0 DEF EndLock, JobOK
<1>4. CurrentParts \in Parts /\ versions \in Seq(Parts)
  BY <1>0, PartsShape DEF RowsOK
<1>5. CASE versions' = versions
  <2>1. RowsOK'
    BY <1>0, <1>1, <1>2, <1>5, RowsSame DEF RowsOK
  <2> QED  BY <1>2, <1>5, <2>1, Ends DEF EndLock
<1>6. CASE versions' # versions
  <2>1. job[t].next = Len(versions) + 1 /\ versions' = Append(versions, CurrentParts)
    BY <1>1, <1>3, <1>4, <1>6 DEF SaveScriptVersion
  <2>2. PICK v : v = CurrentParts
    OBVIOUS
  <2>3. /\ versions' \in Seq(Parts) /\ Len(versions') = Len(versions) + 1
        /\ \A n \in 1 .. Len(versions) : versions'[n] = versions[n]
        /\ versions'[Len(versions) + 1] = v
    BY <1>4, <2>1, <2>2
  <2>4. Len(versions) \in Nat /\ Len(versions)' \in Nat /\ Len(versions) <= Len(versions)'
    BY <1>4, <2>3
  <2>5. RowsOK'
    BY <1>0, <1>1, <1>2, <2>3, RowsSame DEF RowsOK
  <2>6. JobsOK'
    <3>1. PICK k : k = Idle
      OBVIOUS
    <3>2. JobOK(k)' /\ job' = [job EXCEPT ![t] = k]
      BY <3>1, IdleOK DEF EndLock, Done
    <3> QED  BY <1>0, <1>2, <2>4, <3>2, JobsStep
  <2>7. LockedWasReady'
    <3>1. ASSUME NEW n \in DOMAIN versions', n \notin torn'
          PROVE  VersionReady(versions[n])'
      <4>1. CASE n \in 1 .. Len(versions)
        <5>1. n \in DOMAIN versions \ torn
          BY <1>2, <1>4, <3>1, <4>1 DEF Grows
        <5>2. VersionReady(versions[n])
          BY <5>1 DEF Inv, LockedWasReady, VersionReady
        <5>3. versions'[n] = versions[n]
          BY <2>3, <4>1
        <5> QED  BY <1>1, <5>2, <5>3 DEF VersionReady
      <4>2. CASE n = Len(versions) + 1
        <5>1. job[t].seen = <<talk, note, review, glossary>>
          BY <1>1, <1>6, <2>1, <3>1, <4>2
        <5>2. VersionReady(v)
          BY <1>0, <1>3, <2>2, <5>1, CurrentReady
        <5>3. versions'[n] = v
          BY <2>3, <4>2
        <5> QED  BY <1>1, <5>2, <5>3 DEF VersionReady
      <4>3. n \in 1 .. Len(versions) + 1
        BY <2>3, <2>4
      <4> QED  BY <2>4, <4>1, <4>2, <4>3
    <3> QED  BY <3>1 DEF LockedWasReady, VersionReady
  <2> QED  BY <2>5, <2>6, <2>7 DEF Inv
<1> QED  BY <1>5, <1>6

\* A step that moves no request and locks nothing.
LEMMA Aside ==
    ASSUME Inv, Grows, RowsOK', job' = job, versions' = versions
    PROVE  Inv'
<1>1. Len(versions) \in Nat /\ Len(versions)' = Len(versions) /\ Len(versions) <= Len(versions)'
  BY DEF Inv, RowsOK
<1>2. ASSUME NEW u \in Threads PROVE JobOK(job[u])'
  <2>1. PICK j : j = job[u]
    OBVIOUS
  <2>2. JobOK(j)'
    BY <1>1, <2>1, JobStays DEF Inv, JobsOK
  <2> QED  BY <2>1, <2>2
<1>3. JobsOK'
  BY <1>2 DEF Inv, JobsOK
<1> QED  BY <1>3, VersionsStay DEF Inv

\* The invariant is kept by every step.
LEMMA InvStep ==
    ASSUME Inv, [Next]_vars
    PROVE  Inv'
<1>0. RowsOK
  BY DEF Inv
<1>1. CASE Render
  <2>1. Grows /\ UNCHANGED <<talk, note, review, glossary, versions, changes, requests, job>>
    BY <1>1 DEF Render, Grows, history, desk, bounds
  <2>2. editable' \in BOOLEAN
    BY <1>1 DEF Render
  <2>3. RowsOK'
    BY <1>0, <2>1, <2>2, RowsSame DEF RowsOK
  <2> QED  BY <2>1, <2>3, Aside
<1>2. ASSUME NEW b \in Beats, EditDialogue(b) PROVE Inv'
  <2>1. Grows /\ UNCHANGED <<editable, note, review, glossary, versions, requests, job>>
    BY <1>2 DEF EditDialogue, Grows, history, desk
  <2>2. TalkOK'
    BY <1>0, <1>2, <2>1 DEF EditDialogue, RowsOK, TalkOK, Grows
  <2>3. changes' \in 0 .. MaxChanges
    BY <1>0, <1>2, BoundsAssumption DEF EditDialogue, RowsOK
  <2>4. RowsOK'
    BY <1>0, <2>1, <2>2, <2>3, RowsSame DEF RowsOK
  <2> QED  BY <2>1, <2>4, Aside
<1>3. ASSUME NEW b \in Beats, ApproveDialogue(b) PROVE Inv'
  <2>1. Grows /\ UNCHANGED <<editable, note, review, glossary, versions, changes, requests, job>>
    BY <1>3 DEF ApproveDialogue, Grows, desk, bounds
  <2>2. talk \in [Beats -> [words : Wordings, isApproved : BOOLEAN]]
    BY <1>0 DEF RowsOK, TalkOK
  <2>3. /\ talk' \in [Beats -> [words : Wordings, isApproved : BOOLEAN]]
        /\ \A x \in Beats : /\ talk'[x].words = talk[x].words
                            /\ x # b => talk'[x] = talk[x]
    BY <1>3, <2>2 DEF ApproveDialogue
  <2>4. <<b, talk[b].words>> \in approved'
    BY <1>3 DEF ApproveDialogue
  <2>5. TalkOK'
    BY <1>0, <2>1, <2>3, <2>4 DEF RowsOK, TalkOK, Grows
  <2>6. RowsOK'
    BY <1>0, <2>1, <2>5, RowsSame DEF RowsOK
  <2> QED  BY <2>1, <2>6, Aside
<1>4. ASSUME NEW t \in Threads, GiveUp(t) PROVE Inv'
  <2>1. /\ Grows /\ Done(t)
        /\ UNCHANGED <<editable, talk, note, review, glossary, versions, changes, requests>>
    BY <1>4 DEF GiveUp, Grows, history, desk, bounds
  <2>2. RowsOK'
    BY <1>0, <2>1, RowsSame DEF RowsOK
  <2> QED  BY <2>1, <2>2, Ends
<1>5. ASSUME NEW t \in Threads, End(t) PROVE Inv'
  BY <1>4, <1>5, NoteRequests, WriteRequests, ReviewRequests, PutRequests, LockRequest DEF End
<1>6. CASE UNCHANGED vars
  <2>1. /\ Grows
        /\ UNCHANGED <<editable, talk, note, review, glossary, versions, changes, requests, job>>
    BY <1>6 DEF vars, Grows, history, desk, bounds
  <2>2. RowsOK'
    BY <1>0, <2>1, RowsSame DEF RowsOK
  <2> QED  BY <2>1, <2>2, Aside
<1> QED
  BY <1>1, <1>2, <1>3, <1>5, <1>6, RequestKeeps DEF Next

-----------------------------------------------------------------------------
(* What follows.                                                           *)

\* The rows read by every request and the rows stored fit the history of what was
\* approved, written and reviewed, whatever requests overlap.
THEOREM InvAlways == Spec => []Inv
<1>1. Init => Inv
  BY InitInv
<1>2. Inv /\ [Next]_vars => Inv'
  BY InvStep
<1> QED  BY <1>1, <1>2, PTL DEF Spec

\* The rows hold what their columns allow, and no note of no item is approved
\* (CheckApprovable, ConfirmHandoff).
THEOREM TypeCorrect == Spec => []TypeOK
<1>1. ASSUME Inv PROVE TypeOK
  <2>1. /\ RowsOK /\ TalkOK /\ NotesOK /\ ReviewShape(review)
    BY <1>1 DEF Inv, RowsOK, ReviewOK
  <2>2. \A b \in Beats : note[b].isApproved => Written(note[b]) /\ note[b].words # 0
    BY <2>1 DEF NotesOK, NoteOK
  <2>3. \A f \in review.found : f.id[2] < review.next /\ f.says \in Says
    <3> SUFFICES ASSUME NEW f \in review.found
                 PROVE  f.id[2] < review.next /\ f.says \in Says
      OBVIOUS
    <3>1. PICK k \in 1 .. review.next - 1 : f = [id |-> <<"r", k>>, says |-> f.says]
      BY <2>1 DEF ReviewShape
    <3>2. f.id[2] = k
      BY <3>1
    <3> QED  BY <2>1, <3>2, BoundsAssumption DEF ReviewShape
  <2> QED
    BY <2>1, <2>2, <2>3 DEF TypeOK, RowsOK, TalkOK, NotesOK, NoteRows, ReviewShape
<1> QED  BY <1>1, InvAlways, PTL

\* Every version locked was ready for it: its dialogue and notes approved as they
\* read, the notes written for exactly that dialogue, the dialogue reviewed or taken
\* without, its faults accepted; the lock whose two reads differ excepted.
THEOREM LockedStands == Spec => []LockedWasReady
<1>1. Inv => LockedWasReady
  BY DEF Inv
<1> QED  BY <1>1, InvAlways, PTL

\* A finding counts as fixed only when its line was put in or the model looked
\* again and did not repeat it, however requests overlap and break off.
THEOREM FixedStands == Spec => []FixedWasDone
<1>1. ASSUME Inv PROVE FixedWasDone
  <2> SUFFICES ASSUME NEW f \in review.found, StateOf(review, f) = "fixed"
               PROVE  f \in done
    BY DEF FixedWasDone
  <2>1. PICK d \in review.decided : d.id = f.id /\ d.says = f.says /\ d.state = "fixed"
    BY StateIs
  <2> QED  BY <1>1, <2>1 DEF Inv, RowsOK, ReviewOK, ReviewPast
<1> QED  BY <1>1, InvAlways, PTL
=============================================================================
