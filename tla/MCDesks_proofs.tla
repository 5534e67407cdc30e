----------------------------- MODULE MCDesks_proofs -----------------------------
(***************************************************************************)
(* Theorems about ResearchDesk, for any number of requests at one time,    *)
(* any links, quotes, facts and questions, and about StoryDesk, for any    *)
(* requests, fields, facts and wordings, with their proofs.                *)
(***************************************************************************)
EXTENDS MCDesks, TLAPS

Orders == INSTANCE WellFoundedInduction

-----------------------------------------------------------------------------
(* The least and the greatest of a set of numbers.                         *)

\* Min of a set of numbers is in it, and none is smaller.
LEMMA MinIs ==
    ASSUME NEW S \in SUBSET Nat, S # {}
    PROVE  Min(S) \in S /\ \A x \in S : Min(S) <= x
<1> DEFINE R == {pair \in Nat \X Nat : pair[1] < pair[2]}
<1>1. Orders!IsWellFoundedOn(R, Nat)
  BY Orders!NatLessThanWellFounded DEF Orders!OpToRel
<1>2. \A y, z \in Nat : y < z => <<y, z>> \in R
  OBVIOUS
<1> HIDE DEF R
<1>3. PICK x \in S : \A y \in S : ~(<<y, x>> \in R)
  BY <1>1, Orders!WFMin
<1>4. \A y \in S : x <= y
  <2> TAKE y \in S
  <2>1. ~(y < x)
    BY <1>2, <1>3
  <2> QED  BY <2>1
<1>5. \E z \in S : \A y \in S : z <= y
  BY <1>4
<1> QED  BY <1>5 DEF Min

\* Max of a bounded set of numbers is in it, and none is greater.
LEMMA MaxIs ==
    ASSUME NEW n \in Nat, NEW S \in SUBSET (0..n), S # {}
    PROVE  Max(S) \in S /\ \A x \in S : x <= Max(S)
<1> DEFINE T == {n - x : x \in S}
<1>1. T \in SUBSET Nat
  OBVIOUS
<1>2. T # {}
  OBVIOUS
<1>3. Min(T) \in T /\ \A y \in T : Min(T) <= y
  BY <1>1, <1>2, MinIs
<1>4. PICK m \in S : Min(T) = n - m
  BY <1>3
<1>5. ASSUME NEW x \in S PROVE m >= x
  <2>1. n - x \in T
    OBVIOUS
  <2>2. n - m <= n - x
    BY <1>3, <1>4, <2>1
  <2> QED  BY <2>2
<1>6. \E z \in S : \A y \in S : z >= y
  BY <1>5
<1>7. Max(S) \in S /\ \A y \in S : Max(S) >= y
  BY <1>6 DEF Max
<1> QED  BY <1>7

-----------------------------------------------------------------------------
(* The invariant.  First what holds whatever requests overlap.             *)

FactRows ==
    [url : Urls \cup {NoUrl}, quote : Quotes \cup {NoQuote}, keep : BOOLEAN, must : BOOLEAN,
     mine : SUBSET SourceFields, link : [state : LinkStates, of : Sources]]
GateRows == [status : {"pending", "approved"}, skipped : BOOLEAN, next : 1..(MaxQuestions + 1)]
Numbers == 1..MaxQuestions

\* The link of a fact is of its source, and there is a link state when it has a link.
Linked(fact) ==
    /\ fact \in FactRows
    /\ fact.link.of = SourceOf(fact)
    /\ fact.link.state = "none" <=> fact.url = NoUrl

FactsOK ==
    /\ facts = [id \in DOMAIN facts |-> facts[id]] /\ DOMAIN facts \subseteq Codes
    /\ \A id \in DOMAIN facts : Linked(facts[id])

QuestionsOK ==
    /\ questions = [q \in DOMAIN questions |-> questions[q]] /\ DOMAIN questions \subseteq Numbers
    /\ \A q \in DOMAIN questions : questions[q] \in BOOLEAN

QueueOK == IsABag(queue) /\ \A job \in DOMAIN queue : job.source.url # NoUrl

OnFacts == {"flags", "edit", "add", "paste"}
OnGate == {"skip", "approve", "unapprove"}
OnNumbers == {"generate", "replace", "ask"}

\* The codes a request has still to load: pasted claims, or facts that exist.
LeftOK(c) ==
    /\ c.op = "verify" => c.left \subseteq DOMAIN facts
    /\ c.op = "paste" => c.left \subseteq DOMAIN c.claims
    /\ c.op \notin {"verify", "paste"} => c.left = {}
    /\ \A id \in DOMAIN c.claims : id \in Codes /\ c.claims[id] \in Sources

\* What a request holds at each place it may be.
LoadOK(c) == c.op \in {"paste", "verify"} /\ c.left # {} /\ LeftOK(c)
SaveOK(c) ==
    /\ c.op \in OnFacts \cup {"verify"} /\ c.id \in Codes /\ LeftOK(c)
    /\ c.fact \in FactRows /\ c.anew \in BOOLEAN
    /\ ~c.anew => Linked(c.fact)
GateOK(c) ==
    /\ c.op \in OnFacts \cup OnGate \cup OnNumbers /\ c.gate \in GateRows
    /\ Generates(c) => c.gone \subseteq Numbers
AiOK(c) == Generates(c) /\ c.existing \subseteq Numbers /\ c.gone \subseteq Numbers
WriteOK(c) ==
    /\ c.op \in OnNumbers /\ c.gate \in GateRows
    /\ {c.next, c.left} \subseteq Nat \ {0} /\ c.gate.next = c.next + c.left
    /\ Generates(c) => c.gone \subseteq Numbers
DeleteOK(c) ==
    /\ c.op \in {"drop", "generate", "replace"}
    /\ c.gone # {} /\ c.gone \subseteq Numbers

CallOK(c) ==
    \/ c.op = "none"
    \/ c.at = "load" /\ LoadOK(c)
    \/ c.at = "save" /\ SaveOK(c)
    \/ c.at = "reopen" /\ c.op \in OnFacts
    \/ c.at = "check" /\ c.op = "approve" /\ c.gate \in GateRows /\ c.gate.status = "approved"
    \/ c.at = "saveGate" /\ GateOK(c)
    \/ c.at = "ai" /\ AiOK(c)
    \/ c.at = "write" /\ WriteOK(c)
    \/ c.at = "reword" /\ c.op = "reword" /\ c.q \in Numbers
    \/ c.at = "delete" /\ DeleteOK(c)

CallsOK ==
    /\ call = [t \in Threads |-> call[t]]
    /\ \A t \in Threads : CallOK(call[t])

ScalarsOK ==
    /\ gate \in GateRows
    /\ requests \in 0..MaxRequests /\ restarts \in 0..MaxRestarts
    /\ used \subseteq Numbers /\ orderly \in BOOLEAN

Inv == FactsOK /\ QuestionsOK /\ QueueOK /\ CallsOK /\ ScalarsOK

-----------------------------------------------------------------------------
(* Then what holds while requests come one at a time.                      *)

\* An approved table is the table the Creator approved.
AsApproved == gate.status = "approved" => TableOf(facts) = table

\* A request that may have changed the table sends an approved gate back before
\* it ends; no other leaves the gate approved over another table.
Mends(c) == c.op \in OnFacts /\ (c.at = "saveGate" => c.gate.status = "pending")
Keeps(c) ==
    /\ c.op \notin OnFacts
    /\ AsApproved
    /\ c.op = "verify" /\ c.at = "save" =>
          /\ c.id \in DOMAIN facts
          /\ SourceOf(c.fact) = SourceOf(facts[c.id]) /\ c.fact.keep = facts[c.id].keep
    /\ c.op \in {"skip"} \cup OnNumbers /\ c.at \in {"write", "saveGate"} =>
          c.gate.status = gate.status
    /\ c.op = "unapprove" => c.gate.status = "pending"
    /\ c.op = "reword" => c.q \in DOMAIN questions

\* A request that writes questions has the numbers above every one ever given.
Counts(c) ==
    /\ \A q \in used : q < gate.next \/ (c.op \in OnNumbers /\ c.at \in {"write", "saveGate"})
    /\ c.op \in OnNumbers /\ c.at = "write" => \A q \in used : q < c.next
    /\ c.op # "none" /\ c.at \in {"check", "saveGate"} => \A q \in used : q < c.gate.next

OneAtATime ==
    orderly =>
        \A t \in Threads :
            /\ call[t].op # "none" =>
                  /\ \A other \in Threads \ {t} : call[other].op = "none"
                  /\ Mends(call[t]) \/ Keeps(call[t])
                  /\ Counts(call[t])

Between ==
    orderly /\ (\A t \in Threads : call[t].op = "none") =>
        AsApproved /\ \A q \in used : q < gate.next

\* A question that exists, or is to be reworded, was given its number.
UsedOK ==
    /\ DOMAIN questions \subseteq used
    /\ \A t \in Threads : call[t].op = "reword" => call[t].q \in used

SerialInv == Inv /\ UsedOK /\ OneAtATime /\ Between

-----------------------------------------------------------------------------
(* The operators.                                                          *)

\* A source is its link and its quote.
LEMMA SourceIs ==
    ASSUME NEW source \in Sources
    PROVE  /\ source.url \in Urls \cup {NoUrl} /\ source.quote \in Quotes \cup {NoQuote}
           /\ SourceOf(source) = source
BY DEF Sources, SourceOf

\* So is what a fact cites.
LEMMA SourceOfFact ==
    ASSUME NEW fact \in FactRows
    PROVE  SourceOf(fact) \in Sources
BY DEF FactRows, Sources, SourceOf

\* The source of a fact set.
LEMMA WithFactFieldOK ==
    ASSUME NEW fact \in FactRows, NEW source,
           source.url \in Urls \cup {NoUrl}, source.quote \in Quotes \cup {NoQuote}
    PROVE  /\ withFactField(fact, source) \in FactRows
           /\ SourceOf(withFactField(fact, source)) = [url |-> source.url, quote |-> source.quote]
           /\ withFactField(fact, source).link = fact.link
           /\ withFactField(fact, source).url = source.url
BY DEF FactRows, withFactField, SourceOf

\* An edit keeps the fact's shape.
LEMMA EditedOK ==
    ASSUME NEW fact \in FactRows, NEW source \in Sources
    PROVE  Edited(fact, source) \in FactRows
<1>1. PICK f \in FactRows : f = withFactField(fact, source)
  BY SourceIs, WithFactFieldOK
<1>2. PICK mine \in SUBSET SourceFields :
         mine = f.mine \cup {g \in SourceFields : fact[g] # source[g]}
  BY <1>1 DEF FactRows
<1>3. Edited(fact, source) = [f EXCEPT !.mine = mine]
  BY <1>1, <1>2 DEF Edited
<1> QED  BY <1>3 DEF FactRows

\* A paste that changes no source leaves the link of that source.
LEMMA MergePastedOK ==
    ASSUME NEW fact, Linked(fact), NEW claim \in Sources
    PROVE  /\ mergePasted(fact, claim) \in FactRows
           /\ SourceOf(mergePasted(fact, claim)) = SourceOf(fact) =>
                 Linked(mergePasted(fact, claim))
<1>1. PICK source : source = [f \in SourceFields |->
                                 IF f \in fact.mine THEN fact[f] ELSE claim[f]]
  OBVIOUS
<1>2. source.url \in Urls \cup {NoUrl} /\ source.quote \in Quotes \cup {NoQuote}
  BY <1>1, SourceIs DEF SourceFields, Linked, FactRows
<1>3. mergePasted(fact, claim) = withFactField(fact, source)
  BY <1>1 DEF mergePasted
<1>4. PICK f : f = withFactField(fact, source)
  OBVIOUS
<1>5. /\ f \in FactRows /\ SourceOf(f) = [url |-> source.url, quote |-> source.quote]
      /\ f.link = fact.link /\ f.url = source.url
  BY <1>2, <1>4, WithFactFieldOK DEF Linked
<1>6. SourceOf(f) = SourceOf(fact) => Linked(f)
  BY <1>5 DEF Linked, SourceOf
<1> QED  BY <1>3, <1>4, <1>5, <1>6

\* A new fact has no link state.
LEMMA FreshFactOK ==
    ASSUME NEW source \in Sources, NEW mine \in SUBSET SourceFields
    PROVE  FreshFact(source, mine) \in FactRows
<1>1. Link("none", source) \in [state : LinkStates, of : Sources]
  BY DEF Link, LinkStates
<1> QED  BY <1>1, SourceIs DEF FreshFact, FactRows

\* A link has the state and the source it is given.
LEMMA LinkIs ==
    ASSUME NEW state \in LinkStates, NEW source \in Sources
    PROVE  /\ Link(state, source) \in [state : LinkStates, of : Sources]
           /\ Link(state, source).state = state /\ Link(state, source).of = source
BY DEF Link

\* A fact whose check is new is linked, one left alone was.
LEMMA MarkedOK ==
    ASSUME NEW fact \in FactRows, NEW anew \in BOOLEAN, ~anew => Linked(fact)
    PROVE  /\ Linked(Marked(fact, anew))
           /\ SourceOf(Marked(fact, anew)) = SourceOf(fact)
           /\ Marked(fact, anew).keep = fact.keep
<1>1. CASE ~anew
  BY <1>1 DEF Marked
<1>2. CASE anew
  <2> DEFINE link == Link(IF fact.url = NoUrl THEN "none" ELSE "run", SourceOf(fact))
  <2>1. /\ link \in [state : LinkStates, of : Sources]
        /\ link.of = SourceOf(fact) /\ (link.state = "none" <=> fact.url = NoUrl)
    BY SourceOfFact, LinkIs DEF LinkStates
  <2> HIDE DEF link
  <2>2. PICK f : f = [fact EXCEPT !.link = link]
    OBVIOUS
  <2>3. /\ f \in FactRows /\ f.link = link /\ f.url = fact.url /\ f.quote = fact.quote
        /\ f.keep = fact.keep
    BY <2>1, <2>2 DEF FactRows
  <2>4. Marked(fact, anew) = f
    BY <1>2, <2>2 DEF Marked, link
  <2> QED  BY <2>1, <2>3, <2>4 DEF Linked, SourceOf
<1> QED  BY <1>1, <1>2

\* The result of a check, stored only for the source it was made of.
LEMMA SaveFactLinkOK ==
    ASSUME NEW fact, Linked(fact), NEW job, job.source.url # NoUrl,
           NEW state \in LinkStates \ {"none"}
    PROVE  /\ Linked(SaveFactLink(fact, job, state))
           /\ SourceOf(SaveFactLink(fact, job, state)) = SourceOf(fact)
           /\ SaveFactLink(fact, job, state).keep = fact.keep
<1>1. CASE SourceOf(fact) # job.source
  BY <1>1 DEF SaveFactLink
<1>2. CASE SourceOf(fact) = job.source
  <2> DEFINE link == Link(state, job.source)
             must == fact.must \/ state = "ok"
  <2>1. /\ link \in [state : LinkStates, of : Sources]
        /\ link.of = SourceOf(fact) /\ link.state = state
    BY <1>2, SourceOfFact, LinkIs DEF Linked
  <2>5. must \in BOOLEAN
    OBVIOUS
  <2> HIDE DEF link, must
  <2>2. PICK f : f = [fact EXCEPT !.link = link, !.must = must]
    OBVIOUS
  <2>3. /\ f \in FactRows /\ f.link = link /\ f.url = fact.url /\ f.quote = fact.quote
        /\ f.keep = fact.keep
    BY <2>1, <2>2, <2>5 DEF Linked, FactRows
  <2>4. SaveFactLink(fact, job, state) = f
    BY <1>2, <2>2 DEF SaveFactLink, link, must
  <2>6. fact.url # NoUrl
    BY <1>2 DEF SourceOf
  <2> QED  BY <2>1, <2>3, <2>4, <2>6 DEF Linked, SourceOf
<1> QED  BY <1>1, <1>2

\* A restart cuts the check, and touches nothing else of the fact.
LEMMA InterruptedOK ==
    ASSUME NEW fact, Linked(fact)
    PROVE  /\ Linked(Interrupted(fact))
           /\ SourceOf(Interrupted(fact)) = SourceOf(fact)
           /\ Interrupted(fact).keep = fact.keep
<1>1. CASE fact.link.state # "run"
  BY <1>1 DEF Interrupted
<1>2. CASE fact.link.state = "run"
  <2>1. PICK f : f = [fact EXCEPT !.link.state = "na"]
    OBVIOUS
  <2>2. /\ f \in FactRows /\ f.link.of = fact.link.of /\ f.link.state = "na"
        /\ f.url = fact.url /\ f.quote = fact.quote /\ f.keep = fact.keep
    BY <2>1 DEF Linked, FactRows, LinkStates
  <2>3. Interrupted(fact) = f
    BY <1>2, <2>1 DEF Interrupted
  <2> QED  BY <1>2, <2>2, <2>3 DEF Linked, SourceOf
<1> QED  BY <1>1, <1>2
-----------------------------------------------------------------------------
(* The invariant that holds whatever overlaps: the initial states.         *)

\* The first fact, read and checked.
LEMMA FirstFactOK ==
    ASSUME NEW url \in Urls, NEW quote \in Quotes
    PROVE  Linked([FreshFact([url |-> url, quote |-> quote], {}) EXCEPT
                      !.must = TRUE, !.link.state = "ok"])
<1> DEFINE source == [url |-> url, quote |-> quote]
           fact == FreshFact(source, {})
<1>1. source \in Sources
  BY DEF Sources
<1>2. fact \in FactRows
  BY <1>1, FreshFactOK
<1>3. fact.link.of = source /\ fact.url = url /\ fact.quote = quote
  BY DEF FreshFact, Link
<1> HIDE DEF fact
<1>4. PICK f : f = [fact EXCEPT !.must = TRUE, !.link.state = "ok"]
  OBVIOUS
<1>5. /\ f \in FactRows /\ f.link.of = fact.link.of /\ f.link.state = "ok"
      /\ f.url = fact.url /\ f.quote = fact.quote
  BY <1>2, <1>4 DEF FactRows, LinkStates
<1>6. Linked(f)
  BY <1>3, <1>5, NoneAssumption DEF Linked, SourceOf
<1> QED  BY <1>4, <1>6 DEF fact

\* The invariant holds at the start.
LEMMA InitInv ==
    ASSUME Init
    PROVE  Inv
<1>1. FactsOK
  <2>1. PICK url \in Urls, quote \in Quotes :
           facts = [id \in {1} |->
                       [FreshFact([url |-> url, quote |-> quote], {}) EXCEPT
                           !.must = TRUE, !.link.state = "ok"]]
    BY DEF Init
  <2>2. DOMAIN facts = {1} /\ Linked(facts[1])
    BY <2>1, FirstFactOK
  <2>3. 1 \in Codes
    BY BoundsAssumption DEF Codes
  <2> QED  BY <2>1, <2>2, <2>3 DEF FactsOK
<1>2. QuestionsOK
  BY BoundsAssumption DEF Init, QuestionsOK, Numbers
<1>3. QueueOK
  BY DEF Init, QueueOK, EmptyBag, SetToBag, IsABag
<1>4. CallsOK
  BY DEF Init, CallsOK, CallOK, Idle
<1>5. ScalarsOK
  BY BoundsAssumption DEF Init, ScalarsOK, GateRows, Numbers
<1> QED  BY <1>1, <1>2, <1>3, <1>4, <1>5 DEF Inv

-----------------------------------------------------------------------------
(* The steps of the calls.                                                 *)

\* What a call holds stays right while no fact goes away, and none does.
LEMMA CallOKGrows ==
    ASSUME NEW c, CallOK(c), DOMAIN facts \subseteq DOMAIN facts'
    PROVE  CallOK(c)'
BY DEF CallOK, LoadOK, SaveOK, LeftOK, GateOK, AiOK, WriteOK, DeleteOK, Linked, SourceOf

\* A step keeps every request in shape when the one it moves is.
LEMMA GoesOK ==
    ASSUME CallsOK, NEW t \in Threads, NEW local, Goes(t, local), CallOK(local),
           DOMAIN facts \subseteq DOMAIN facts'
    PROVE  CallsOK'
<1>1. call' = [u \in Threads |-> IF u = t THEN local ELSE call[u]]
  BY DEF Goes, CallsOK
<1>2. \A u \in Threads : CallOK(call[u])'
  <2> TAKE u \in Threads
  <2>1. PICK c : c = call'[u]
    OBVIOUS
  <2>2. CallOK(c)
    BY <1>1, <2>1 DEF CallsOK
  <2>3. CallOK(c)'
    BY <2>2, CallOKGrows
  <2> QED  BY <2>1, <2>3
<1> QED  BY <1>1, <1>2 DEF CallsOK

\* A thread without a request.
LEMMA IdleOK == CallOK(Idle) /\ Idle.op = "none"
BY DEF CallOK, Idle

\* A thread takes a request.
LEMMA BeginsInv ==
    ASSUME Inv, NEW t \in Threads, NEW local, Begins(t, local), CallOK(local)
    PROVE  Inv'
<1>1. CallsOK'
  BY GoesOK DEF Inv, Begins, Goes
<1>2. FactsOK' /\ QuestionsOK' /\ QueueOK'
  BY DEF Inv, Begins, FactsOK, QuestionsOK, QueueOK
<1>3. ScalarsOK'
  BY BoundsAssumption DEF Inv, Begins, ScalarsOK
<1> QED  BY <1>1, <1>2, <1>3 DEF Inv

\* A thread goes on, and nothing else changes.
LEMMA GoesInv ==
    ASSUME Inv, NEW t \in Threads, NEW local, Goes(t, local), CallOK(local),
           UNCHANGED <<facts, questions, gate, queue, bounds, used, table, orderly>>
    PROVE  Inv'
<1>1. CallsOK'
  BY GoesOK DEF Inv
<1>2. FactsOK' /\ QuestionsOK' /\ QueueOK' /\ ScalarsOK'
  BY DEF Inv, FactsOK, QuestionsOK, QueueOK, ScalarsOK, bounds
<1> QED  BY <1>1, <1>2 DEF Inv
-----------------------------------------------------------------------------
(* What a request reads.                                                   *)

\* The claims of a pasted answer are sources, of codes.
LEMMA PastedIs ==
    ASSUME NEW claims \in PastedClaims
    PROVE  \A id \in DOMAIN claims : id \in Codes /\ claims[id] \in Sources
<1>0. PICK n \in 1..MaxFacts : \E rows \in [1..n -> Rows] : claims = ParseResearchPaste(rows)
  BY DEF PastedClaims
<1>1. PICK rows \in [1..n -> Rows] : claims = ParseResearchPaste(rows)
  BY <1>0
<1> DEFINE read == {i \in DOMAIN rows : readClaim(rows[i])}
           latest(id) == Max({i \in read : rows[i].id = id})
<1>2. claims = [id \in {rows[i].id : i \in read} |-> SourceOf(rows[latest(id)])]
  BY <1>1 DEF ParseResearchPaste
<1>3. read \subseteq 1..n /\ \A i \in read : rows[i] \in Rows /\ readClaim(rows[i])
  OBVIOUS
<1>4. \A id \in DOMAIN claims : latest(id) \in read /\ rows[latest(id)].id = id
  <2> SUFFICES ASSUME NEW id \in DOMAIN claims
               PROVE  latest(id) \in {i \in read : rows[i].id = id}
    OBVIOUS
  <2> DEFINE S == {i \in read : rows[i].id = id}
  <2>1. S # {}
    BY <1>2
  <2>2. S \in SUBSET (0..n)
    BY <1>3
  <2> HIDE DEF S
  <2>3. Max(S) \in S
    <3>1. n \in Nat
      OBVIOUS
    <3> QED  BY <2>1, <2>2, <3>1, MaxIs
  <2> QED  BY <2>3 DEF S
<1> HIDE DEF read, latest
<1>5. ASSUME NEW r \in Rows, readClaim(r)
      PROVE  r.id \in Codes /\ SourceOf(r) \in Sources
  BY <1>5 DEF Rows, readClaim, SourceOf, Sources
<1>6. \A id \in DOMAIN claims : id \in Codes /\ claims[id] \in Sources
  BY <1>2, <1>3, <1>4, <1>5
<1> QED  BY <1>6

\* The number the next question takes is none of those it has to be past.
LEMMA NextQuestionIs ==
    ASSUME NEW counter \in 1..(MaxQuestions + 1), NEW existing \in SUBSET Numbers
    PROVE  /\ nextQuestionNumber(counter, existing) \in Nat \ {0}
           /\ counter <= nextQuestionNumber(counter, existing)
           /\ \A q \in existing : q < nextQuestionNumber(counter, existing)
<1> DEFINE S == {1, counter} \cup {q + 1 : q \in existing}
<1>1. S \in SUBSET (0..(MaxQuestions + 1)) /\ MaxQuestions + 1 \in Nat
  BY BoundsAssumption DEF Numbers
<1>2. 1 \in S /\ counter \in S /\ \A q \in existing : q + 1 \in S
  OBVIOUS
<1> HIDE DEF S
<1>3. S # {}
  BY <1>2
<1>4. Max(S) \in S /\ \A x \in S : x <= Max(S)
  BY <1>1, <1>3, MaxIs
<1>5. Max(S) \in Nat
  <2>1. Max(S) \in 0..(MaxQuestions + 1)
    BY <1>1, <1>4
  <2> QED  BY <2>1
<1>6. \A q \in existing : q < Max(S)
  <2> TAKE q \in existing
  <2>1. q \in Nat /\ q + 1 <= Max(S)
    BY <1>2, <1>4 DEF Numbers
  <2> QED  BY <1>5, <2>1
<1>7. Max(S) # 0 /\ counter <= Max(S)
  BY <1>2, <1>4, <1>5
<1> QED  BY <1>5, <1>6, <1>7 DEF nextQuestionNumber, S

\* A request that saves a fact is in shape.
LEMMA OnFactOK ==
    ASSUME NEW op \in OnFacts, NEW id \in Codes, NEW fact \in FactRows, NEW anew \in BOOLEAN,
           ~anew => Linked(fact), op # "paste"
    PROVE  CallOK(OnFact(op, id, fact, anew))
<1>1. PICK c : c = OnFact(op, id, fact, anew)
  OBVIOUS
<1>2. /\ c.op = op /\ c.at = "save" /\ c.id = id /\ c.fact = fact /\ c.anew = anew
      /\ c.left = {} /\ c.claims = <<>>
  BY <1>1 DEF OnFact
<1>3. LeftOK(c)
  BY <1>2 DEF LeftOK, OnFacts
<1> QED  BY <1>1, <1>2, <1>3 DEF CallOK, SaveOK

\* A request that goes through facts is in shape.
LEMMA OverFactsOK ==
    ASSUME NEW op \in {"paste", "verify"}, NEW ids, ids # {}, NEW claims,
           \/ op = "verify" /\ ids \subseteq DOMAIN facts /\ claims = <<>>
           \/ /\ op = "paste" /\ ids \subseteq DOMAIN claims
              /\ \A id \in DOMAIN claims : id \in Codes /\ claims[id] \in Sources
    PROVE  CallOK(OverFacts(op, ids, claims))
<1>1. PICK c : c = OverFacts(op, ids, claims)
  OBVIOUS
<1>2. c.op = op /\ c.at = "load" /\ c.left = ids /\ c.claims = claims
  BY <1>1 DEF OverFacts
<1>3. LeftOK(c)
  <2>1. DOMAIN <<>> = {}
    OBVIOUS
  <2> QED  BY <1>2, <2>1 DEF LeftOK
<1> QED  BY <1>1, <1>2, <1>3 DEF CallOK, LoadOK

\* A request that writes questions has numbers for them.
LEMMA WritingOK ==
    ASSUME NEW op \in OnNumbers, NEW n \in Nat \ {0}, NEW next \in Nat \ {0},
           next + n - 1 <= MaxQuestions, NEW was \in GateRows,
           NEW gone, op # "ask" => gone \subseteq Numbers
    PROVE  CallOK(Writing(op, n, next, was, gone))
<1>1. PICK c : c = Writing(op, n, next, was, gone)
  OBVIOUS
<1>2. [was EXCEPT !.next = next + n] \in GateRows /\ [was EXCEPT !.next = next + n].next = next + n
  BY BoundsAssumption DEF GateRows
<1>3. /\ c.op = op /\ c.at = "write" /\ c.left = n /\ c.next = next /\ c.gone = gone
      /\ c.gate = [was EXCEPT !.next = next + n]
  BY <1>1 DEF Writing
<1>4. WriteOK(c)
  BY <1>2, <1>3 DEF WriteOK, Generates
<1> QED  BY <1>1, <1>3, <1>4 DEF CallOK

\* Every request begins in shape.
LEMMA ServeInv ==
    ASSUME Inv, NEW t \in Threads, Serve(t)
    PROVE  Inv'
<1>1. CASE SetFactFlags(t)
  <2>1. PICK id \in DOMAIN facts, must \in BOOLEAN, keep \in BOOLEAN :
           Begins(t, OnFact("flags", id, [facts[id] EXCEPT !.must = must, !.keep = keep], FALSE))
    BY <1>1 DEF SetFactFlags
  <2>2. PICK f : f = [facts[id] EXCEPT !.must = must, !.keep = keep]
    OBVIOUS
  <2>3. id \in Codes /\ Linked(facts[id])
    BY DEF Inv, FactsOK
  <2>4. /\ f \in FactRows /\ f.link = facts[id].link
        /\ f.url = facts[id].url /\ f.quote = facts[id].quote
    BY <2>2, <2>3 DEF Linked, FactRows
  <2>5. Linked(f)
    BY <2>3, <2>4 DEF Linked, SourceOf
  <2>6. CallOK(OnFact("flags", id, f, FALSE))
    BY <2>3, <2>4, <2>5, OnFactOK DEF OnFacts
  <2> QED  BY <2>1, <2>2, <2>6, BeginsInv
<1>2. CASE EditFact(t)
  <2>1. PICK id \in DOMAIN facts, source \in Sources :
           Begins(t, OnFact("edit", id, Edited(facts[id], source), TRUE))
    BY <1>2 DEF EditFact
  <2>2. id \in Codes /\ Edited(facts[id], source) \in FactRows
    BY EditedOK DEF Inv, FactsOK, Linked
  <2>3. CallOK(OnFact("edit", id, Edited(facts[id], source), TRUE))
    BY <2>2, OnFactOK DEF OnFacts
  <2> QED  BY <2>1, <2>3, BeginsInv
<1>3. CASE AddFact(t)
  <2>1. PICK source \in Sources, mine \in SUBSET SourceFields, id \in Codes :
           Begins(t, OnFact("add", id, FreshFact(source, mine), TRUE))
    BY <1>3 DEF AddFact
  <2>2. CallOK(OnFact("add", id, FreshFact(source, mine), TRUE))
    BY FreshFactOK, OnFactOK DEF OnFacts
  <2> QED  BY <2>1, <2>2, BeginsInv
<1>4. CASE IngestPaste(t)
  <2>1. PICK claims \in PastedClaims :
           DOMAIN claims # {} /\ Begins(t, OverFacts("paste", DOMAIN claims, claims))
    BY <1>4 DEF IngestPaste
  <2>2. \A id \in DOMAIN claims : id \in Codes /\ claims[id] \in Sources
    BY PastedIs
  <2>3. CallOK(OverFacts("paste", DOMAIN claims, claims))
    BY <2>1, <2>2, OverFactsOK
  <2> QED  BY <2>1, <2>3, BeginsInv
<1>5. CASE Verify(t)
  <2>1. PICK ids \in (SUBSET DOMAIN facts) \ {{}} : Begins(t, OverFacts("verify", ids, <<>>))
    BY <1>5 DEF Verify
  <2>2. CallOK(OverFacts("verify", ids, <<>>))
    BY <2>1, OverFactsOK
  <2> QED  BY <2>1, <2>2, BeginsInv
<1>6. CASE SetSkipped(t)
  <2>1. PICK skipped \in BOOLEAN :
           Begins(t, [op |-> "skip", at |-> "saveGate", gate |-> [gate EXCEPT !.skipped = skipped]])
    BY <1>6 DEF SetSkipped
  <2>2. [gate EXCEPT !.skipped = skipped] \in GateRows
    BY DEF Inv, ScalarsOK, GateRows
  <2>3. CallOK([op |-> "skip", at |-> "saveGate", gate |-> [gate EXCEPT !.skipped = skipped]])
    BY <2>2 DEF CallOK, GateOK, OnGate, Generates
  <2> QED  BY <2>1, <2>3, BeginsInv
<1>7. CASE Approve(t)
  <2>1. PICK g : g = [gate EXCEPT !.status = "approved"]
    OBVIOUS
  <2>2. g \in GateRows /\ g.status = "approved"
    BY <2>1 DEF Inv, ScalarsOK, GateRows
  <2>3. CallOK([op |-> "approve", at |-> "check", gate |-> g])
    BY <2>2 DEF CallOK
  <2> QED  BY <1>7, <2>1, <2>3, BeginsInv DEF Approve
<1>8. CASE Unapprove(t)
  <2>1. PICK g : g = [gate EXCEPT !.status = "pending"]
    OBVIOUS
  <2>2. g \in GateRows
    BY <2>1 DEF Inv, ScalarsOK, GateRows
  <2>3. CallOK([op |-> "unapprove", at |-> "saveGate", gate |-> g])
    BY <2>2 DEF CallOK, GateOK, OnGate, Generates
  <2> QED  BY <1>8, <2>1, <2>3, BeginsInv DEF Unapprove
<1>9. CASE GenerateQuestions(t)
  <2>1. PICK op, gone :
           /\ op \in {"generate", "replace"} /\ gone \subseteq DOMAIN questions
           /\ Begins(t, [op |-> op, at |-> "ai", existing |-> DOMAIN questions, gone |-> gone])
    BY <1>9 DEF GenerateQuestions, Replaced
  <2>2. CallOK([op |-> op, at |-> "ai", existing |-> DOMAIN questions, gone |-> gone])
    BY <2>1 DEF CallOK, AiOK, Generates, Inv, QuestionsOK
  <2> QED  BY <2>1, <2>2, BeginsInv
<1>10. CASE AddQuestion(t)
  <2>1. PICK next : /\ next = nextQuestionNumber(gate.next, DOMAIN questions)
                    /\ next <= MaxQuestions /\ Begins(t, Writing("ask", 1, next, gate, {}))
    BY <1>10 DEF AddQuestion
  <2>2. gate.next \in 1..(MaxQuestions + 1) /\ gate \in GateRows /\ DOMAIN questions \subseteq Numbers
    BY DEF Inv, ScalarsOK, GateRows, QuestionsOK
  <2>3. next \in Nat \ {0}
    BY <2>1, <2>2, NextQuestionIs
  <2>4. next + 1 - 1 <= MaxQuestions
    BY <2>1, <2>3
  <2>5. CallOK(Writing("ask", 1, next, gate, {}))
    BY <2>2, <2>3, <2>4, WritingOK DEF OnNumbers
  <2> QED  BY <2>1, <2>5, BeginsInv
<1>11. CASE EditQuestion(t)
  <2>1. PICK q \in DOMAIN questions : Begins(t, [op |-> "reword", at |-> "reword", q |-> q])
    BY <1>11 DEF EditQuestion
  <2>2. CallOK([op |-> "reword", at |-> "reword", q |-> q])
    BY DEF CallOK, Inv, QuestionsOK
  <2> QED  BY <2>1, <2>2, BeginsInv
<1>12. CASE DeleteQuestion(t)
  <2>1. PICK q \in DOMAIN questions : Begins(t, [op |-> "drop", at |-> "delete", gone |-> {q}])
    BY <1>12 DEF DeleteQuestion
  <2>2. CallOK([op |-> "drop", at |-> "delete", gone |-> {q}])
    BY DEF CallOK, DeleteOK, Inv, QuestionsOK
  <2> QED  BY <2>1, <2>2, BeginsInv
<1> QED
  BY <1>1, <1>2, <1>3, <1>4, <1>5, <1>6, <1>7, <1>8, <1>9, <1>10, <1>11, <1>12 DEF Serve
-----------------------------------------------------------------------------
(* The steps of a request.                                                 *)

\* Where a call is says what is known of it.
LEMMA AtIs ==
    ASSUME Inv, NEW t \in Threads, call[t].op # "none"
    PROVE  /\ CallOK(call[t])
           /\ call[t].at = "load" => LoadOK(call[t])
           /\ call[t].at = "save" => SaveOK(call[t])
           /\ call[t].at = "reopen" => call[t].op \in OnFacts
           /\ call[t].at = "saveGate" => GateOK(call[t])
           /\ call[t].at = "ai" => AiOK(call[t])
           /\ call[t].at = "write" => WriteOK(call[t])
           /\ call[t].at = "delete" => DeleteOK(call[t])
BY DEF Inv, CallsOK, CallOK

\* A fact is stored, and its check queued when it is new.
LEMMA JobQueued ==
    ASSUME QueueOK, NEW job, job.source.url # NoUrl
    PROVE  IsABag(BagAdd(queue, job)) /\ \A j \in DOMAIN BagAdd(queue, job) : j.source.url # NoUrl
<1>1. CASE job \in DOMAIN queue
  <2>1. BagAdd(queue, job) = [j \in DOMAIN queue |-> IF j = job THEN queue[j] + 1 ELSE queue[j]]
    BY <1>1 DEF BagAdd
  <2> QED  BY <2>1 DEF QueueOK, IsABag
<1>2. CASE job \notin DOMAIN queue
  <2>1. BagAdd(queue, job) = [j \in DOMAIN queue \cup {job} |-> IF j = job THEN 1 ELSE queue[j]]
    BY <1>2 DEF BagAdd
  <2> QED  BY <2>1 DEF QueueOK, IsABag
<1> QED  BY <1>1, <1>2

\* A check that ends leaves the others.
LEMMA JobTaken ==
    ASSUME QueueOK, NEW job
    PROVE  IsABag(BagRemove(queue, job)) /\ DOMAIN BagRemove(queue, job) \subseteq DOMAIN queue
<1>1. CASE job \in DOMAIN queue /\ queue[job] = 1
  <2>1. BagRemove(queue, job) = [j \in DOMAIN queue \ {job} |-> queue[j]]
    BY <1>1 DEF BagRemove
  <2> QED  BY <2>1 DEF QueueOK, IsABag
<1>2. CASE job \in DOMAIN queue /\ queue[job] # 1
  <2>1. BagRemove(queue, job) = [j \in DOMAIN queue |-> IF j = job THEN queue[j] - 1 ELSE queue[j]]
    BY <1>2 DEF BagRemove
  <2> QED  BY <1>2, <2>1 DEF QueueOK, IsABag
<1>3. CASE job \notin DOMAIN queue
  BY <1>3 DEF BagRemove, QueueOK
<1> QED  BY <1>1, <1>2, <1>3

\* A pasted claim is merged or added.
LEMMA LoadClaimInv ==
    ASSUME Inv, NEW t \in Threads, LoadClaim(t)
    PROVE  Inv'
<1>1. PICK id, claim, fact, anew :
         /\ id \in call[t].left
         /\ claim = call[t].claims[id]
         /\ fact = IF id \in DOMAIN facts THEN mergePasted(facts[id], claim)
                   ELSE FreshFact(claim, {})
         /\ anew = (id \notin DOMAIN facts \/ SourceOf(fact) # SourceOf(facts[id]))
         /\ Goes(t, ToSave(call[t], id, fact, anew))
  BY DEF LoadClaim
<1>2. call[t].op = "paste" /\ LeftOK(call[t])
  BY AtIs DEF LoadClaim, LoadOK
<1>3. id \in Codes /\ claim \in Sources
  BY <1>1, <1>2 DEF LeftOK
<1>4. fact \in FactRows /\ (~anew => Linked(fact))
  <2>1. CASE id \in DOMAIN facts
    <3>1. Linked(facts[id])
      BY <2>1 DEF Inv, FactsOK
    <3> QED  BY <1>1, <1>3, <2>1, <3>1, MergePastedOK
  <2>2. CASE id \notin DOMAIN facts
    BY <1>1, <1>3, <2>2, FreshFactOK
  <2> QED  BY <2>1, <2>2
<1>5. anew \in BOOLEAN
  BY <1>1
<1>6. PICK c : c = ToSave(call[t], id, fact, anew)
  OBVIOUS
<1>7. /\ c.op = "paste" /\ c.at = "save" /\ c.id = id /\ c.fact = fact /\ c.anew = anew
      /\ c.left = call[t].left \ {id} /\ c.claims = call[t].claims
  BY <1>2, <1>6 DEF ToSave
<1>8. LeftOK(c)
  BY <1>2, <1>7 DEF LeftOK
<1>9. CallOK(c)
  BY <1>3, <1>4, <1>5, <1>7, <1>8 DEF CallOK, SaveOK, OnFacts
<1> QED  BY <1>1, <1>6, <1>9, GoesInv DEF LoadClaim

\* A fact to check again is read.
LEMMA LoadToVerifyInv ==
    ASSUME Inv, NEW t \in Threads, LoadToVerify(t)
    PROVE  Inv'
<1>1. PICK id : id = Min(call[t].left)
  OBVIOUS
<1>2. call[t].op = "verify" /\ LeftOK(call[t]) /\ call[t].left # {}
  BY AtIs DEF LoadToVerify, LoadOK
<1>3. call[t].left \in SUBSET Nat
  BY <1>2 DEF LeftOK, Inv, FactsOK, Codes
<1>4. id \in call[t].left
  BY <1>1, <1>2, <1>3, MinIs
<1>5. id \in Codes /\ facts[id] \in FactRows
  BY <1>2, <1>4 DEF LeftOK, Inv, FactsOK, Linked
<1>6. PICK c : c = ToSave(call[t], id, facts[id], TRUE)
  OBVIOUS
<1>7. /\ c.op = "verify" /\ c.at = "save" /\ c.id = id /\ c.fact = facts[id] /\ c.anew = TRUE
      /\ c.left = call[t].left \ {id} /\ c.claims = call[t].claims
  BY <1>2, <1>6 DEF ToSave
<1>8. LeftOK(c)
  BY <1>2, <1>7 DEF LeftOK
<1>9. CallOK(c)
  BY <1>5, <1>7, <1>8 DEF CallOK, SaveOK
<1> QED  BY <1>1, <1>6, <1>9, GoesInv DEF LoadToVerify

\* A saved fact is linked: either its check is new, or its source is not.
LEMMA SaveFactInv ==
    ASSUME Inv, NEW t \in Threads, SaveFact(t)
    PROVE  Inv'
<1>1. PICK c, saved : c = call[t] /\ saved = Marked(c.fact, c.anew)
  OBVIOUS
<1>2. SaveOK(c) /\ c.op # "none"
  BY <1>1, AtIs DEF SaveFact
<1>3. Linked(saved)
  BY <1>1, <1>2, MarkedOK DEF SaveOK
<1>4. /\ facts' = [id \in DOMAIN facts \cup {c.id} |-> IF id = c.id THEN saved ELSE facts[id]]
      /\ UNCHANGED <<questions, gate, bounds, used, table, orderly>>
  BY <1>1 DEF SaveFact
<1>5. FactsOK'
  <2>1. DOMAIN facts' = DOMAIN facts \cup {c.id} /\ DOMAIN facts' \subseteq Codes
    BY <1>2, <1>4 DEF SaveOK, Inv, FactsOK
  <2>2. \A id \in DOMAIN facts' : Linked(facts'[id])
    BY <1>3, <1>4 DEF Inv, FactsOK
  <2>3. facts' = [id \in DOMAIN facts' |-> facts'[id]]
    BY <1>4
  <2> QED  BY <2>1, <2>2, <2>3 DEF FactsOK, Linked, SourceOf
<1>6. QueueOK'
  <2>1. CASE c.anew /\ saved.link.state = "run"
    <3>1. PICK job : job = [id |-> c.id, source |-> SourceOf(saved)]
      OBVIOUS
    <3>2. queue' = BagAdd(queue, job)
      BY <1>1, <2>1, <3>1 DEF SaveFact
    <3>3. job.source.url # NoUrl
      BY <1>3, <2>1, <3>1 DEF Linked, SourceOf
    <3> QED  BY <3>2, <3>3, JobQueued DEF Inv, QueueOK
  <2>2. CASE ~(c.anew /\ saved.link.state = "run")
    BY <1>1, <2>2 DEF SaveFact, Inv, QueueOK
  <2> QED  BY <2>1, <2>2
<1>7. CallsOK'
  <2>1. DOMAIN facts \subseteq DOMAIN facts'
    BY <1>4
  <2>2. CASE c.left # {}
    <3>1. CallOK(OverFacts(c.op, c.left, c.claims))
      <4>1. PICK d : d = OverFacts(c.op, c.left, c.claims)
        OBVIOUS
      <4>2. d.op = c.op /\ d.at = "load" /\ d.left = c.left /\ d.claims = c.claims
        BY <4>1 DEF OverFacts
      <4>3. LeftOK(d) /\ c.op \in {"paste", "verify"}
        BY <1>2, <2>2, <4>2 DEF SaveOK, LeftOK
      <4> QED  BY <2>2, <4>1, <4>2, <4>3 DEF CallOK, LoadOK
    <3>2. Goes(t, OverFacts(c.op, c.left, c.claims))
      BY <1>1, <2>2 DEF SaveFact
    <3> QED  BY <2>1, <3>1, <3>2, GoesOK DEF Inv
  <2>3. CASE c.left = {} /\ c.op = "verify"
    <3>1. Goes(t, Idle)
      BY <1>1, <2>3 DEF SaveFact, Returns
    <3> QED  BY <2>1, <3>1, IdleOK, GoesOK DEF Inv
  <2>4. CASE c.left = {} /\ c.op # "verify"
    <3>1. Goes(t, [op |-> c.op, at |-> "reopen"])
      BY <1>1, <2>4 DEF SaveFact
    <3>2. CallOK([op |-> c.op, at |-> "reopen"])
      BY <1>2, <2>4 DEF CallOK, SaveOK
    <3> QED  BY <2>1, <3>1, <3>2, GoesOK DEF Inv
  <2> QED  BY <2>2, <2>3, <2>4
<1>8. QuestionsOK' /\ ScalarsOK'
  BY <1>4 DEF Inv, QuestionsOK, ScalarsOK, bounds
<1> QED  BY <1>5, <1>6, <1>7, <1>8 DEF Inv

\* The gate is read to be sent back.
LEMMA ReopenInv ==
    ASSUME Inv, NEW t \in Threads, reopenGate(t)
    PROVE  Inv'
<1>1. call[t].op \in OnFacts
  BY AtIs DEF reopenGate
<1>2. CASE gate.status # "approved"
  BY <1>2, IdleOK, GoesInv DEF reopenGate, Returns
<1>3. CASE gate.status = "approved"
  <2>1. PICK g : g = [gate EXCEPT !.status = "pending"]
    OBVIOUS
  <2>2. g \in GateRows
    BY <2>1 DEF Inv, ScalarsOK, GateRows
  <2>3. CallOK([op |-> call[t].op, at |-> "saveGate", gate |-> g])
    BY <1>1, <2>2 DEF CallOK, GateOK, Generates, OnFacts
  <2> QED  BY <1>3, <2>1, <2>3, GoesInv DEF reopenGate
<1> QED  BY <1>2, <1>3

\* The approval is checked.
LEMMA CheckApprovableInv ==
    ASSUME Inv, NEW t \in Threads, CheckApprovable(t)
    PROVE  Inv'
<1>1. PICK local : local = [op |-> "approve", at |-> "saveGate", gate |-> call[t].gate]
  OBVIOUS
<1>2. call[t].gate \in GateRows
  BY DEF Inv, CallsOK, CallOK, CheckApprovable
<1>3. CallOK(local)
  BY <1>1, <1>2 DEF CallOK, GateOK, OnGate, Generates
<1>4. Goes(t, local) \/ Goes(t, Idle)
  BY <1>1 DEF CheckApprovable, Returns
<1> QED  BY <1>3, <1>4, IdleOK, GoesInv DEF CheckApprovable

\* The gate row is replaced by one in shape.
LEMMA SaveGateInv ==
    ASSUME Inv, NEW t \in Threads, saveGate(t)
    PROVE  Inv'
<1>1. PICK c : c = call[t]
  OBVIOUS
<1>2. GateOK(c)
  BY <1>1, AtIs DEF saveGate
<1>3. CallsOK'
  <2>1. UNCHANGED facts
    BY DEF saveGate
  <2>2. CASE Generates(c) /\ c.gone # {}
    <3>1. CallOK([op |-> c.op, at |-> "delete", gone |-> c.gone])
      BY <1>2, <2>2 DEF CallOK, DeleteOK, GateOK, Generates
    <3>2. Goes(t, [op |-> c.op, at |-> "delete", gone |-> c.gone])
      BY <1>1, <2>2 DEF saveGate
    <3> QED  BY <2>1, <3>1, <3>2, GoesOK DEF Inv
  <2>3. CASE ~(Generates(c) /\ c.gone # {})
    <3>1. Goes(t, Idle)
      BY <1>1, <2>3 DEF saveGate, Returns
    <3> QED  BY <2>1, <3>1, IdleOK, GoesOK DEF Inv
  <2> QED  BY <2>2, <2>3
<1>4. FactsOK' /\ QuestionsOK' /\ QueueOK'
  BY DEF Inv, FactsOK, QuestionsOK, QueueOK, saveGate
<1>5. ScalarsOK'
  BY <1>1, <1>2 DEF Inv, ScalarsOK, saveGate, GateOK, bounds
<1> QED  BY <1>3, <1>4, <1>5 DEF Inv

\* The model's reply is taken up.
LEMMA OnQuestionsInv ==
    ASSUME Inv, NEW t \in Threads, OnQuestions(t)
    PROVE  Inv'
<1>1. AiOK(call[t])
  BY AtIs DEF OnQuestions, Generates
<1>2. CASE Returns(t)
  BY <1>2, IdleOK, GoesInv DEF OnQuestions, Returns
<1>3. CASE ~Returns(t)
  <2>1. PICK next : next = nextQuestionNumber(gate.next, call[t].existing)
    OBVIOUS
  <2>2. PICK n \in QuestionsInReply(next) :
           Goes(t, Writing(call[t].op, n, next, gate, call[t].gone))
    BY <1>3, <2>1 DEF OnQuestions
  <2>3. gate.next \in 1..(MaxQuestions + 1) /\ gate \in GateRows
    BY DEF Inv, ScalarsOK, GateRows
  <2>4. next \in Nat \ {0}
    BY <1>1, <2>1, <2>3, NextQuestionIs DEF AiOK
  <2>5. n \in Nat \ {0} /\ next + n - 1 <= MaxQuestions
    BY <2>2 DEF QuestionsInReply, MaxGeneratedQuestions
  <2>6. CallOK(Writing(call[t].op, n, next, gate, call[t].gone))
    BY <1>1, <2>3, <2>4, <2>5, WritingOK DEF AiOK, Generates, OnNumbers
  <2> QED  BY <2>2, <2>6, GoesInv DEF OnQuestions
<1> QED  BY <1>2, <1>3

\* A question is written, and the numbers left still fit the gate's.
LEMMA WriteQuestionInv ==
    ASSUME Inv, NEW t \in Threads, WriteQuestion(t)
    PROVE  Inv'
<1>1. PICK c : c = call[t]
  OBVIOUS
<1>2. WriteOK(c)
  BY <1>1, AtIs DEF WriteQuestion
<1>3. c.next \in Numbers /\ c.next \in Nat /\ c.left \in Nat /\ c.left # 0
  BY <1>2, BoundsAssumption DEF WriteOK, GateRows, Numbers
<1>4. PICK d : d = [op |-> c.op, at |-> IF c.left = 1 THEN "saveGate" ELSE "write",
                    left |-> c.left - 1, next |-> c.next + 1, gate |-> c.gate, gone |-> c.gone]
  OBVIOUS
<1>5. CallOK(d)
  <2>1. CASE c.left = 1
    BY <1>2, <1>4, <2>1 DEF CallOK, GateOK, WriteOK, Generates
  <2>2. CASE c.left # 1
    <3>1. /\ d.op = c.op /\ d.at = "write" /\ d.left = c.left - 1 /\ d.next = c.next + 1
          /\ d.gate = c.gate /\ d.gone = c.gone
      BY <1>4, <2>2
    <3>2. d.left \in Nat \ {0} /\ d.next \in Nat \ {0} /\ d.next + d.left = c.next + c.left
      BY <1>3, <2>2, <3>1
    <3> QED  BY <1>2, <3>1, <3>2 DEF CallOK, WriteOK, Generates
  <2> QED  BY <2>1, <2>2
<1>6. Goes(t, d) /\ UNCHANGED facts
  BY <1>1, <1>4 DEF WriteQuestion
<1>7. CallsOK'
  BY <1>5, <1>6, GoesOK DEF Inv
<1>8. FactsOK' /\ QueueOK'
  BY DEF Inv, FactsOK, QueueOK, WriteQuestion
<1>9. QuestionsOK'
  <2>1. questions' = [p \in DOMAIN questions \cup {c.next} |->
                         IF p = c.next THEN c.op = "ask" ELSE questions[p]]
    BY <1>1 DEF WriteQuestion, saveResearchQuestionUnit
  <2>2. (c.op = "ask") \in BOOLEAN
    OBVIOUS
  <2> QED  BY <1>3, <2>1, <2>2 DEF Inv, QuestionsOK
<1>10. ScalarsOK'
  BY <1>1, <1>3 DEF Inv, ScalarsOK, WriteQuestion, bounds
<1> QED  BY <1>7, <1>8, <1>9, <1>10 DEF Inv

\* A question is reworded.
LEMMA SaveWordingInv ==
    ASSUME Inv, NEW t \in Threads, SaveWording(t)
    PROVE  Inv'
<1>1. CallsOK'
  BY IdleOK, GoesOK DEF Inv, SaveWording, Returns
<1>2. PICK q : q = call[t].q
  OBVIOUS
<1>3. q \in Numbers
  BY <1>2 DEF Inv, CallsOK, CallOK, SaveWording, LoadOK, SaveOK, GateOK, AiOK, WriteOK, DeleteOK,
              OnFacts, OnGate, OnNumbers, Generates
<1>4. questions' = [p \in DOMAIN questions \cup {q} |-> IF p = q THEN TRUE ELSE questions[p]]
  BY <1>2 DEF SaveWording, saveResearchQuestionUnit
<1>5. QuestionsOK'
  BY <1>3, <1>4 DEF Inv, QuestionsOK
<1>6. FactsOK' /\ QueueOK' /\ ScalarsOK'
  BY DEF Inv, FactsOK, QueueOK, ScalarsOK, SaveWording, bounds
<1> QED  BY <1>1, <1>5, <1>6 DEF Inv

\* A question is removed.
LEMMA RemoveQuestionInv ==
    ASSUME Inv, NEW t \in Threads, RemoveQuestion(t)
    PROVE  Inv'
<1>1. PICK c, q : c = call[t] /\ q = Min(c.gone)
  OBVIOUS
<1>2. DeleteOK(c)
  BY <1>1, AtIs DEF RemoveQuestion
<1>3. questions' = [p \in DOMAIN questions \ {q} |-> questions[p]] /\ UNCHANGED facts
  BY <1>1 DEF RemoveQuestion, deleteResearchQuestionUnit
<1>4. CallsOK'
  <2>1. CASE c.gone = {q}
    BY <1>1, <1>3, <2>1, IdleOK, GoesOK DEF Inv, RemoveQuestion, Returns
  <2>2. CASE c.gone # {q}
    <3>1. q \in c.gone
      BY <1>1, <1>2, MinIs DEF DeleteOK, Numbers
    <3>2. CallOK([op |-> c.op, at |-> "delete", gone |-> c.gone \ {q}])
      BY <1>2, <2>2, <3>1 DEF CallOK, DeleteOK
    <3>3. Goes(t, [op |-> c.op, at |-> "delete", gone |-> c.gone \ {q}])
      BY <1>1, <2>2 DEF RemoveQuestion
    <3> QED  BY <1>3, <3>2, <3>3, GoesOK DEF Inv
  <2> QED  BY <2>1, <2>2
<1>5. QuestionsOK'
  BY <1>3 DEF Inv, QuestionsOK
<1>6. FactsOK' /\ QueueOK' /\ ScalarsOK'
  BY DEF Inv, FactsOK, QueueOK, ScalarsOK, RemoveQuestion, bounds
<1> QED  BY <1>4, <1>5, <1>6 DEF Inv

-----------------------------------------------------------------------------
(* The background checks, a restart, and every step.                       *)

\* A check finds something of a link there is.
LEMMA CheckFinds ==
    ASSUME NEW source, NEW state \in check(source)
    PROVE  state \in LinkStates \ {"none"}
BY DEF check, LinkStates

\* A check's result is of the source the fact still cites, or is dropped.
LEMMA CheckInv ==
    ASSUME Inv, Check
    PROVE  Inv'
<1>1. PICK job \in DOMAIN queue : \E state \in check(job.source) :
         /\ queue' = BagRemove(queue, job)
         /\ facts' = [facts EXCEPT ![job.id] = SaveFactLink(@, job, state)]
  BY DEF Check, BagToSet
<1>2. PICK state \in check(job.source) :
         /\ queue' = BagRemove(queue, job)
         /\ facts' = [facts EXCEPT ![job.id] = SaveFactLink(@, job, state)]
  BY <1>1
<1>3. UNCHANGED <<questions, gate, call, bounds, used, table, orderly>>
  BY DEF Check
<1>4. state \in LinkStates \ {"none"} /\ job.source.url # NoUrl
  BY CheckFinds DEF Inv, QueueOK
<1>5. FactsOK' /\ DOMAIN facts' = DOMAIN facts
  <2>1. facts' = [id \in DOMAIN facts |->
                     IF id = job.id THEN SaveFactLink(facts[id], job, state) ELSE facts[id]]
    BY <1>2 DEF Inv, FactsOK
  <2>2. \A id \in DOMAIN facts : Linked(SaveFactLink(facts[id], job, state)) /\ Linked(facts[id])
    BY <1>4, SaveFactLinkOK DEF Inv, FactsOK
  <2>3. \A id \in DOMAIN facts : Linked(facts'[id])
    BY <2>1, <2>2
  <2> QED  BY <2>1, <2>3 DEF Inv, FactsOK, Linked, SourceOf
<1>6. QueueOK'
  BY <1>2, JobTaken DEF Inv, QueueOK
<1>7. CallsOK'
  <2>1. \A t \in Threads : CallOK(call[t])'
    <3> TAKE t \in Threads
    <3>1. PICK c : c = call[t]
      OBVIOUS
    <3>2. CallOK(c)'
      BY <1>5, <3>1, CallOKGrows DEF Inv, CallsOK
    <3> QED  BY <1>3, <3>1, <3>2
  <2> QED  BY <1>3, <2>1 DEF Inv, CallsOK
<1>8. QuestionsOK' /\ ScalarsOK'
  BY <1>3 DEF Inv, QuestionsOK, ScalarsOK, bounds
<1> QED  BY <1>5, <1>6, <1>7, <1>8 DEF Inv

\* A restart leaves no request and no check.
LEMMA RestartInv ==
    ASSUME Inv, Restart
    PROVE  Inv'
<1>1. FactsOK'
  <2>1. facts' = [id \in DOMAIN facts |-> Interrupted(facts[id])]
    BY DEF Restart
  <2>2. \A id \in DOMAIN facts : Linked(Interrupted(facts[id]))
    BY InterruptedOK DEF Inv, FactsOK
  <2>3. \A id \in DOMAIN facts : Linked(facts'[id])
    BY <2>1, <2>2
  <2> QED  BY <2>1, <2>3 DEF Inv, FactsOK, Linked, SourceOf
<1>2. QueueOK'
  BY DEF Restart, QueueOK, EmptyBag, SetToBag, IsABag
<1>3. CallsOK'
  BY DEF Restart, CallsOK, CallOK, Idle
<1>4. QuestionsOK' /\ ScalarsOK'
  BY BoundsAssumption DEF Inv, QuestionsOK, ScalarsOK, Restart
<1> QED  BY <1>1, <1>2, <1>3, <1>4 DEF Inv

\* Nothing changes.
LEMMA StutterInv ==
    ASSUME Inv, UNCHANGED vars
    PROVE  Inv'
<1>1. FactsOK' /\ QuestionsOK' /\ QueueOK' /\ ScalarsOK'
  BY DEF Inv, FactsOK, QuestionsOK, QueueOK, ScalarsOK, vars, bounds
<1>2. CallsOK'
  <2>1. \A t \in Threads : CallOK(call[t])'
    <3> TAKE t \in Threads
    <3>1. PICK c : c = call[t]
      OBVIOUS
    <3>2. CallOK(c)'
      BY <3>1, CallOKGrows DEF Inv, CallsOK, vars
    <3> QED  BY <3>1, <3>2 DEF vars
  <2> QED  BY <2>1 DEF Inv, CallsOK, vars
<1> QED  BY <1>1, <1>2 DEF Inv

\* Every step keeps the invariant.
LEMMA InvStep ==
    ASSUME Inv, [Next]_vars
    PROVE  Inv'
<1>1. CASE UNCHANGED vars
  BY <1>1, StutterInv
<1>2. ASSUME NEW t \in Threads, Serve(t)  PROVE Inv'
  BY <1>2, ServeInv
<1>3. ASSUME NEW t \in Threads, Step(t)  PROVE Inv'
  BY <1>3, LoadClaimInv, LoadToVerifyInv, SaveFactInv, ReopenInv, CheckApprovableInv,
     SaveGateInv, OnQuestionsInv, WriteQuestionInv, SaveWordingInv, RemoveQuestionInv DEF Step
<1>4. CASE Check
  BY <1>4, CheckInv
<1>5. CASE Restart
  BY <1>5, RestartInv
<1> QED  BY <1>1, <1>2, <1>3, <1>4, <1>5 DEF Next

\* Whatever requests overlap, what was read and what is stored stay in shape, and
\* every link is of its fact's source.
THEOREM InvAlways == Spec => []Inv
<1>1. Init => Inv
  BY InitInv
<1>2. Inv /\ [Next]_vars => Inv'
  BY InvStep
<1> QED  BY <1>1, <1>2, PTL DEF Spec
-----------------------------------------------------------------------------
(* One request at a time.                                                  *)

Given == \A q \in used : q < gate.next

\* Rows that change in nothing the Creator approves leave the table as it was.
LEMMA TableSame ==
    ASSUME NEW f, NEW g, DOMAIN f = DOMAIN g,
           \A id \in DOMAIN f : SourceOf(f[id]) = SourceOf(g[id]) /\ f[id].keep = g[id].keep
    PROVE  TableOf(f) = TableOf(g)
BY DEF TableOf

\* It holds at the start, where no request is served.
LEMMA InitSerial ==
    ASSUME Init
    PROVE  UsedOK /\ OneAtATime /\ Between
<1>1. \A t \in Threads : call[t].op = "none"
  BY DEF Init, Idle
<1>2. UsedOK
  BY <1>1 DEF Init, UsedOK
<1>3. AsApproved /\ \A q \in used : q < gate.next
  BY DEF Init, AsApproved
<1> QED  BY <1>1, <1>2, <1>3 DEF OneAtATime, Between

\* A request that finds the others done starts from a table that stands.
LEMMA BeginsSerial ==
    ASSUME Inv, Between, NEW t \in Threads, NEW local, Begins(t, local), local.op # "none",
           AsApproved /\ Given => (Mends(local) \/ Keeps(local)) /\ Counts(local)
    PROVE  OneAtATime' /\ Between'
<1>1. call' = [u \in Threads |-> IF u = t THEN local ELSE call[u]]
  BY DEF Begins, Inv, CallsOK
<1>2. ASSUME orderly'
      PROVE  /\ \A u \in Threads : call[u].op = "none"
             /\ (Mends(local) \/ Keeps(local)) /\ Counts(local)
  <2>1. orderly /\ \A u \in Threads : call[u] = Idle
    BY <1>2 DEF Begins
  <2>2. \A u \in Threads : call[u].op = "none"
    BY <2>1 DEF Idle
  <2>3. AsApproved /\ Given
    BY <2>1, <2>2 DEF Between, Given
  <2> QED  BY <2>2, <2>3
<1>3. /\ Mends(local) => Mends(local)'
      /\ Keeps(local) => Keeps(local)'
      /\ Counts(local) => Counts(local)'
  BY DEF Begins, Mends, Keeps, Counts, AsApproved, TableOf, SourceOf
<1>4. OneAtATime'
  <2> SUFFICES ASSUME orderly', NEW u \in Threads, call'[u].op # "none"
               PROVE  /\ \A other \in Threads \ {u} : call'[other].op = "none"
                      /\ (Mends(call[u]) \/ Keeps(call[u]))' /\ Counts(call[u])'
    BY DEF OneAtATime
  <2>1. u = t /\ call'[u] = local
    BY <1>1, <1>2
  <2>2. (Mends(local) \/ Keeps(local))' /\ Counts(local)'
    BY <1>2, <1>3
  <2> QED  BY <1>1, <1>2, <2>1, <2>2
<1>5. Between'
  BY <1>1 DEF Between
<1> QED  BY <1>4, <1>5

\* The one request there is goes on, or ends.
LEMMA GoesSerial ==
    ASSUME Inv, OneAtATime, NEW t \in Threads, call[t].op # "none",
           NEW local, Goes(t, local), UNCHANGED orderly,
           orderly /\ (Mends(call[t]) \/ Keeps(call[t])) /\ Counts(call[t]) =>
              \/ local.op = "none" /\ AsApproved' /\ Given'
              \/ local.op # "none" /\ (Mends(local) \/ Keeps(local))' /\ Counts(local)'
    PROVE  OneAtATime' /\ Between'
<1>1. call' = [u \in Threads |-> IF u = t THEN local ELSE call[u]]
  BY DEF Goes, Inv, CallsOK
<1>2. CASE ~orderly
  BY <1>2 DEF OneAtATime, Between
<1>3. CASE orderly
  <2>1. /\ \A other \in Threads \ {t} : call[other].op = "none"
        /\ Mends(call[t]) \/ Keeps(call[t])
        /\ Counts(call[t])
    BY <1>3 DEF OneAtATime
  <2>2. \A u \in Threads \ {t} : call'[u].op = "none"
    BY <1>1, <2>1
  <2>3. call'[t] = local
    BY <1>1
  <2>4. CASE local.op = "none" /\ AsApproved' /\ Given'
    BY <2>2, <2>3, <2>4 DEF OneAtATime, Between, Given
  <2>5. CASE local.op # "none" /\ (Mends(local) \/ Keeps(local))' /\ Counts(local)'
    <3>1. (Mends(call[t]) \/ Keeps(call[t]))' /\ Counts(call[t])'
      BY <2>3, <2>5
    <3> QED  BY <2>2, <2>3, <2>5, <3>1 DEF OneAtATime, Between
  <2> QED  BY <1>3, <2>1, <2>4, <2>5
<1> QED  BY <1>2, <1>3 DEF Inv, ScalarsOK
\* A request on the facts mends what it breaks; the others break nothing.
LEMMA OnFactsMends ==
    ASSUME NEW c, c.op \in OnFacts, c.at # "saveGate" \/ c.gate.status = "pending"
    PROVE  Mends(c) /\ ~Keeps(c) /\ c.op # "none"
BY DEF Mends, Keeps, OnFacts

\* A request that is not on a fact keeps.
LEMMA OthersKeep ==
    ASSUME NEW c, c.op \notin OnFacts, Mends(c) \/ Keeps(c)
    PROVE  Keeps(c)
BY DEF Mends

\* A request that numbers no question.
LEMMA NumbersNone ==
    ASSUME NEW c, c.op \notin OnNumbers \/ c.at \notin {"write", "saveGate"}, Given,
           c.at \notin {"check", "saveGate"} \/ \A q \in used : q < c.gate.next,
           c.at # "write"
    PROVE  Counts(c)
BY DEF Counts, Given

\* A request begins when no other is served, or the history says it did not.
LEMMA ServeSerial ==
    ASSUME Inv, Between, NEW t \in Threads, Serve(t)
    PROVE  OneAtATime' /\ Between'
<1>1. ASSUME NEW local, Begins(t, local), local.op \in OnFacts, local.at \in {"save", "load"}
      PROVE  OneAtATime' /\ Between'
  BY <1>1, OnFactsMends, NumbersNone, BeginsSerial
<1>2. CASE SetFactFlags(t)
  <2>1. PICK id, fact : Begins(t, OnFact("flags", id, fact, FALSE))
    BY <1>2 DEF SetFactFlags
  <2>2. OnFact("flags", id, fact, FALSE).op = "flags" /\ OnFact("flags", id, fact, FALSE).at = "save"
    BY DEF OnFact
  <2> QED  BY <1>1, <2>1, <2>2 DEF OnFacts
<1>3. CASE EditFact(t)
  <2>1. PICK id, fact : Begins(t, OnFact("edit", id, fact, TRUE))
    BY <1>3 DEF EditFact
  <2>2. OnFact("edit", id, fact, TRUE).op = "edit" /\ OnFact("edit", id, fact, TRUE).at = "save"
    BY DEF OnFact
  <2> QED  BY <1>1, <2>1, <2>2 DEF OnFacts
<1>4. CASE AddFact(t)
  <2>1. PICK id, fact : Begins(t, OnFact("add", id, fact, TRUE))
    BY <1>4 DEF AddFact
  <2>2. OnFact("add", id, fact, TRUE).op = "add" /\ OnFact("add", id, fact, TRUE).at = "save"
    BY DEF OnFact
  <2> QED  BY <1>1, <2>1, <2>2 DEF OnFacts
<1>5. CASE IngestPaste(t)
  <2>1. PICK claims : Begins(t, OverFacts("paste", DOMAIN claims, claims))
    BY <1>5 DEF IngestPaste
  <2>2. /\ OverFacts("paste", DOMAIN claims, claims).op = "paste"
        /\ OverFacts("paste", DOMAIN claims, claims).at = "load"
    BY DEF OverFacts
  <2> QED  BY <1>1, <2>1, <2>2 DEF OnFacts
<1>6. CASE Verify(t)
  <2>1. PICK ids, c : Begins(t, c) /\ c = OverFacts("verify", ids, <<>>)
    BY <1>6 DEF Verify
  <2>2. c.op = "verify" /\ c.at = "load"
    BY <2>1 DEF OverFacts
  <2>3. AsApproved => Keeps(c)
    BY <2>2 DEF Keeps, OnFacts, OnNumbers
  <2>4. Given => Counts(c)
    BY <2>2, NumbersNone
  <2> QED  BY <2>1, <2>2, <2>3, <2>4, BeginsSerial
<1>7. CASE SetSkipped(t)
  <2>1. PICK skipped, c : /\ Begins(t, c)
                          /\ c = [op |-> "skip", at |-> "saveGate",
                                  gate |-> [gate EXCEPT !.skipped = skipped]]
    BY <1>7 DEF SetSkipped
  <2>2. c.op = "skip" /\ c.at = "saveGate" /\ c.gate.status = gate.status /\ c.gate.next = gate.next
    BY <2>1 DEF Inv, ScalarsOK, GateRows
  <2>3. AsApproved => Keeps(c)
    BY <2>2 DEF Keeps, OnFacts
  <2>4. Given => Counts(c)
    BY <2>2 DEF Counts, OnNumbers, Given
  <2> QED  BY <2>1, <2>2, <2>3, <2>4, BeginsSerial
<1>8. CASE Approve(t)
  <2>1. PICK c : /\ Begins(t, c)
                 /\ c = [op |-> "approve", at |-> "check", gate |-> [gate EXCEPT !.status = "approved"]]
    BY <1>8 DEF Approve
  <2>2. c.op = "approve" /\ c.at = "check" /\ c.gate.next = gate.next
    BY <2>1 DEF Inv, ScalarsOK, GateRows
  <2>3. AsApproved => Keeps(c)
    BY <2>2 DEF Keeps, OnFacts
  <2>4. Given => Counts(c)
    BY <2>2 DEF Counts, OnNumbers, Given
  <2> QED  BY <2>1, <2>2, <2>3, <2>4, BeginsSerial
<1>9. CASE Unapprove(t)
  <2>1. PICK c : /\ Begins(t, c)
                 /\ c = [op |-> "unapprove", at |-> "saveGate",
                         gate |-> [gate EXCEPT !.status = "pending"]]
    BY <1>9 DEF Unapprove
  <2>2. /\ c.op = "unapprove" /\ c.at = "saveGate" /\ c.gate.status = "pending"
        /\ c.gate.next = gate.next
    BY <2>1 DEF Inv, ScalarsOK, GateRows
  <2>3. AsApproved => Keeps(c)
    BY <2>2 DEF Keeps, OnFacts, OnNumbers
  <2>4. Given => Counts(c)
    BY <2>2 DEF Counts, OnNumbers, Given
  <2> QED  BY <2>1, <2>2, <2>3, <2>4, BeginsSerial
<1>10. CASE GenerateQuestions(t)
  <2>1. PICK op, gone, c :
           /\ op \in {"generate", "replace"} /\ Begins(t, c)
           /\ c = [op |-> op, at |-> "ai", existing |-> DOMAIN questions, gone |-> gone]
    BY <1>10 DEF GenerateQuestions
  <2>2. c.op = op /\ c.at = "ai"
    BY <2>1
  <2>3. AsApproved => Keeps(c)
    BY <2>1, <2>2 DEF Keeps, OnFacts
  <2>4. Given => Counts(c)
    BY <2>2, NumbersNone
  <2> QED  BY <2>1, <2>2, <2>3, <2>4, BeginsSerial
<1>11. CASE AddQuestion(t)
  <2>1. PICK next, c : /\ next = nextQuestionNumber(gate.next, DOMAIN questions)
                       /\ Begins(t, c) /\ c = Writing("ask", 1, next, gate, {})
    BY <1>11 DEF AddQuestion
  <2>2. gate.next \in 1..(MaxQuestions + 1) /\ DOMAIN questions \subseteq Numbers
    BY DEF Inv, ScalarsOK, GateRows, QuestionsOK
  <2>3. next \in Nat \ {0} /\ gate.next <= next
    BY <2>1, <2>2, NextQuestionIs
  <2>4. c.op = "ask" /\ c.at = "write" /\ c.next = next /\ c.gate.status = gate.status
    BY <2>1 DEF Writing, Inv, ScalarsOK, GateRows
  <2>5. AsApproved => Keeps(c)
    BY <2>4 DEF Keeps, OnFacts
  <2>6. used \subseteq Int
    BY DEF Inv, ScalarsOK, Numbers
  <2>7. Given => Counts(c)
    BY <2>2, <2>3, <2>4, <2>6 DEF Counts, Given
  <2> QED  BY <2>1, <2>4, <2>5, <2>7, BeginsSerial
<1>12. CASE EditQuestion(t)
  <2>1. PICK q, c : /\ q \in DOMAIN questions /\ Begins(t, c)
                    /\ c = [op |-> "reword", at |-> "reword", q |-> q]
    BY <1>12 DEF EditQuestion
  <2>2. c.op = "reword" /\ c.at = "reword" /\ c.q = q
    BY <2>1
  <2>3. AsApproved => Keeps(c)
    BY <2>1, <2>2 DEF Keeps, OnFacts, OnNumbers
  <2>4. Given => Counts(c)
    BY <2>2, NumbersNone
  <2> QED  BY <2>1, <2>2, <2>3, <2>4, BeginsSerial
<1>13. CASE DeleteQuestion(t)
  <2>1. PICK q, c : Begins(t, c) /\ c = [op |-> "drop", at |-> "delete", gone |-> {q}]
    BY <1>13 DEF DeleteQuestion
  <2>2. c.op = "drop" /\ c.at = "delete"
    BY <2>1
  <2>3. AsApproved => Keeps(c)
    BY <2>2 DEF Keeps, OnFacts, OnNumbers
  <2>4. Given => Counts(c)
    BY <2>2, NumbersNone
  <2> QED  BY <2>1, <2>2, <2>3, <2>4, BeginsSerial
<1> QED
  BY <1>2, <1>3, <1>4, <1>5, <1>6, <1>7, <1>8, <1>9, <1>10, <1>11, <1>12, <1>13 DEF Serve

\* Reading a claim changes nothing stored.
LEMMA LoadClaimSerial ==
    ASSUME Inv, OneAtATime, NEW t \in Threads, LoadClaim(t)
    PROVE  OneAtATime' /\ Between'
<1>1. PICK id, fact, anew, c :
         Goes(t, c) /\ c = ToSave(call[t], id, fact, anew)
  BY DEF LoadClaim
<1>2. call[t].op = "paste" /\ c.op = "paste" /\ c.at = "save" /\ call[t].op # "none"
  BY <1>1 DEF LoadClaim, ToSave
<1>3. Mends(c)'
  BY <1>2 DEF Mends, OnFacts
<1>4. Counts(call[t]) => Counts(c)'
  BY <1>2 DEF Counts, OnNumbers, LoadClaim
<1> QED  BY <1>1, <1>2, <1>3, <1>4, GoesSerial DEF LoadClaim

\* A fact read to be checked again is the stored one.
LEMMA LoadToVerifySerial ==
    ASSUME Inv, OneAtATime, NEW t \in Threads, LoadToVerify(t)
    PROVE  OneAtATime' /\ Between'
<1>1. PICK id, c : /\ id = Min(call[t].left) /\ Goes(t, c)
                   /\ c = ToSave(call[t], id, facts[id], TRUE)
  BY DEF LoadToVerify
<1>2. call[t].op = "verify" /\ LeftOK(call[t]) /\ call[t].left # {}
  BY AtIs DEF LoadToVerify, LoadOK
<1>3. call[t].left \in SUBSET Nat
  BY <1>2 DEF LeftOK, Inv, FactsOK, Codes
<1>4. id \in DOMAIN facts
  BY <1>1, <1>2, <1>3, MinIs DEF LeftOK
<1>5. c.op = "verify" /\ c.at = "save" /\ c.id = id /\ c.fact = facts[id]
  BY <1>1, <1>2 DEF ToSave
<1>6. ~Mends(call[t])
  BY <1>2 DEF Mends, OnFacts
<1>7. Keeps(call[t]) => Keeps(c)'
  BY <1>4, <1>5 DEF Keeps, OnFacts, OnNumbers, AsApproved, LoadToVerify
<1>8. Counts(call[t]) => Counts(c)'
  BY <1>2, <1>5 DEF Counts, OnNumbers, LoadToVerify
<1> QED  BY <1>1, <1>2, <1>5, <1>6, <1>7, <1>8, GoesSerial DEF LoadToVerify

\* A saved fact may change the table: the gate is read next; a check saves the same.
LEMMA SaveFactSerial ==
    ASSUME Inv, OneAtATime, NEW t \in Threads, SaveFact(t)
    PROVE  OneAtATime' /\ Between'
<1>1. PICK c, saved, next :
         /\ c = call[t] /\ saved = Marked(c.fact, c.anew) /\ Goes(t, next)
         /\ next = IF c.left # {} THEN OverFacts(c.op, c.left, c.claims)
                   ELSE IF c.op = "verify" THEN Idle ELSE [op |-> c.op, at |-> "reopen"]
  BY DEF SaveFact, Returns
<1>2. SaveOK(c) /\ c.op # "none" /\ c.at = "save"
  BY <1>1, AtIs DEF SaveFact
<1>3. /\ facts' = [id \in DOMAIN facts \cup {c.id} |-> IF id = c.id THEN saved ELSE facts[id]]
      /\ UNCHANGED <<questions, gate, used, table, orderly>>
  BY <1>1 DEF SaveFact
<1>4. CASE c.op \in OnFacts
  <2>1. next.op = c.op /\ next.at \in {"load", "reopen"}
    BY <1>1, <1>4 DEF OverFacts, OnFacts
  <2>2. Mends(next)'
    BY <1>4, <2>1 DEF Mends
  <2>3. Counts(c) => Counts(next)'
    BY <1>2, <1>3, <2>1 DEF Counts
  <2> QED  BY <1>1, <1>2, <1>3, <2>1, <2>2, <2>3, GoesSerial
<1>5. CASE c.op = "verify"
  <2>1. ~Mends(c)
    BY <1>5 DEF Mends, OnFacts
  <2>2. Keeps(c) => AsApproved'
    <3> SUFFICES ASSUME Keeps(c) PROVE TableOf(facts') = TableOf(facts)
      BY <1>3 DEF Keeps, AsApproved
    <3>1. /\ c.id \in DOMAIN facts /\ SourceOf(c.fact) = SourceOf(facts[c.id])
          /\ c.fact.keep = facts[c.id].keep
      BY <1>2, <1>5 DEF Keeps
    <3>2. SourceOf(saved) = SourceOf(c.fact) /\ saved.keep = c.fact.keep
      BY <1>1, <1>2, MarkedOK DEF SaveOK
    <3>3. DOMAIN facts' = DOMAIN facts
      BY <1>3, <3>1
    <3>4. \A id \in DOMAIN facts' :
             SourceOf(facts'[id]) = SourceOf(facts[id]) /\ facts'[id].keep = facts[id].keep
      BY <1>3, <3>1, <3>2
    <3> QED  BY <3>3, <3>4, TableSame
  <2>3. CASE c.left # {}
    <3>1. next.op = "verify" /\ next.at = "load"
      BY <1>1, <1>5, <2>3 DEF OverFacts
    <3>2. AsApproved' => Keeps(next)'
      BY <3>1 DEF Keeps, OnFacts, OnNumbers
    <3>3. Counts(c) => Counts(next)'
      BY <1>2, <1>3, <3>1 DEF Counts
    <3> QED  BY <1>1, <1>2, <1>3, <2>1, <2>2, <3>1, <3>2, <3>3, GoesSerial
  <2>4. CASE c.left = {}
    <3>1. next.op = "none"
      BY <1>1, <1>5, <2>4 DEF Idle
    <3>2. Counts(c) => Given'
      BY <1>2, <1>3 DEF Counts, Given
    <3> QED  BY <1>1, <1>2, <1>3, <2>1, <2>2, <3>1, <3>2, GoesSerial
  <2> QED  BY <2>3, <2>4
<1> QED  BY <1>2, <1>4, <1>5 DEF SaveOK

\* An approved gate is to be saved as pending, any other stays.
LEMMA ReopenSerial ==
    ASSUME Inv, OneAtATime, NEW t \in Threads, reopenGate(t)
    PROVE  OneAtATime' /\ Between'
<1>1. call[t].op \in OnFacts /\ call[t].op # "none"
  BY AtIs DEF reopenGate
<1>2. CASE gate.status # "approved"
  <2>1. AsApproved'
    BY <1>2 DEF AsApproved, reopenGate
  <2>2. Counts(call[t]) => Given'
    BY DEF Counts, Given, reopenGate
  <2>3. Goes(t, Idle) /\ UNCHANGED orderly
    BY <1>2 DEF reopenGate, Returns
  <2> QED  BY <1>1, <2>1, <2>2, <2>3, IdleOK, GoesSerial
<1>3. CASE gate.status = "approved"
  <2>1. PICK c : /\ Goes(t, c)
                 /\ c = [op |-> call[t].op, at |-> "saveGate",
                         gate |-> [gate EXCEPT !.status = "pending"]]
    BY <1>3 DEF reopenGate
  <2>2. /\ c.op = call[t].op /\ c.at = "saveGate" /\ c.gate.status = "pending"
        /\ c.gate.next = gate.next
    BY <2>1 DEF Inv, ScalarsOK, GateRows
  <2>3. Mends(c)'
    BY <1>1, <2>2 DEF Mends
  <2>4. Counts(call[t]) => Counts(c)'
    BY <1>1, <2>2 DEF Counts, OnFacts, OnNumbers, reopenGate
  <2> QED  BY <1>1, <2>1, <2>2, <2>3, <2>4, GoesSerial DEF reopenGate
<1> QED  BY <1>2, <1>3

\* The check of an approval changes nothing stored.
LEMMA CheckApprovableSerial ==
    ASSUME Inv, OneAtATime, NEW t \in Threads, CheckApprovable(t)
    PROVE  OneAtATime' /\ Between'
<1>1. call[t].op = "approve" /\ call[t].at = "check" /\ ~Mends(call[t])
  BY DEF CheckApprovable, Mends, OnFacts
<1>2. PICK c : c = [op |-> "approve", at |-> "saveGate", gate |-> call[t].gate]
  OBVIOUS
<1>3. c.op = "approve" /\ c.at = "saveGate" /\ c.gate = call[t].gate
  BY <1>2
<1>4. Keeps(call[t]) => AsApproved' /\ Keeps(c)'
  BY <1>3 DEF Keeps, AsApproved, OnFacts, OnNumbers, CheckApprovable
<1>5. Counts(call[t]) => Given' /\ Counts(c)'
  BY <1>1, <1>3 DEF Counts, Given, OnNumbers, CheckApprovable
<1>6. (Goes(t, c) \/ Goes(t, Idle)) /\ UNCHANGED orderly
  BY <1>2 DEF CheckApprovable, Returns
<1> QED  BY <1>1, <1>3, <1>4, <1>5, <1>6, IdleOK, GoesSerial

\* The gate saved is pending, of the same status, or of the table as it is now.
LEMMA SaveGateSerial ==
    ASSUME Inv, OneAtATime, NEW t \in Threads, saveGate(t)
    PROVE  OneAtATime' /\ Between'
<1>1. PICK c, next :
         /\ c = call[t] /\ Goes(t, next)
         /\ next = IF Generates(c) /\ c.gone # {}
                   THEN [op |-> c.op, at |-> "delete", gone |-> c.gone] ELSE Idle
  BY DEF saveGate, Returns
<1>2. /\ c.op # "none" /\ c.at = "saveGate" /\ gate' = c.gate
      /\ table' = (IF c.op = "approve" THEN TableOf(facts) ELSE table)
      /\ UNCHANGED <<facts, questions, used, orderly>>
  BY <1>1 DEF saveGate
<1>3. GateOK(c)
  BY <1>1, <1>2, AtIs DEF saveGate
<1>4. Mends(c) \/ Keeps(c) => AsApproved'
  <2>1. CASE Mends(c)
    BY <1>2, <2>1 DEF Mends, AsApproved
  <2>2. CASE Keeps(c) /\ c.op \in {"skip", "unapprove"} \cup OnNumbers
    BY <1>2, <2>2 DEF Keeps, AsApproved, OnNumbers
  <2>3. CASE c.op = "approve"
    BY <1>2, <2>3 DEF AsApproved
  <2>4. c.op \in OnFacts => ~Keeps(c)
    BY DEF Keeps
  <2> QED  BY <1>3, <2>1, <2>2, <2>3, <2>4 DEF GateOK, OnGate
<1>5. Counts(c) => Given'
  BY <1>2 DEF Counts, Given
<1>6. CASE Generates(c) /\ c.gone # {}
  <2>1. next.op = c.op /\ next.at = "delete"
    BY <1>1, <1>6
  <2>2. AsApproved' => Keeps(next)'
    BY <1>6, <2>1 DEF Keeps, Generates, OnFacts
  <2>3. Given' => Counts(next)'
    BY <2>1 DEF Given, Counts
  <2> QED  BY <1>1, <1>2, <1>4, <1>5, <2>1, <2>2, <2>3, GoesSerial
<1>7. CASE ~(Generates(c) /\ c.gone # {})
  <2>1. next.op = "none"
    BY <1>1, <1>7 DEF Idle
  <2> QED  BY <1>1, <1>2, <1>4, <1>5, <2>1, GoesSerial
<1> QED  BY <1>6, <1>7

\* The numbers of a reply are past all given, the gate being read again.
LEMMA OnQuestionsSerial ==
    ASSUME Inv, OneAtATime, NEW t \in Threads, OnQuestions(t)
    PROVE  OneAtATime' /\ Between'
<1>1. AiOK(call[t]) /\ call[t].op \in OnNumbers /\ call[t].op # "none" /\ call[t].at = "ai"
  BY AtIs DEF OnQuestions, Generates, OnNumbers
<1>2. ~Mends(call[t])
  BY <1>1 DEF Mends, OnFacts, OnNumbers
<1>3. Counts(call[t]) => Given
  BY <1>1 DEF Counts, Given
<1>4. CASE Returns(t)
  <2>1. Keeps(call[t]) => AsApproved'
    BY DEF Keeps, AsApproved, OnQuestions
  <2>2. Given => Given'
    BY DEF Given, OnQuestions
  <2> QED  BY <1>1, <1>2, <1>3, <1>4, <2>1, <2>2, IdleOK, GoesSerial DEF OnQuestions, Returns
<1>5. CASE ~Returns(t)
  <2>1. PICK next, n, c :
           /\ next = nextQuestionNumber(gate.next, call[t].existing)
           /\ Goes(t, c) /\ c = Writing(call[t].op, n, next, gate, call[t].gone)
    BY <1>5 DEF OnQuestions
  <2>2. gate.next \in 1..(MaxQuestions + 1) /\ used \subseteq Int
    BY DEF Inv, ScalarsOK, GateRows, Numbers
  <2>3. next \in Nat \ {0} /\ gate.next <= next
    BY <1>1, <2>1, <2>2, NextQuestionIs DEF AiOK
  <2>4. c.op = call[t].op /\ c.at = "write" /\ c.next = next /\ c.gate.status = gate.status
    BY <2>1 DEF Writing, Inv, ScalarsOK, GateRows
  <2>5. Keeps(call[t]) => Keeps(c)'
    BY <1>1, <2>4 DEF Keeps, OnFacts, OnNumbers, AsApproved, OnQuestions
  <2>6. Given => Counts(c)'
    <3> SUFFICES ASSUME Given PROVE Counts(c)'
      OBVIOUS
    <3>1. gate.next \in Int /\ next \in Int
      BY <2>2, <2>3, BoundsAssumption
    <3>2. \A q \in used : q < next
      BY <2>2, <2>3, <3>1 DEF Given
    <3> QED  BY <1>1, <2>4, <3>2 DEF Counts, OnQuestions
  <2> QED  BY <1>1, <1>2, <1>3, <2>1, <2>4, <2>5, <2>6, GoesSerial DEF OnQuestions
<1> QED  BY <1>4, <1>5

\* A written question takes the number, and the next one is past it.
LEMMA WriteQuestionSerial ==
    ASSUME Inv, OneAtATime, NEW t \in Threads, WriteQuestion(t)
    PROVE  OneAtATime' /\ Between'
<1>1. PICK c, d :
         /\ c = call[t] /\ Goes(t, d)
         /\ d = [op |-> c.op, at |-> IF c.left = 1 THEN "saveGate" ELSE "write",
                 left |-> c.left - 1, next |-> c.next + 1, gate |-> c.gate, gone |-> c.gone]
  BY DEF WriteQuestion
<1>2. /\ c.op # "none" /\ c.at = "write" /\ used' = used \cup {c.next}
      /\ UNCHANGED <<facts, gate, table, orderly>>
  BY <1>1 DEF WriteQuestion
<1>3. WriteOK(c)
  BY <1>1, <1>2, AtIs
<1>4. c.next \in Nat /\ c.left \in Nat /\ c.gate.next = c.next + c.left
  BY <1>3 DEF WriteOK
<1>5. /\ d.op = c.op /\ d.at = (IF c.left = 1 THEN "saveGate" ELSE "write")
      /\ d.next = c.next + 1 /\ d.gate = c.gate
  BY <1>1
<1>6. c.op \in OnNumbers /\ ~Mends(c)
  BY <1>3 DEF WriteOK, Mends, OnFacts, OnNumbers
<1>7. Keeps(c) => Keeps(d)'
  BY <1>2, <1>5, <1>6 DEF Keeps, AsApproved, OnNumbers, OnFacts
<1>8. Counts(c) => Counts(d)'
  <2> SUFFICES ASSUME Counts(c) PROVE Counts(d)'
    OBVIOUS
  <2>1. \A q \in used' : q < c.next + 1
    <3>1. \A q \in used : q < c.next
      BY <1>2, <1>6 DEF Counts
    <3>2. used \subseteq Int
      BY DEF Inv, ScalarsOK, Numbers
    <3> QED  BY <1>2, <1>4, <3>1, <3>2
  <2>2. c.left = 1 => \A q \in used' : q < c.gate.next
    BY <1>4, <2>1
  <2> QED  BY <1>5, <1>6, <2>1, <2>2 DEF Counts
<1> QED  BY <1>1, <1>2, <1>5, <1>6, <1>7, <1>8, GoesSerial

\* A reworded question takes no number.
LEMMA SaveWordingSerial ==
    ASSUME Inv, OneAtATime, NEW t \in Threads, SaveWording(t)
    PROVE  OneAtATime' /\ Between'
<1>1. call[t].op # "none" /\ ~Mends(call[t])
  BY DEF SaveWording, Mends, OnFacts
<1>2. Keeps(call[t]) => AsApproved'
  BY DEF Keeps, AsApproved, SaveWording
<1>3. Counts(call[t]) => Given'
  BY DEF Counts, Given, OnNumbers, SaveWording
<1>4. Goes(t, Idle) /\ UNCHANGED orderly
  BY DEF SaveWording, Returns
<1> QED  BY <1>1, <1>2, <1>3, <1>4, IdleOK, GoesSerial

\* A removed question takes no number.
LEMMA RemoveQuestionSerial ==
    ASSUME Inv, OneAtATime, NEW t \in Threads, RemoveQuestion(t)
    PROVE  OneAtATime' /\ Between'
<1>1. PICK c, next :
         /\ c = call[t] /\ Goes(t, next)
         /\ next = Idle \/ next = [op |-> c.op, at |-> "delete", gone |-> c.gone \ {Min(c.gone)}]
  BY DEF RemoveQuestion, Returns
<1>2. /\ c.op # "none" /\ c.at = "delete" /\ UNCHANGED <<facts, gate, used, table, orderly>>
  BY <1>1 DEF RemoveQuestion
<1>3. c.op \in {"drop", "generate", "replace"} /\ ~Mends(c)
  BY <1>1, <1>2, AtIs DEF DeleteOK, Mends, OnFacts
<1>4. Keeps(c) => AsApproved'
  BY <1>2 DEF Keeps, AsApproved
<1>5. Counts(c) => Given'
  BY <1>2 DEF Counts, Given
<1>6. CASE next = Idle
  BY <1>1, <1>2, <1>3, <1>4, <1>5, <1>6, IdleOK, GoesSerial
<1>7. CASE next # Idle
  <2>1. next.op = c.op /\ next.at = "delete"
    BY <1>1, <1>7
  <2>2. AsApproved' => Keeps(next)'
    BY <1>3, <2>1 DEF Keeps, OnFacts
  <2>3. Given' => Counts(next)'
    BY <2>1 DEF Counts, Given
  <2> QED  BY <1>1, <1>2, <1>3, <1>4, <1>5, <2>1, <2>2, <2>3, GoesSerial
<1> QED  BY <1>6, <1>7

\* A check changes nothing the Creator approves, and nothing a request counts on.
LEMMA CheckSerial ==
    ASSUME Inv, OneAtATime, Between, Check
    PROVE  OneAtATime' /\ Between'
<1>1. PICK job \in DOMAIN queue : \E state \in check(job.source) :
         facts' = [facts EXCEPT ![job.id] = SaveFactLink(@, job, state)]
  BY DEF Check, BagToSet
<1>2. PICK state \in check(job.source) :
         facts' = [facts EXCEPT ![job.id] = SaveFactLink(@, job, state)]
  BY <1>1
<1>3. UNCHANGED <<questions, gate, call, used, table, orderly>>
  BY DEF Check
<1>4. state \in LinkStates \ {"none"} /\ job.source.url # NoUrl
  BY CheckFinds DEF Inv, QueueOK
<1>5. /\ DOMAIN facts' = DOMAIN facts
      /\ \A id \in DOMAIN facts' :
            SourceOf(facts'[id]) = SourceOf(facts[id]) /\ facts'[id].keep = facts[id].keep
  <2>1. facts' = [id \in DOMAIN facts |->
                     IF id = job.id THEN SaveFactLink(facts[id], job, state) ELSE facts[id]]
    BY <1>2 DEF Inv, FactsOK
  <2>2. \A id \in DOMAIN facts :
           /\ SourceOf(SaveFactLink(facts[id], job, state)) = SourceOf(facts[id])
           /\ SaveFactLink(facts[id], job, state).keep = facts[id].keep
    BY <1>4, SaveFactLinkOK DEF Inv, FactsOK
  <2> QED  BY <2>1, <2>2
<1>6. TableOf(facts') = TableOf(facts)
  BY <1>5, TableSame
<1>7. AsApproved => AsApproved'
  BY <1>3, <1>6 DEF AsApproved
<1>8. ASSUME NEW c
      PROVE  /\ Mends(c) => Mends(c)'
             /\ Keeps(c) => Keeps(c)'
             /\ Counts(c) => Counts(c)'
  <2>1. Mends(c) => Mends(c)'
    BY DEF Mends
  <2>2. Keeps(c) => Keeps(c)'
    <3> SUFFICES ASSUME Keeps(c) PROVE Keeps(c)'
      OBVIOUS
    <3>1. c.op = "verify" /\ c.at = "save" =>
             /\ c.id \in DOMAIN facts'
             /\ SourceOf(c.fact) = SourceOf(facts'[c.id]) /\ c.fact.keep = facts'[c.id].keep
      BY <1>5 DEF Keeps
    <3>2. SourceOf(c.fact)' = SourceOf(c.fact)
      BY DEF SourceOf
    <3> QED  BY <1>3, <1>7, <3>1 DEF Keeps, SourceOf
  <2>3. Counts(c) => Counts(c)'
    BY <1>3 DEF Counts
  <2> QED  BY <2>1, <2>2, <2>3
<1>9. OneAtATime'
  <2> SUFFICES ASSUME orderly', NEW t \in Threads, call'[t].op # "none"
               PROVE  /\ \A other \in Threads \ {t} : call'[other].op = "none"
                      /\ (Mends(call[t]) \/ Keeps(call[t]))' /\ Counts(call[t])'
    BY DEF OneAtATime
  <2>1. PICK c : c = call[t]
    OBVIOUS
  <2>2. (Mends(c) \/ Keeps(c)) /\ Counts(c) /\ \A other \in Threads \ {t} : call[other].op = "none"
    BY <1>3, <2>1 DEF OneAtATime
  <2>3. (Mends(c) \/ Keeps(c))' /\ Counts(c)'
    BY <1>8, <2>2
  <2> QED  BY <1>3, <2>1, <2>2, <2>3
<1>10. Between'
  BY <1>3, <1>7 DEF Between
<1> QED  BY <1>9, <1>10

\* A restart that cuts no request finds the table standing.
LEMMA RestartSerial ==
    ASSUME Inv, OneAtATime, Between, Restart
    PROVE  OneAtATime' /\ Between'
<1>1. \A t \in Threads : call'[t].op = "none"
  BY DEF Restart, Idle
<1>2. OneAtATime'
  BY <1>1 DEF OneAtATime
<1>3. ASSUME orderly' PROVE AsApproved' /\ Given'
  <2>1. orderly /\ call' = call /\ UNCHANGED <<gate, used, table>>
    BY <1>3 DEF Restart
  <2>2. AsApproved /\ Given
    BY <1>1, <2>1 DEF Between, Given
  <2>3. facts' = [id \in DOMAIN facts |-> Interrupted(facts[id])]
    BY DEF Restart
  <2>4. \A id \in DOMAIN facts :
           /\ SourceOf(Interrupted(facts[id])) = SourceOf(facts[id])
           /\ Interrupted(facts[id]).keep = facts[id].keep
    BY InterruptedOK DEF Inv, FactsOK
  <2>5. /\ DOMAIN facts' = DOMAIN facts
        /\ \A id \in DOMAIN facts' :
              SourceOf(facts'[id]) = SourceOf(facts[id]) /\ facts'[id].keep = facts[id].keep
    BY <2>3, <2>4
  <2>6. TableOf(facts') = TableOf(facts)
    BY <2>5, TableSame
  <2> QED  BY <2>1, <2>2, <2>6 DEF AsApproved, Given
<1> QED  BY <1>2, <1>3 DEF Between, Given

\* A question that exists keeps the number it was given.
LEMMA UsedStep ==
    ASSUME Inv, UsedOK, [Next]_vars
    PROVE  UsedOK'
<1>1. CASE UNCHANGED vars
  BY <1>1 DEF UsedOK, vars
<1>2. ASSUME NEW t \in Threads, NEW local, call' = [call EXCEPT ![t] = local],
             UNCHANGED <<questions, used>>, local.op = "reword" => local.q \in DOMAIN questions
      PROVE  UsedOK'
  <2>1. call' = [u \in Threads |-> IF u = t THEN local ELSE call[u]]
    BY <1>2 DEF Inv, CallsOK
  <2> QED  BY <1>2, <2>1 DEF UsedOK
<1>3. ASSUME NEW t \in Threads, Serve(t)  PROVE UsedOK'
  <2> DEFINE Known(local) == local.op = "reword" => local.q \in DOMAIN questions
  <2>1. \E local : Begins(t, local) /\ Known(local)
    <3>1. CASE SetFactFlags(t)
      BY <3>1 DEF SetFactFlags, OnFact
    <3>2. CASE EditFact(t)
      BY <3>2 DEF EditFact, OnFact
    <3>3. CASE AddFact(t)
      BY <3>3 DEF AddFact, OnFact
    <3>4. CASE IngestPaste(t)
      BY <3>4 DEF IngestPaste, OverFacts
    <3>5. CASE Verify(t)
      BY <3>5 DEF Verify, OverFacts
    <3>6. CASE SetSkipped(t)
      BY <3>6 DEF SetSkipped
    <3>7. CASE Approve(t)
      BY <3>7 DEF Approve
    <3>8. CASE Unapprove(t)
      BY <3>8 DEF Unapprove
    <3>9. CASE GenerateQuestions(t)
      BY <3>9 DEF GenerateQuestions
    <3>10. CASE AddQuestion(t)
      BY <3>10 DEF AddQuestion, Writing
    <3>11. CASE EditQuestion(t)
      BY <3>11 DEF EditQuestion
    <3>12. CASE DeleteQuestion(t)
      BY <3>12 DEF DeleteQuestion
    <3> QED  BY <1>3, <3>1, <3>2, <3>3, <3>4, <3>5, <3>6, <3>7, <3>8, <3>9, <3>10, <3>11, <3>12 DEF Serve
  <2> QED  BY <1>2, <2>1 DEF Begins
<1>4. ASSUME NEW t \in Threads,
             \/ LoadClaim(t) \/ LoadToVerify(t) \/ SaveFact(t) \/ reopenGate(t)
             \/ CheckApprovable(t) \/ saveGate(t) \/ OnQuestions(t)
      PROVE  UsedOK'
  <2>1. \E local : Goes(t, local) /\ (local.op = "reword" => call[t].op = "reword")
    <3>1. CASE LoadClaim(t)
      BY <3>1 DEF LoadClaim, ToSave
    <3>2. CASE LoadToVerify(t)
      BY <3>2 DEF LoadToVerify, ToSave
    <3>3. CASE SaveFact(t)
      BY <3>3 DEF SaveFact, Returns, Idle, OverFacts
    <3>4. CASE reopenGate(t)
      BY <3>4 DEF reopenGate, Returns, Idle
    <3>5. CASE CheckApprovable(t)
      BY <3>5 DEF CheckApprovable, Returns, Idle
    <3>6. CASE saveGate(t)
      BY <3>6 DEF saveGate, Returns, Idle
    <3>7. CASE OnQuestions(t)
      <4>1. CASE Returns(t)
        BY <4>1 DEF Returns, Idle
      <4>2. CASE ~Returns(t)
        <5>1. PICK n, next : Goes(t, Writing(call[t].op, n, next, gate, call[t].gone))
          BY <3>7, <4>2 DEF OnQuestions
        <5>2. Writing(call[t].op, n, next, gate, call[t].gone).op = call[t].op
          BY DEF Writing
        <5> QED  BY <5>1, <5>2
      <4> QED  BY <4>1, <4>2
    <3> QED  BY <1>4, <3>1, <3>2, <3>3, <3>4, <3>5, <3>6, <3>7
  <2>2. call[t].op # "reword" /\ UNCHANGED <<questions, used>>
    <3>1. call[t].op # "none" /\ call[t].at # "reword"
      BY <1>4 DEF LoadClaim, LoadToVerify, SaveFact, reopenGate, CheckApprovable, saveGate,
                  OnQuestions, Generates
    <3>2. call[t].op # "reword"
      BY <3>1 DEF Inv, CallsOK, CallOK, LoadOK, SaveOK, GateOK, AiOK, WriteOK, DeleteOK,
                  OnFacts, OnGate, OnNumbers, Generates
    <3>3. UNCHANGED <<questions, used>>
      BY <1>4 DEF LoadClaim, LoadToVerify, SaveFact, reopenGate, CheckApprovable, saveGate,
                  OnQuestions
    <3> QED  BY <3>2, <3>3
  <2> QED  BY <1>2, <2>1, <2>2 DEF Goes
<1>5. ASSUME NEW t \in Threads, WriteQuestion(t)  PROVE UsedOK'
  <2>1. PICK d : /\ Goes(t, d) /\ d.op = call[t].op
    BY <1>5 DEF WriteQuestion
  <2>2. call' = [u \in Threads |-> IF u = t THEN d ELSE call[u]]
    BY <2>1 DEF Goes, Inv, CallsOK
  <2>3. call[t].op # "reword"
    BY <1>5, AtIs DEF WriteQuestion, WriteOK, OnNumbers
  <2>4. /\ used' = used \cup {call[t].next}
        /\ DOMAIN questions' = DOMAIN questions \cup {call[t].next}
    BY <1>5 DEF WriteQuestion, saveResearchQuestionUnit
  <2> QED  BY <2>1, <2>2, <2>3, <2>4 DEF UsedOK
<1>6. ASSUME NEW t \in Threads, SaveWording(t)  PROVE UsedOK'
  <2>1. call' = [u \in Threads |-> IF u = t THEN Idle ELSE call[u]]
    BY <1>6 DEF SaveWording, Returns, Goes, Inv, CallsOK
  <2>2. DOMAIN questions' = DOMAIN questions \cup {call[t].q} /\ UNCHANGED used
    BY <1>6 DEF SaveWording, saveResearchQuestionUnit
  <2>3. call[t].q \in used
    BY <1>6 DEF SaveWording, UsedOK
  <2> QED  BY <2>1, <2>2, <2>3, IdleOK DEF UsedOK
<1>7. ASSUME NEW t \in Threads, RemoveQuestion(t)  PROVE UsedOK'
  <2>1. PICK d : Goes(t, d) /\ (d.op = "none" \/ d.op = call[t].op)
    BY <1>7 DEF RemoveQuestion, Returns, Idle
  <2>2. call' = [u \in Threads |-> IF u = t THEN d ELSE call[u]]
    BY <2>1 DEF Goes, Inv, CallsOK
  <2>3. call[t].op # "reword"
    BY <1>7, AtIs DEF RemoveQuestion, DeleteOK
  <2>4. UNCHANGED used /\ DOMAIN questions' \subseteq DOMAIN questions
    BY <1>7 DEF RemoveQuestion, deleteResearchQuestionUnit
  <2> QED  BY <2>1, <2>2, <2>3, <2>4 DEF UsedOK
<1>8. CASE Check
  BY <1>8 DEF Check, UsedOK
<1>9. CASE Restart
  BY <1>9 DEF Restart, UsedOK, Idle
<1> QED
  BY <1>1, <1>3, <1>4, <1>5, <1>6, <1>7, <1>8, <1>9 DEF Next, Step

\* Every step keeps what holds while requests come one at a time.
LEMMA SerialStep ==
    ASSUME Inv, OneAtATime, Between, [Next]_vars
    PROVE  OneAtATime' /\ Between'
<1>1. CASE UNCHANGED vars
  <2>1. /\ AsApproved => AsApproved'
        /\ \A t \in Threads : /\ Mends(call[t]) => Mends(call[t])'
                              /\ Keeps(call[t]) => Keeps(call[t])'
                              /\ Counts(call[t]) => Counts(call[t])'
    BY <1>1 DEF vars, AsApproved, Mends, Keeps, Counts, TableOf, SourceOf
  <2>2. UNCHANGED <<call, orderly, used, gate>>
    BY <1>1 DEF vars
  <2>3. OneAtATime'
    BY <2>1, <2>2 DEF OneAtATime
  <2> QED  BY <2>1, <2>2, <2>3 DEF Between
<1>2. ASSUME NEW t \in Threads, Serve(t)  PROVE OneAtATime' /\ Between'
  BY <1>2, ServeSerial
<1>3. ASSUME NEW t \in Threads, Step(t)  PROVE OneAtATime' /\ Between'
  BY <1>3, LoadClaimSerial, LoadToVerifySerial, SaveFactSerial, ReopenSerial,
     CheckApprovableSerial, SaveGateSerial, OnQuestionsSerial, WriteQuestionSerial,
     SaveWordingSerial, RemoveQuestionSerial DEF Step
<1>4. CASE Check
  BY <1>4, CheckSerial
<1>5. CASE Restart
  BY <1>5, RestartSerial
<1> QED  BY <1>1, <1>2, <1>3, <1>4, <1>5 DEF Next

\* While requests come one at a time, whatever may have changed the table sends
\* the gate back, and whatever writes questions numbers them past every old one.
THEOREM SerialAlways == Spec => [](UsedOK /\ OneAtATime /\ Between)
<1>1. Init => UsedOK /\ OneAtATime /\ Between
  BY InitSerial
<1>2. Inv /\ (UsedOK /\ OneAtATime /\ Between) /\ [Next]_vars
         => (UsedOK /\ OneAtATime /\ Between)'
  BY UsedStep, SerialStep
<1> QED  BY <1>1, <1>2, InvAlways, PTL DEF Spec

-----------------------------------------------------------------------------
(* What the runs check.                                                    *)

\* The rows keep their shape, whatever requests, checks and restarts overlap.
THEOREM TypeCorrect == Spec => []TypeOK
<1>1. Inv => TypeOK
  <2> SUFFICES ASSUME Inv PROVE TypeOK
    OBVIOUS
  <2>1. \A id \in DOMAIN facts :
           Stored(facts[id]) /\ (facts[id].link.state = "none" <=> facts[id].url = NoUrl)
    <3> TAKE id \in DOMAIN facts
    <3>1. Linked(facts[id]) /\ facts[id] \in FactRows
      BY DEF Inv, FactsOK, Linked
    <3>2. SourceOf(facts[id]) \in Sources
      BY <3>1, SourceOfFact
    <3> QED  BY <3>1, <3>2 DEF Linked, Stored, FactRows
  <2>2. DOMAIN call = Threads
    BY DEF Inv, CallsOK
  <2> QED  BY <2>1, <2>2 DEF TypeOK, Inv, FactsOK, QuestionsOK, QueueOK, ScalarsOK, GateRows, Numbers
<1> QED  BY <1>1, InvAlways, PTL

\* The state of a link is that of the link and the quote the fact has now:
\* saveAndCheck starts it anew and SaveFactLink stores nothing for another source.
THEOREM LinkStands == Spec => []LinkIsOfSource
<1>1. Inv => LinkIsOfSource
  BY DEF Inv, FactsOK, Linked, LinkIsOfSource
<1> QED  BY <1>1, InvAlways, PTL

\* One request at a time, an approved table is as the Creator approved it.
THEOREM TableStands == Spec => []ApprovedTableStands
<1>1. Between => ApprovedTableStands
  BY DEF Between, AsApproved, ApprovedTableStands, Idle
<1> QED  BY <1>1, SerialAlways, PTL

\* One request at a time, a question takes a code no question ever had.
LEMMA NewCode ==
    ASSUME Inv, UsedOK, OneAtATime, Between, [Next]_vars, orderly'
    PROVE  \A q \in DOMAIN questions' \ DOMAIN questions : q \notin used
<1>1. CASE UNCHANGED questions
  BY <1>1
<1>2. ASSUME NEW t \in Threads, WriteQuestion(t)
      PROVE  \A q \in DOMAIN questions' \ DOMAIN questions : q \notin used
  <2>1. DOMAIN questions' = DOMAIN questions \cup {call[t].next}
    BY <1>2 DEF WriteQuestion, saveResearchQuestionUnit
  <2>2. call[t].op # "none" /\ call[t].at = "write" /\ orderly
    BY <1>2 DEF WriteQuestion
  <2>3. WriteOK(call[t])
    BY <2>2, AtIs
  <2>4. Counts(call[t]) /\ call[t].op \in OnNumbers /\ call[t].next \in Nat
    BY <2>2, <2>3 DEF OneAtATime, WriteOK
  <2>5. \A q \in used : q < call[t].next
    BY <2>2, <2>4 DEF Counts
  <2>6. call[t].next \notin used
    BY <2>4, <2>5
  <2> QED  BY <2>1, <2>6
<1>3. ASSUME NEW t \in Threads, SaveWording(t)
      PROVE  \A q \in DOMAIN questions' \ DOMAIN questions : q \notin used
  <2>1. DOMAIN questions' = DOMAIN questions \cup {call[t].q}
    BY <1>3 DEF SaveWording, saveResearchQuestionUnit
  <2>2. call[t].op = "reword" /\ orderly
    BY <1>3 DEF SaveWording
  <2>3. call[t].q \in DOMAIN questions
    BY <2>2 DEF OneAtATime, Mends, Keeps, OnFacts
  <2> QED  BY <2>1, <2>3
<1>4. ASSUME NEW t \in Threads, RemoveQuestion(t)
      PROVE  \A q \in DOMAIN questions' \ DOMAIN questions : q \notin used
  BY <1>4 DEF RemoveQuestion, deleteResearchQuestionUnit
<1>5. ASSUME NEW t \in Threads, Serve(t)  PROVE UNCHANGED questions
  BY <1>5 DEF Serve, SetFactFlags, EditFact, AddFact, IngestPaste, Verify, SetSkipped, Approve,
              Unapprove, GenerateQuestions, AddQuestion, EditQuestion, DeleteQuestion, Begins
<1>6. ASSUME NEW t \in Threads,
             \/ LoadClaim(t) \/ LoadToVerify(t) \/ SaveFact(t) \/ reopenGate(t)
             \/ CheckApprovable(t) \/ saveGate(t) \/ OnQuestions(t)
      PROVE  UNCHANGED questions
  BY <1>6 DEF LoadClaim, LoadToVerify, SaveFact, reopenGate, CheckApprovable, saveGate,
              OnQuestions
<1>7. Check \/ Restart \/ UNCHANGED vars => UNCHANGED questions
  BY DEF Check, Restart, vars
<1> QED  BY <1>1, <1>2, <1>3, <1>4, <1>5, <1>6, <1>7 DEF Next, Step

\* One request at a time, a question's code is never given again: its number is
\* past the gate's counter, and the gate is saved past the number.
THEOREM CodesStay == Spec => CodesNeverReused
<1>1. (Inv /\ (UsedOK /\ OneAtATime /\ Between)) /\ [Next]_vars
         => [orderly' => \A q \in DOMAIN questions' \ DOMAIN questions : q \notin used]_vars
  BY NewCode
<1> QED  BY <1>1, InvAlways, SerialAlways, PTL DEF Spec, CodesNeverReused

-----------------------------------------------------------------------------
(* The invariant: what is said of a row that is stored, of one that waits  *)
(* to be saved and of the copy a model is asked about.                     *)

\* The columns of a row; the Creator owns the fields the Creator wrote.
Shape(d, r) ==
    /\ DOMAIN r = {"content", "mine", "status", "of", "arcByHand"}
    /\ r.content = [f \in Stories!Fields[d] |-> r.content[f]]
    /\ r.mine = {f \in Stories!Fields[d] : r.content[f].by = "creator"}
    /\ r.status \in {"pending", "approved"} /\ r.arcByHand \in BOOLEAN

\* An input of the story, as GenerateStory reads it and the row records it.
StoryShape(of) == of = [brief |-> of.brief, facts |-> of.facts]

\* What the model wrote of the row it wrote from the input the row records, and
\* the arc cites facts of that input unless the Creator changed it since.
Sound(d, r) ==
    /\ \A f \in Stories!Fields[d] : r.content[f].by = "ai" => r.content[f].of = r.of
    /\ d = "story" =>
          /\ StoryShape(r.of)
          /\ ~r.arcByHand => Stories!cited(r.content) \subseteq r.of.facts

\* An approved row has been validated as it reads.
Stands(d, r) == r.status = "approved" => r.content \in checked[d]

RowOK(d, r) == Shape(d, r) /\ Sound(d, r) /\ Stands(d, r)

RowsOK ==
    /\ row = [d \in DOMAIN row |-> row[d]] /\ DOMAIN row \subseteq Stories!Documents
    /\ \A d \in DOMAIN row : RowOK(d, row[d])

StoryCallOK(c) ==
    /\ c.op \in {"none", "save", "generate", "review"}
    /\ c.op = "save" => c.doc \in Stories!Documents /\ RowOK(c.doc, c.row)
    /\ c.op \in {"generate", "review"} => c.doc \in Stories!Documents /\ Shape(c.doc, c.row)
    /\ c.op = "generate" /\ c.doc = "story" => StoryShape(c.input)
    /\ c.op = "review" => c.doc \in {"idea", "brief"}

StoryCallsOK ==
    /\ writing = [t \in Threads |-> writing[t]]
    /\ \A t \in Threads : StoryCallOK(writing[t])

ReviewsOK ==
    /\ review = [d \in DOMAIN review |-> review[d]] /\ DOMAIN review \subseteq {"idea", "brief"}
    /\ \A d \in DOMAIN review : review[d].hash = review[d].read

StoryScalarsOK ==
    /\ subject \in Subjects /\ kept \subseteq Facts /\ resolved \in BOOLEAN
    /\ writings \in 0 .. MaxWritings /\ changes \in 0 .. MaxChanges
    /\ checked = [d \in Stories!Documents |-> checked[d]]

StoriesInv == StoryScalarsOK /\ RowsOK /\ StoryCallsOK /\ ReviewsOK

-----------------------------------------------------------------------------
(* The operators.                                                          *)

\* The documents and their fields.
LEMMA DocumentsAre ==
    /\ Stories!Documents = {"idea", "brief", "story"}
    /\ Stories!Fields["idea"] = IdeaFields /\ Stories!Fields["brief"] = BriefFields
    /\ Stories!Fields["story"] = StoryFields
BY DEF Stories!Documents, Stories!Fields

\* An empty row is a row, and nothing in it is the model's.
LEMMA NewRowOK ==
    ASSUME NEW d \in Stories!Documents, NEW of
    PROVE  /\ Shape(d, Stories!NewRow(d, of))
           /\ Stories!NewRow(d, of).of = of
           /\ Stories!NewRow(d, of).status = "pending" /\ ~Stories!NewRow(d, of).arcByHand
           /\ \A f \in Stories!Fields[d] : Stories!NewRow(d, of).content[f] = Stories!Empty
<1>1. Stories!Empty.by = "nobody"
  BY DEF Stories!Empty, Stories!Text
<1> QED  BY <1>1 DEF Stories!NewRow, Shape

\* What the Creator types into a field is not the model's, and is the Creator's
\* unless it empties the field.
LEMMA TypedIs ==
    ASSUME NEW f, NEW citable, NEW x \in Stories!Typed(f, citable)
    PROVE  x.by # "ai" /\ (x.by = "creator" <=> x # Stories!Empty) /\ x.cites \subseteq citable
<1>1. CASE x = Stories!Empty
  BY <1>1 DEF Stories!Empty, Stories!Text
<1>2. ASSUME NEW w \in Wordings, NEW c \in IF f = Arc THEN SUBSET citable ELSE {{}},
             x = Stories!Text("creator", w, NoInput, c)
      PROVE  x.by # "ai" /\ (x.by = "creator" <=> x # Stories!Empty) /\ x.cites \subseteq citable
  <2>1. x.by = "creator" /\ x.cites = c
    BY <1>2 DEF Stories!Text
  <2>2. Stories!Empty.by = "nobody"
    BY DEF Stories!Empty, Stories!Text
  <2> QED  BY <2>1, <2>2
<1> QED  BY <1>1, <1>2 DEF Stories!Typed

\* A patch types one field of its document.
LEMMA PatchIs ==
    ASSUME NEW d \in Stories!Documents, NEW citable, NEW patch \in Stories!Patches(d, citable)
    PROVE  patch.field \in Stories!Fields[d] /\ patch.text \in Stories!Typed(patch.field, citable)
<1>1. PICK f \in Stories!Fields[d] :
         patch \in {[field |-> f, text |-> text] : text \in Stories!Typed(f, citable)}
  BY DEF Stories!Patches
<1> QED  BY <1>1

\* An edit keeps what is said of a row, and a row it leaves approved reads as it did.
LEMMA EditedRowOK ==
    ASSUME NEW d \in Stories!Documents, NEW r, RowOK(d, r), NEW citable,
           NEW patch \in Stories!Patches(d, citable)
    PROVE  /\ RowOK(d, Stories!Edited(r, patch))
           /\ Stories!Edited(r, patch).of = r.of
           /\ Stories!cited(r.content) \subseteq citable =>
                 Stories!cited(Stories!Edited(r, patch).content) \subseteq citable
<1> DEFINE f == patch.field
           x == patch.text
           c == Stories!patched(r.content, patch)
           e == Stories!Edited(r, patch)
<1>1. /\ f \in Stories!Fields[d] /\ x.by # "ai"
      /\ (x.by = "creator" <=> x # Stories!Empty) /\ x.cites \subseteq citable
  BY PatchIs, TypedIs
<1>2. c = [g \in Stories!Fields[d] |-> IF g = f THEN x ELSE r.content[g]]
  <2>1. r.content = [g \in Stories!Fields[d] |-> r.content[g]]
    BY DEF RowOK, Shape
  <2> QED  BY <2>1 DEF Stories!patched
<1>3. /\ e.content = c /\ e.mine = Stories!owners(r, patch)
      /\ e.status = (IF c = r.content THEN r.status ELSE "pending") /\ e.of = r.of
      /\ e.arcByHand = (r.arcByHand \/ Stories!cited(c) # Stories!cited(r.content))
      /\ DOMAIN e = {"content", "mine", "status", "of", "arcByHand"}
  BY DEF Stories!Edited
<1> HIDE DEF c, e, f, x
<1>4. e.mine = {g \in Stories!Fields[d] : c[g].by = "creator"}
  <2>2. e.mine = IF x # r.content[f] THEN (r.mine \ {f}) \cup (IF x # Stories!Empty THEN {f} ELSE {})
                 ELSE r.mine
    BY <1>3 DEF Stories!owners, Stories!markCreatorField, f, x
  <2>3. r.mine = {g \in Stories!Fields[d] : r.content[g].by = "creator"}
    BY DEF RowOK, Shape
  <2> QED  BY <1>1, <1>2, <2>2, <2>3
<1>5. Shape(d, e)
  <2>1. e.content = [g \in Stories!Fields[d] |-> e.content[g]]
    BY <1>2, <1>3
  <2>2. e.status \in {"pending", "approved"} /\ e.arcByHand \in BOOLEAN
    BY <1>3 DEF RowOK, Shape
  <2> QED  BY <1>3, <1>4, <2>1, <2>2 DEF Shape
<1>6. Sound(d, e)
  <2>1. \A g \in Stories!Fields[d] : c[g].by = "ai" => c[g].of = r.of
    BY <1>1, <1>2 DEF RowOK, Sound
  <2>2. ~e.arcByHand => ~r.arcByHand /\ Stories!cited(c) = Stories!cited(r.content)
    BY <1>3
  <2> QED  BY <1>3, <2>1, <2>2 DEF RowOK, Sound
<1>7. Stands(d, e)
  BY <1>3 DEF RowOK, Stands
<1>8. Stories!cited(r.content) \subseteq citable => Stories!cited(c) \subseteq citable
  BY <1>1, <1>2 DEF Stories!cited, RowOK, Shape
<1> QED  BY <1>3, <1>5, <1>6, <1>7, <1>8 DEF RowOK, e

\* The Creator's fields in a reply: every field the model wrote is of that input,
\* and the Creator owns what the Creator owned.
LEMMA KeptOK ==
    ASSUME NEW d \in Stories!Documents, NEW copy, Shape(d, copy), NEW w, NEW of, NEW cites
    PROVE  LET content == Stories!KeepCreatorFields(copy, Stories!Reply(d, w, of, cites))
           IN  /\ content = [f \in Stories!Fields[d] |-> content[f]]
               /\ copy.mine = {f \in Stories!Fields[d] : content[f].by = "creator"}
               /\ \A f \in Stories!Fields[d] : content[f].by = "ai" => content[f].of = of
<1> DEFINE reply == Stories!Reply(d, w, of, cites)
           content == Stories!KeepCreatorFields(copy, reply)
<1>1. \A f \in Stories!Fields[d] : reply[f].by = "ai" /\ reply[f].of = of
  BY DEF Stories!Reply, Stories!Text
<1> HIDE DEF reply
<1>2. content = [f \in Stories!Fields[d] |-> IF f \in copy.mine THEN copy.content[f] ELSE reply[f]]
  BY DEF Stories!KeepCreatorFields, Shape
<1> HIDE DEF content
<1>3. \A f \in Stories!Fields[d] : content[f] = IF f \in copy.mine THEN copy.content[f] ELSE reply[f]
  BY <1>2
<1>4. copy.mine = {f \in Stories!Fields[d] : copy.content[f].by = "creator"}
  BY DEF Shape
<1>5. copy.mine = {f \in Stories!Fields[d] : content[f].by = "creator"}
  BY <1>1, <1>3, <1>4
<1>6. \A f \in Stories!Fields[d] : content[f].by = "ai" => content[f].of = of
  BY <1>1, <1>3, <1>4
<1>7. content = [f \in Stories!Fields[d] |-> content[f]]
  BY <1>2
<1> QED  BY <1>5, <1>6, <1>7 DEF content, reply

-----------------------------------------------------------------------------
(* The initial states.                                                     *)

\* A row the model wrote is sound when its content is, whoever owns the fields.
LEMMA RewrittenOK ==
    ASSUME NEW d \in Stories!Documents, NEW copy, NEW content, NEW of,
           content = [f \in Stories!Fields[d] |-> content[f]],
           copy.mine = {f \in Stories!Fields[d] : content[f].by = "creator"},
           \A f \in Stories!Fields[d] : content[f].by = "ai" => content[f].of = of,
           d = "story" => StoryShape(of) /\ Stories!cited(content) \subseteq of.facts
    PROVE  /\ Shape(d, Stories!Rewritten(copy, content, of))
           /\ Sound(d, Stories!Rewritten(copy, content, of))
           /\ Stands(d, Stories!Rewritten(copy, content, of))
           /\ Stories!Rewritten(copy, content, of).content = content
BY DEF Stories!Rewritten, Shape, Sound, Stands

\* The status of a row changed, and nothing else of it.
LEMMA StatusOK ==
    ASSUME NEW d \in Stories!Documents, NEW r, Shape(d, r), NEW status \in {"pending", "approved"}
    PROVE  /\ Shape(d, [r EXCEPT !.status = status])
           /\ Sound(d, r) => Sound(d, [r EXCEPT !.status = status])
           /\ [r EXCEPT !.status = status].content = r.content
           /\ [r EXCEPT !.status = status].status = status
           /\ [r EXCEPT !.status = status].of = r.of
           /\ [r EXCEPT !.status = status].arcByHand = r.arcByHand
<1> DEFINE e == [r EXCEPT !.status = status]
<1>1. /\ DOMAIN e = DOMAIN r /\ e.status = status /\ e.content = r.content
      /\ e.mine = r.mine /\ e.of = r.of /\ e.arcByHand = r.arcByHand
  BY DEF Shape
<1> HIDE DEF e
<1>2. Shape(d, e)
  BY <1>1 DEF Shape
<1>3. Sound(d, r) => Sound(d, e)
  BY <1>1 DEF Sound
<1> QED  BY <1>1, <1>2, <1>3 DEF e
\* The rows a project that is under way starts with.
LEMMA AnsweredOK ==
    ASSUME NEW d \in {"idea", "brief"}, NEW of, NEW w
    PROVE  LET r == [Stories!Rewritten(Stories!NewRow(d, of), Stories!Reply(d, w, of, {}), of)
                        EXCEPT !.status = "approved"]
           IN  Shape(d, r) /\ Sound(d, r) /\ r.status = "approved"
<1>0. d \in Stories!Documents /\ d # "story"
  BY DocumentsAre
<1> DEFINE copy == Stories!NewRow(d, of)
           content == Stories!Reply(d, w, of, {})
           r == Stories!Rewritten(copy, content, of)
<1>1. content = [f \in Stories!Fields[d] |-> content[f]]
  BY DEF Stories!Reply
<1>2. \A f \in Stories!Fields[d] : content[f].by = "ai" /\ content[f].of = of
  BY DEF Stories!Reply, Stories!Text
<1>3. copy.mine = {}
  BY DEF Stories!NewRow
<1> HIDE DEF content, copy
<1>4. Shape(d, r) /\ Sound(d, r)
  BY <1>0, <1>1, <1>2, <1>3, RewrittenOK
<1> HIDE DEF r
<1> QED  BY <1>0, <1>4, StatusOK DEF content, copy, r

\* The invariant holds at the start.
LEMMA StoriesInit ==
    ASSUME Stories!Init
    PROVE  StoriesInv
<1>1. StoryScalarsOK
  <2>1. resolved \in BOOLEAN
    <3>1. resolved = TRUE \/ resolved = FALSE
      BY Zenon DEF Stories!Init
    <3> QED  BY <3>1
  <2>2. /\ subject \in Subjects /\ kept = Facts /\ writings = 0 /\ changes = 0
        /\ checked = [d \in Stories!Documents |-> IF Stories!Written(d) THEN {row[d].content} ELSE {}]
    BY DEF Stories!Init
  <2> QED  BY <2>1, <2>2, StoriesAssumption DEF Stories!BoundsAssumption, StoryScalarsOK
<1>2. StoryCallsOK
  BY DEF Stories!Init, StoryCallsOK, StoryCallOK, Stories!Idle
<1>3. ReviewsOK
  BY DEF Stories!Init, ReviewsOK
<1>4. RowsOK
  <2> DEFINE answered(w, d, of) ==
               [Stories!Rewritten(Stories!NewRow(d, of), Stories!Reply(d, w, of, {}), of)
                   EXCEPT !.status = "approved"]
  <2>1. CASE row = <<>>
    BY <2>1 DEF RowsOK
  <2>2. CASE row # <<>>
    <3>1. PICK w : row = [d \in {"idea", "brief"} |->
                             IF d = "idea" THEN answered(w, "idea", subject)
                             ELSE answered(w, "brief", answered(w, "idea", subject).content)]
      BY <2>2 DEF Stories!Init
    <3>2. \A d \in {"idea", "brief"} : \A of :
             /\ Shape(d, answered(w, d, of)) /\ Sound(d, answered(w, d, of))
             /\ answered(w, d, of).status = "approved"
      BY AnsweredOK
    <3> HIDE DEF answered
    <3>3. DOMAIN row = {"idea", "brief"} /\ row = [d \in DOMAIN row |-> row[d]]
      BY <3>1
    <3>4. \A d \in DOMAIN row : Shape(d, row[d]) /\ Sound(d, row[d])
      BY <3>1, <3>2
    <3>5. \A d \in DOMAIN row : row[d].content \in checked[d]
      BY <3>3, DocumentsAre DEF Stories!Init, Stories!Written
    <3> QED  BY <3>3, <3>4, <3>5, DocumentsAre DEF RowsOK, RowOK, Stands
  <2> QED  BY <2>1, <2>2
<1> QED  BY <1>1, <1>2, <1>3, <1>4 DEF StoriesInv
-----------------------------------------------------------------------------
(* The steps.                                                              *)

\* What has been validated stays validated.
LEMMA RowOKGrows ==
    ASSUME NEW d \in Stories!Documents, NEW r, RowOK(d, r), checked[d] \subseteq checked'[d]
    PROVE  RowOK(d, r)'
BY DEF RowOK, Shape, Sound, Stands, StoryShape, Stories!cited

\* What a request holds stays in shape as more answers are checked.
LEMMA StoryCallOKGrows ==
    ASSUME NEW c, StoryCallOK(c), \A d \in Stories!Documents : checked[d] \subseteq checked'[d]
    PROVE  StoryCallOK(c)'
<1>1. c.op = "save" => RowOK(c.doc, c.row)'
  BY RowOKGrows DEF StoryCallOK
<1> QED  BY <1>1 DEF StoryCallOK, Shape, StoryShape

\* So do the rows.
LEMMA RowsGrow ==
    ASSUME RowsOK, row' = row, \A d \in Stories!Documents : checked[d] \subseteq checked'[d]
    PROVE  RowsOK'
<1>1. \A d \in DOMAIN row : RowOK(d, row[d])'
  <2> TAKE d \in DOMAIN row
  <2>1. PICK r : r = row[d]
    OBVIOUS
  <2>2. d \in Stories!Documents /\ RowOK(d, r)
    BY <2>1 DEF RowsOK
  <2>3. RowOK(d, r)'
    BY <2>2, RowOKGrows
  <2>4. r = row'[d]
    BY <2>1
  <2> QED  BY <2>3, <2>4
<1> QED  BY <1>1 DEF RowsOK

\* A thread takes a request.
LEMMA StoryBeginsInv ==
    ASSUME StoriesInv, NEW t \in Threads, NEW local, Stories!Begins(t, local), StoryCallOK(local)',
           checked' = [d \in Stories!Documents |-> checked'[d]],
           \A d \in Stories!Documents : checked[d] \subseteq checked'[d]
    PROVE  StoriesInv'
<1>1. StoryScalarsOK'
  BY StoriesAssumption DEF Stories!BoundsAssumption, StoriesInv, StoryScalarsOK, Stories!Begins,
                            Stories!inputs
<1>2. RowsOK'
  BY RowsGrow DEF StoriesInv, Stories!Begins
<1>3. StoryCallsOK'
  <2>1. writing' = [u \in Threads |-> IF u = t THEN local ELSE writing[u]]
    BY DEF Stories!Begins, StoriesInv, StoryCallsOK
  <2>2. \A u \in Threads : StoryCallOK(writing[u])'
    <3> TAKE u \in Threads
    <3>1. CASE u = t
      BY <2>1, <3>1
    <3>2. CASE u # t
      <4>1. PICK c : c = writing[u]
        OBVIOUS
      <4>2. StoryCallOK(c)'
        BY <4>1, StoryCallOKGrows DEF StoriesInv, StoryCallsOK
      <4>3. c = writing'[u]
        BY <2>1, <3>2, <4>1
      <4> QED  BY <4>2, <4>3
    <3> QED  BY <3>1, <3>2
  <2> QED  BY <2>1, <2>2 DEF StoryCallsOK
<1>4. ReviewsOK'
  BY DEF StoriesInv, ReviewsOK, Stories!Begins
<1> QED  BY <1>1, <1>2, <1>3, <1>4 DEF StoriesInv

\* A request that checks nothing yet.
LEMMA BeginsUncheckedInv ==
    ASSUME StoriesInv, NEW t \in Threads, NEW local, Stories!Begins(t, local), StoryCallOK(local),
           UNCHANGED checked
    PROVE  StoriesInv'
<1>1. checked' = [d \in Stories!Documents |-> checked'[d]]
  BY DEF StoriesInv, StoryScalarsOK
<1>2. StoryCallOK(local)'
  BY StoryCallOKGrows
<1> QED  BY <1>1, <1>2, StoryBeginsInv

\* A request that asks the model, of a document as it is or new.
LEMMA CurrentOK ==
    ASSUME StoriesInv, NEW d \in Stories!Documents
    PROVE  Shape(d, Stories!current(d))
<1>1. CASE Stories!Written(d)
  BY <1>1 DEF StoriesInv, RowsOK, RowOK, Stories!current, Stories!Written
<1>2. CASE ~Stories!Written(d)
  BY <1>2, NewRowOK DEF Stories!current
<1> QED  BY <1>1, <1>2

\* A request that asks the model.
LEMMA AsksInv ==
    ASSUME StoriesInv, NEW t \in Threads, NEW d \in Stories!Documents, NEW op \in {"generate", "review"},
           NEW input, op = "generate" /\ d = "story" => StoryShape(input),
           op = "review" => d # "story",
           Stories!Begins(t, Stories!Asks(op, d, input)), UNCHANGED checked
    PROVE  StoriesInv'
<1>1. PICK c : c = Stories!Asks(op, d, input)
  OBVIOUS
<1>2. c.op = op /\ c.doc = d /\ c.row = Stories!current(d) /\ c.input = input
  BY <1>1 DEF Stories!Asks
<1>3. StoryCallOK(c)
  BY <1>2, CurrentOK, DocumentsAre DEF StoryCallOK
<1> QED  BY <1>1, <1>3, BeginsUncheckedInv

\* A request that has its row to save.
LEMMA SavesOK ==
    ASSUME NEW d \in Stories!Documents, NEW r, RowOK(d, r)
    PROVE  StoryCallOK(Stories!Saves(d, r))
BY DEF StoryCallOK, Stories!Saves

\* A request that saves a row in shape.
LEMMA SavesInv ==
    ASSUME StoriesInv, NEW t \in Threads, NEW d \in Stories!Documents, NEW r, RowOK(d, r),
           Stories!Begins(t, Stories!Saves(d, r)), UNCHANGED checked
    PROVE  StoriesInv'
<1>1. StoryCallOK(Stories!Saves(d, r))
  BY SavesOK
<1> QED  BY <1>1, BeginsUncheckedInv
\* The row an edit starts from.
LEMMA EditRowOK ==
    ASSUME StoriesInv, NEW d \in Stories!Documents, NEW input, d = "story" => StoryShape(input)
    PROVE  /\ RowOK(d, Stories!EditRow(d, input))
           /\ ~Stories!Written(d) => /\ Stories!EditRow(d, input).of = input
                                     /\ Stories!EditRow(d, input).status = "pending"
                             /\ Stories!cited(Stories!EditRow(d, input).content) = {}
<1>1. CASE Stories!Written(d)
  BY <1>1 DEF StoriesInv, RowsOK, Stories!EditRow, Stories!Written
<1>2. CASE ~Stories!Written(d)
  <2> DEFINE r == Stories!NewRow(d, input)
  <2>1. /\ Shape(d, r) /\ r.of = input /\ r.status = "pending"
        /\ \A f \in Stories!Fields[d] : r.content[f] = Stories!Empty
    BY NewRowOK
  <2>2. Stories!Empty.by = "nobody" /\ Stories!Empty.cites = {}
    BY DEF Stories!Empty, Stories!Text
  <2> HIDE DEF r
  <2>3. Stories!cited(r.content) = {}
    BY <2>1, <2>2 DEF Stories!cited, Shape
  <2>4. RowOK(d, r)
    BY <2>1, <2>2, <2>3 DEF RowOK, Sound, Stands
  <2>5. Stories!EditRow(d, input) = r
    BY <1>2 DEF Stories!EditRow, r
  <2> QED  BY <2>1, <2>3, <2>4, <2>5
<1> QED  BY <1>1, <1>2

\* An edit by hand of the idea or the brief.
LEMMA EditInv ==
    ASSUME StoriesInv, NEW t \in Threads, NEW d \in {"idea", "brief"}, NEW input,
           NEW patch \in Stories!Patches(d, {}),
           Stories!Begins(t, Stories!Saves(d, Stories!Edited(Stories!EditRow(d, input), patch))),
           UNCHANGED checked
    PROVE  StoriesInv'
<1>1. d \in Stories!Documents /\ d # "story"
  BY DocumentsAre
<1>2. RowOK(d, Stories!EditRow(d, input))
  BY <1>1, EditRowOK
<1>3. RowOK(d, Stories!Edited(Stories!EditRow(d, input), patch))
  BY <1>1, <1>2, EditedRowOK
<1> QED  BY <1>1, <1>3, SavesInv

\* The first edit of the story records the facts its arc may cite.
LEMMA EditStoryInv ==
    ASSUME StoriesInv, NEW t \in Threads, Stories!EditStory(t)
    PROVE  StoriesInv'
<1> DEFINE d == "story"
<1>0. PICK patch \in Stories!Patches(d, kept) : \E e :
         /\ e = Stories!Edited(Stories!EditRow(d, Stories!StoryInput), patch)
         /\ Stories!Begins(t, Stories!Saves(d, [e EXCEPT !.arcByHand = @ /\ Stories!Written(d)]))
         /\ UNCHANGED checked
  BY Zenon DEF Stories!EditStory
<1>1. PICK e :
         /\ e = Stories!Edited(Stories!EditRow(d, Stories!StoryInput), patch)
         /\ Stories!Begins(t, Stories!Saves(d, [e EXCEPT !.arcByHand = @ /\ Stories!Written(d)]))
         /\ UNCHANGED checked
  BY <1>0
<1>2. PICK r : r = [e EXCEPT !.arcByHand = @ /\ Stories!Written(d)]
  OBVIOUS
<1>3. d \in Stories!Documents /\ StoryShape(Stories!StoryInput) /\ Stories!StoryInput.facts = kept
  BY DocumentsAre DEF StoryShape, Stories!StoryInput
<1>4. PICK was : was = Stories!EditRow(d, Stories!StoryInput)
  OBVIOUS
<1>5. /\ RowOK(d, was)
      /\ ~Stories!Written(d) => was.of = Stories!StoryInput /\ was.status = "pending"
                                  /\ Stories!cited(was.content) = {}
  BY <1>3, <1>4, EditRowOK
<1>6. /\ RowOK(d, e) /\ e.of = was.of
      /\ Stories!cited(was.content) \subseteq kept => Stories!cited(e.content) \subseteq kept
  BY <1>1, <1>3, <1>4, <1>5, EditedRowOK
<1>7. /\ DOMAIN r = DOMAIN e /\ r.content = e.content /\ r.mine = e.mine /\ r.status = e.status
      /\ r.of = e.of /\ r.arcByHand = (e.arcByHand /\ Stories!Written(d))
  BY <1>2, <1>6 DEF RowOK, Shape
<1>8. Shape(d, r)
  BY <1>6, <1>7 DEF RowOK, Shape, Stories!Written
<1>9. Sound(d, r)
  <2>1. Stories!cited(r.content) \subseteq r.of.facts \/ r.arcByHand
    <3>1. CASE Stories!Written(d)
      BY <1>6, <1>7, <3>1 DEF RowOK, Sound
    <3>2. CASE ~Stories!Written(d)
      BY <1>3, <1>5, <1>6, <1>7, <3>2
    <3> QED  BY <3>1, <3>2
  <2> QED  BY <2>1, <1>6, <1>7 DEF RowOK, Sound
<1>10. Stands(d, r)
  BY <1>6, <1>7 DEF RowOK, Stands
<1> QED  BY <1>1, <1>2, <1>3, <1>8, <1>9, <1>10, SavesInv DEF RowOK

\* An approval records that the row as it was read has been validated.
LEMMA ApprovesInv ==
    ASSUME StoriesInv, NEW t \in Threads, NEW d \in Stories!Documents, Stories!Approves(t, d)
    PROVE  StoriesInv'
<1>1. PICK r : r = [row[d] EXCEPT !.status = "approved"]
  OBVIOUS
<1>2. PICK c : c = Stories!Saves(d, r)
  OBVIOUS
<1>3. Stories!Begins(t, c)
  BY <1>1, <1>2 DEF Stories!Approves
<1>4. RowOK(d, row[d])
  BY DEF Stories!Approves, Stories!Written, StoriesInv, RowsOK
<1>5. Shape(d, r) /\ Sound(d, r) /\ r.content = row[d].content
  BY <1>1, <1>4, StatusOK DEF RowOK
<1>6. checked = [e \in Stories!Documents |-> checked[e]]
  BY DEF StoriesInv, StoryScalarsOK
<1>7. /\ checked' = [e \in Stories!Documents |-> checked'[e]]
      /\ \A e \in Stories!Documents : checked[e] \subseteq checked'[e]
      /\ r.content \in checked'[d]
  BY <1>5, <1>6 DEF Stories!Approves
<1>8. RowOK(d, r)'
  BY <1>5, <1>7 DEF RowOK, Stands, Shape, Sound, StoryShape, Stories!cited
<1>9. StoryCallOK(c)'
  BY <1>2, <1>8 DEF StoryCallOK, Stories!Saves
<1> QED  BY <1>3, <1>7, <1>9, StoryBeginsInv

\* An approval taken back.
LEMMA UnapprovesInv ==
    ASSUME StoriesInv, NEW t \in Threads, NEW d \in Stories!Documents, Stories!Unapproves(t, d)
    PROVE  StoriesInv'
<1>1. PICK r : r = [row[d] EXCEPT !.status = "pending"]
  OBVIOUS
<1>2. RowOK(d, row[d])
  BY DEF Stories!Unapproves, Stories!Written, StoriesInv, RowsOK
<1>3. Shape(d, r) /\ Sound(d, r) /\ r.status = "pending"
  BY <1>1, <1>2, StatusOK DEF RowOK
<1>4. RowOK(d, r)
  BY <1>3 DEF RowOK, Stands
<1> QED  BY <1>1, <1>4, SavesInv DEF Stories!Unapproves

\* Every request begins in shape.
LEMMA RequestInv ==
    ASSUME StoriesInv, NEW t \in Threads, Stories!Request(t)
    PROVE  StoriesInv'
<1>1. CASE Stories!GenerateIdea(t)
  BY <1>1, AsksInv, DocumentsAre DEF Stories!GenerateIdea
<1>2. CASE Stories!GenerateBrief(t)
  BY <1>2, AsksInv, DocumentsAre DEF Stories!GenerateBrief
<1>3. CASE Stories!GenerateStory(t)
  <2>1. StoryShape(Stories!StoryInput)
    BY DEF StoryShape, Stories!StoryInput
  <2>2. Stories!Begins(t, Stories!Asks("generate", "story", Stories!StoryInput)) /\ UNCHANGED checked
    BY <1>3 DEF Stories!GenerateStory
  <2> QED  BY <2>1, <2>2, AsksInv, DocumentsAre
<1>4. CASE Stories!EditIdea(t)
  BY <1>4, EditInv DEF Stories!EditIdea
<1>5. CASE Stories!EditBrief(t)
  BY <1>5, EditInv DEF Stories!EditBrief
<1>6. CASE Stories!EditStory(t)
  BY <1>6, EditStoryInv
<1>7. CASE Stories!ApproveIdea(t) \/ Stories!ApproveBrief(t) \/ Stories!ApproveStory(t)
  BY <1>7, ApprovesInv, DocumentsAre DEF Stories!ApproveIdea, Stories!ApproveBrief, Stories!ApproveStory
<1>8. CASE Stories!UnapproveIdea(t) \/ Stories!UnapproveBrief(t) \/ Stories!UnapproveStory(t)
  BY <1>8, UnapprovesInv, DocumentsAre
     DEF Stories!UnapproveIdea, Stories!UnapproveBrief, Stories!UnapproveStory
<1>9. CASE Stories!ReviewIdea(t) \/ Stories!ReviewBrief(t)
  BY <1>9, AsksInv, DocumentsAre DEF Stories!ReviewIdea, Stories!ReviewBrief, Stories!Reviews
<1> QED
  BY <1>1, <1>2, <1>3, <1>4, <1>5, <1>6, <1>7, <1>8, <1>9 DEF Stories!Request

\* A thread that returns leaves the other requests as they are.
LEMMA ReturnsOK ==
    ASSUME StoryCallsOK, NEW t \in Threads, Stories!Returns(t), UNCHANGED checked
    PROVE  StoryCallsOK'
<1>1. writing' = [u \in Threads |-> IF u = t THEN Stories!Idle ELSE writing[u]]
  BY DEF Stories!Returns, StoryCallsOK
<1>2. StoryCallOK(Stories!Idle)
  BY DEF StoryCallOK, Stories!Idle
<1>3. \A u \in Threads : StoryCallOK(writing'[u])
  BY <1>1, <1>2 DEF StoryCallsOK
<1>4. \A u \in Threads : StoryCallOK(writing[u])'
  BY <1>3 DEF StoryCallOK, RowOK, Stands, Shape, Sound, StoryShape, Stories!cited
<1> QED  BY <1>1, <1>4 DEF StoryCallsOK

\* A row saved over whatever is stored.
LEMMA SavedInv ==
    ASSUME StoriesInv, NEW t \in Threads, NEW d \in Stories!Documents, NEW r, RowOK(d, r),
           Stories!Saved(t, d, r)
    PROVE  StoriesInv'
<1>1. StoryScalarsOK'
  BY DEF StoriesInv, StoryScalarsOK, Stories!Saved, Stories!inputs
<1>2. StoryCallsOK'
  BY ReturnsOK DEF StoriesInv, Stories!Saved
<1>3. ReviewsOK'
  BY DEF StoriesInv, ReviewsOK, Stories!Saved
<1>4. RowsOK'
  <2>1. row' = [e \in DOMAIN row \cup {d} |-> IF e = d THEN r ELSE row[e]]
    BY DEF Stories!Saved, Stories!Upsert
  <2>2. \A e \in DOMAIN row' : RowOK(e, row'[e])
    BY <2>1 DEF StoriesInv, RowsOK
  <2>3. \A e \in DOMAIN row' : RowOK(e, row[e])'
    BY <2>2 DEF Stories!Saved, RowOK, Stands, Shape, Sound, StoryShape, Stories!cited
  <2> QED  BY <2>1, <2>3 DEF StoriesInv, RowsOK
<1> QED  BY <1>1, <1>2, <1>3, <1>4 DEF StoriesInv

\* A row is saved.
LEMMA SaveInv ==
    ASSUME StoriesInv, NEW t \in Threads, Stories!Save(t)
    PROVE  StoriesInv'
<1>1. writing[t].doc \in Stories!Documents /\ RowOK(writing[t].doc, writing[t].row)
  BY DEF Stories!Save, StoriesInv, StoryCallsOK, StoryCallOK
<1> QED  BY <1>1, SavedInv DEF Stories!Save

\* The row of an answer, whatever the row and the inputs have become.
LEMMA AnswerInv ==
    ASSUME StoriesInv, NEW t \in Threads, NEW d \in Stories!Documents, Stories!Generating(t, d),
           NEW w, NEW cites,
           Stories!WriteAnswer(t, d, Stories!Kept(t, Stories!Reply(d, w, writing[t].input, cites))),
           d = "story" => Stories!cited(Stories!Kept(t, Stories!Reply(d, w, writing[t].input, cites)))
                              \subseteq writing[t].input.facts
    PROVE  StoriesInv'
<1>1. PICK copy, of, content :
         copy = writing[t].row /\ of = writing[t].input
         /\ content = Stories!KeepCreatorFields(copy, Stories!Reply(d, w, of, cites))
  OBVIOUS
<1>2. Shape(d, copy) /\ (d = "story" => StoryShape(of))
  BY <1>1 DEF Stories!Generating, StoriesInv, StoryCallsOK, StoryCallOK
<1>3. /\ content = [f \in Stories!Fields[d] |-> content[f]]
      /\ copy.mine = {f \in Stories!Fields[d] : content[f].by = "creator"}
      /\ \A f \in Stories!Fields[d] : content[f].by = "ai" => content[f].of = of
  BY <1>1, <1>2, KeptOK
<1>4. RowOK(d, Stories!Rewritten(copy, content, of))
  <2>1. d = "story" => Stories!cited(content) \subseteq of.facts
    BY <1>1 DEF Stories!Kept
  <2> QED  BY <1>2, <1>3, <2>1, RewrittenOK DEF RowOK
<1>5. Stories!Saved(t, d, Stories!Rewritten(copy, content, of))
  BY <1>1 DEF Stories!WriteAnswer, Stories!Kept
<1> QED  BY <1>4, <1>5, SavedInv

\* The answer of the model is saved as a row that stands on what it was asked with.
LEMMA WriteInv ==
    ASSUME StoriesInv, NEW t \in Threads,
           Stories!WriteIdea(t) \/ Stories!WriteBrief(t) \/ Stories!WriteStory(t)
    PROVE  StoriesInv'
<1>1. CASE Stories!WriteIdea(t)
  BY <1>1, AnswerInv, DocumentsAre DEF Stories!WriteIdea, Stories!ParseProjectIdeaReply
<1>2. CASE Stories!WriteBrief(t)
  BY <1>2, AnswerInv, DocumentsAre DEF Stories!WriteBrief, Stories!ParseProjectBriefReply
<1>3. CASE Stories!WriteStory(t)
  BY <1>3, AnswerInv, DocumentsAre DEF Stories!WriteStory, Stories!ParseStoryReply, Stories!CheckStoryFacts
<1> QED  BY <1>1, <1>2, <1>3

\* A request ends with nothing saved.
LEMMA FailInv ==
    ASSUME StoriesInv, NEW t \in Threads, Stories!Fail(t)
    PROVE  StoriesInv'
<1>1. StoryScalarsOK'
  BY DEF StoriesInv, StoryScalarsOK, Stories!Fail, Stories!inputs
<1>2. RowsOK'
  BY RowsGrow DEF StoriesInv, Stories!Fail
<1>3. StoryCallsOK'
  BY ReturnsOK DEF StoriesInv, Stories!Fail
<1>4. ReviewsOK'
  BY DEF StoriesInv, ReviewsOK, Stories!Fail
<1> QED  BY <1>1, <1>2, <1>3, <1>4 DEF StoriesInv

\* A review is stored with the hash of what was read.
LEMMA WriteReviewInv ==
    ASSUME StoriesInv, NEW t \in Threads, Stories!WriteReview(t)
    PROVE  StoriesInv'
<1>1. StoryScalarsOK'
  BY DEF StoriesInv, StoryScalarsOK, Stories!WriteReview, Stories!inputs
<1>2. RowsOK'
  BY RowsGrow DEF StoriesInv, Stories!WriteReview
<1>3. StoryCallsOK'
  BY ReturnsOK DEF StoriesInv, Stories!WriteReview
<1>4. ReviewsOK'
  <2>1. PICK d, content : d = writing[t].doc /\ content = writing[t].row.content
    OBVIOUS
  <2>2. d \in {"idea", "brief"}
    BY <2>1 DEF Stories!WriteReview, StoriesInv, StoryCallsOK, StoryCallOK
  <2>3. review' = [e \in DOMAIN review \cup {d} |->
                      IF e = d THEN Stories!ReviewOf(content) ELSE review[e]]
    BY <2>1 DEF Stories!WriteReview, Stories!Upsert
  <2>4. Stories!ReviewOf(content).hash = Stories!ReviewOf(content).read
    BY DEF Stories!ReviewOf
  <2> QED  BY <2>2, <2>3, <2>4 DEF StoriesInv, ReviewsOK
<1> QED  BY <1>1, <1>2, <1>3, <1>4 DEF StoriesInv

\* A change of what the documents are made from leaves the requests.
LEMMA CallsGrow ==
    ASSUME StoryCallsOK, UNCHANGED <<writing, checked>>
    PROVE  StoryCallsOK'
<1>1. \A t \in Threads : StoryCallOK(writing[t])'
  BY DEF StoryCallsOK, StoryCallOK, RowOK, Stands, Shape, Sound, StoryShape, Stories!cited
<1> QED  BY <1>1 DEF StoryCallsOK

\* A change of the topic, of the facts or of the research leaves the rows.
LEMMA ChangesInv ==
    ASSUME StoriesInv, Stories!UpdateTopic \/ Stories!ChangeFacts \/ Stories!ResearchStanding
    PROVE  StoriesInv'
<1>1. /\ subject' \in Subjects /\ kept' \subseteq Facts /\ resolved' \in BOOLEAN
      /\ Stories!Changes
  <2>1. CASE Stories!UpdateTopic
    BY <2>1 DEF Stories!UpdateTopic, StoriesInv, StoryScalarsOK
  <2>2. CASE Stories!ChangeFacts
    BY <2>2 DEF Stories!ChangeFacts, StoriesInv, StoryScalarsOK
  <2>3. CASE Stories!ResearchStanding
    BY <2>3 DEF Stories!ResearchStanding, StoriesInv, StoryScalarsOK
  <2> QED  BY <2>1, <2>2, <2>3
<1>2. StoryScalarsOK'
  BY <1>1, StoriesAssumption DEF Stories!BoundsAssumption, StoriesInv, StoryScalarsOK, Stories!Changes
<1>3. RowsOK'
  BY <1>1, RowsGrow DEF StoriesInv, Stories!Changes
<1>4. StoryCallsOK'
  BY <1>1, CallsGrow DEF StoriesInv, Stories!Changes
<1>5. ReviewsOK'
  BY <1>1 DEF StoriesInv, ReviewsOK, Stories!Changes
<1> QED  BY <1>2, <1>3, <1>4, <1>5 DEF StoriesInv

\* Every step keeps the invariant.
LEMMA StoriesInvStep ==
    ASSUME StoriesInv, [Stories!Next]_(Stories!vars)
    PROVE  StoriesInv'
<1>1. CASE UNCHANGED Stories!vars
  <2>1. StoryScalarsOK'
    BY <1>1 DEF StoriesInv, StoryScalarsOK, Stories!vars, Stories!inputs
  <2>2. RowsOK'
    BY <1>1, RowsGrow DEF StoriesInv, Stories!vars
  <2>3. StoryCallsOK'
    BY <1>1, CallsGrow DEF StoriesInv, Stories!vars
  <2>4. ReviewsOK'
    BY <1>1 DEF StoriesInv, ReviewsOK, Stories!vars
  <2> QED  BY <2>1, <2>2, <2>3, <2>4 DEF StoriesInv
<1>2. ASSUME NEW t \in Threads,
             \/ Stories!Request(t) \/ Stories!Save(t)
             \/ Stories!WriteIdea(t) \/ Stories!WriteBrief(t) \/ Stories!WriteStory(t)
             \/ Stories!WriteReview(t)
             \/ Stories!Fail(t)
      PROVE  StoriesInv'
  BY <1>2, RequestInv, SaveInv, WriteInv, WriteReviewInv, FailInv
<1>3. CASE Stories!UpdateTopic \/ Stories!ChangeFacts \/ Stories!ResearchStanding
  BY <1>3, ChangesInv
<1> QED  BY <1>1, <1>2, <1>3 DEF Stories!Next

\* Every stored row, and every row about to be stored, is in shape and stands on the
\* input whose hash it carries, whatever requests overlap.
THEOREM StoriesInvAlways == Stories!Spec => []StoriesInv
<1>1. Stories!Init => StoriesInv
  BY StoriesInit
<1>2. StoriesInv /\ [Stories!Next]_(Stories!vars) => StoriesInv'
  BY StoriesInvStep
<1> QED  BY <1>1, <1>2, PTL DEF Stories!Spec

-----------------------------------------------------------------------------
(* The story: theorems.                                                    *)

\* Type correctness: the three rows have their fields, and the Creator owns
\* those whose text the Creator wrote, whatever requests overlap.
THEOREM StoriesTypeCorrect == Stories!Spec => []Stories!TypeOK
<1>1. StoriesInv => Stories!TypeOK
  BY DEF StoriesInv, StoryScalarsOK, RowsOK, RowOK, Shape, ReviewsOK, Stories!TypeOK
<1> QED  BY <1>1, StoriesInvAlways, PTL

\* A document shown as up to date was written, and a review shown as up to
\* date read, from what there is now.
THEOREM FreshIsFresh == Stories!Spec => []FreshIsOfInput
<1>1. ASSUME StoriesInv PROVE FreshIsOfInput
  <2>1. \A d \in DOMAIN row : Sound(d, row[d])
    BY <1>1 DEF StoriesInv, RowsOK, RowOK
  <2>2. Stories!Written("idea") /\ ~Stories!InputChanged => Stories!AiWrittenFrom("idea", Stories!IdeaInput)
    BY <2>1 DEF Stories!Written, Stories!InputChanged, Stories!AiWrittenFrom, Sound
  <2>3. Stories!Written("brief") /\ ~Stories!IdeaChanged /\ Stories!Approved("idea") =>
           Stories!AiWrittenFrom("brief", Stories!BriefInput)
    BY <2>1 DEF Stories!Written, Stories!IdeaChanged, Stories!AiWrittenFrom, Sound
  <2>4. ASSUME Stories!Written("story"), Stories!Approved("brief"), resolved,
               ~Stories!BriefStale, ~Stories!ResearchStale
        PROVE  Stories!AiWrittenFrom("story", Stories!StoryInput)
    <3>1. PICK r : r = row["story"]
      OBVIOUS
    <3>2. Sound("story", r)
      BY <2>1, <2>4, <3>1 DEF Stories!Written
    <3>3. r.of.brief = Stories!StoryInput.brief /\ r.of.facts = Stories!StoryInput.facts
      BY <2>4, <3>1 DEF Stories!BriefStale, Stories!ResearchStale
    <3>4. r.of = Stories!StoryInput
      BY <3>2, <3>3 DEF Sound, StoryShape, Stories!StoryInput
    <3> QED  BY <3>1, <3>2, <3>4 DEF Sound, Stories!AiWrittenFrom
  <2>5. \A d \in DOMAIN review :
           Stories!Written(d) /\ ~Stories!ReviewStale(d) => review[d].read = row[d].content
    BY <1>1 DEF StoriesInv, ReviewsOK, Stories!ReviewStale
  <2> QED  BY <2>2, <2>3, <2>4, <2>5 DEF FreshIsOfInput, Stories!FreshIsOfInput
<1> QED  BY <1>1, StoriesInvAlways, PTL

\* What the later steps read as approved has been validated and approved as it
\* stands, whatever edits, runs of the model and approvals overlapped.
THEOREM ApprovedStands == Stories!Spec => []ApprovedWasApproved
<1>1. StoriesInv => ApprovedWasApproved
  BY DEF StoriesInv, RowsOK, RowOK, Stands, Stories!Approved, ApprovedWasApproved, Stories!ApprovedWasApproved
<1> QED  BY <1>1, StoriesInvAlways, PTL

\* A story fresh against the research, whose arc was not changed by hand since
\* the model last ran, cites kept facts only.
THEOREM FreshStoryStands == Stories!Spec => []FreshStoryCitesKept
<1>1. StoriesInv => FreshStoryCitesKept
  BY DEF StoriesInv, RowsOK, RowOK, Sound, Stories!Written, Stories!ResearchStale, Stories!StoryInput,
         FreshStoryCitesKept, Stories!FreshStoryCitesKept
<1> QED  BY <1>1, StoriesInvAlways, PTL

-----------------------------------------------------------------------------
(* The two side by side.                                                   *)

\* The story does in its run only what it does alone, and the facts stay.
THEOREM SideBySide == StoriesSpec => Stories!Spec /\ Spec
<1>1. BothInit => Stories!Init /\ Init
  BY DEF BothInit
<1>2. [StoriesNext]_<<researchVars, storyVars>> => [Stories!Next]_(Stories!vars) /\ [Next]_vars
  BY DEF StoriesNext, researchVars, storyVars, Stories!vars, Stories!inputs, vars
<1> QED  BY <1>1, <1>2, PTL DEF StoriesSpec, Stories!Spec, Spec
=============================================================================
