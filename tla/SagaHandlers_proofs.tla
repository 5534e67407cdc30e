-------------------------- MODULE SagaHandlers_proofs --------------------------
(***************************************************************************)
(* SagaHandlers implements RenderSaga: one goroutine handles the messages  *)
(* and the requests call by call, and until the first fault what it does   *)
(* amounts to the actions of RenderSaga.  A handler happens at the moment  *)
(* it knows all the calls it will make.  What they will have stored is     *)
(* worked out first (Through), then each action is matched with the one    *)
(* of RenderSaga it stands for.                                            *)
(***************************************************************************)
EXTENDS MCOrchestrator_proofs

-----------------------------------------------------------------------------
(* The handlers call by call: what is stored after a call.                 *)

\* Commands are numbered as they are sent, so none has another's number.
Rows ==
    {d \in Shared :
        /\ IsFiniteSet(d.outbox)
        /\ \A c \in d.outbox : c.id \in 1 .. Handlers!Cardinality(d.outbox)
        /\ \A c, b \in d.outbox : c.id = b.id => c = b}

\* The next command to be sent.
Numbered(d, g, s, text, stamp) ==
    [id |-> Handlers!Cardinality(d.outbox) + 1, saga |-> g, step |-> s, script |-> text,
     stamp |-> stamp]

\* The parts of what is stored.
LEMMA RowsAre ==
    ASSUME NEW d \in Rows
    PROVE  /\ d \in Shared /\ IsFiniteSet(d.outbox) /\ d.project \in ProjectRow
           /\ d.step \in [Handlers!Sagas -> [Handlers!Steps -> Handlers!StepStatuses]]
           /\ Handlers!Cardinality(d.outbox) \in Nat
           /\ d.cancel \in [second : Nat, sent : Nat]
           /\ d.cancel.second \in Nat
           /\ d.outbox \subseteq OutboxCommand
BY HandlersCount, FS_CardinalityType DEF Rows, Shared

\* A call that writes a step, and what it leaves alone.
LEMMA StepWritten ==
    ASSUME NEW d \in Rows, NEW g \in Nat, NEW s \in Handlers!Steps,
           NEW to \in Handlers!StepStatuses
    PROVE  LET e == Handlers!Do(d, Handlers!UpdateStep(g, s, to))
           IN  /\ e \in Rows /\ e.project = d.project /\ e.outbox = d.outbox
               /\ e.step = Handlers!Saga!Mark(d.step, g, s, to) /\ e.cancel = d.cancel
<1> DEFINE c == Handlers!UpdateStep(g, s, to)
           e == Handlers!Do(d, c)
<1>1. c \in StepCall
  BY DEF Handlers!UpdateStep, StepCall
<1>2. e \in Shared /\ e.outbox = d.outbox
  BY <1>1, StepCallDone DEF Rows
<1>3. e = [d EXCEPT !.step[g][s] = to]
  BY DEF Handlers!Do, Handlers!UpdateStep
<1>4. e.project = d.project /\ e.cancel = d.cancel /\ e.step = [d.step EXCEPT ![g][s] = to]
  BY <1>3 DEF Rows, Shared
<1> QED  BY <1>2, <1>4 DEF Rows, Handlers!Saga!Mark

\* A call that writes the status of the project.
LEMMA StatusWritten ==
    ASSUME NEW d \in Rows, NEW to \in Handlers!Statuses
    PROVE  LET e == Handlers!Do(d, Handlers!UpdateStatus(to))
           IN  /\ e \in Rows /\ e.project = [d.project EXCEPT !.status = to]
               /\ e.outbox = d.outbox /\ e.step = d.step /\ e.cancel = d.cancel
<1> DEFINE c == Handlers!UpdateStatus(to)
           e == Handlers!Do(d, c)
<1>1. c \in OtherCall
  BY DEF Handlers!UpdateStatus, OtherCall
<1>2. e \in Shared /\ e.outbox = d.outbox /\ e.step = d.step
  BY <1>1, OtherCallDone DEF Rows
<1>3. e = [d EXCEPT !.project.status = to]
  BY DEF Handlers!Do, Handlers!UpdateStatus
<1>4. e.cancel = d.cancel /\ e.project = [d.project EXCEPT !.status = to]
  BY <1>3 DEF Rows, Shared
<1> QED  BY <1>2, <1>4 DEF Rows

\* A call that saves the project row whole.
LEMMA RowSaved ==
    ASSUME NEW d \in Rows, NEW p \in ProjectRow
    PROVE  LET e == Handlers!Do(d, Handlers!Save(p))
           IN  /\ e \in Rows /\ e.project = p
               /\ e.outbox = d.outbox /\ e.step = d.step /\ e.cancel = d.cancel
<1> DEFINE c == Handlers!Save(p)
           e == Handlers!Do(d, c)
<1>1. c \in OtherCall
  BY DEF Handlers!Save, OtherCall
<1>2. e \in Shared /\ e.outbox = d.outbox /\ e.step = d.step
  BY <1>1, OtherCallDone DEF Rows
<1>3. e = [d EXCEPT !.project = p]
  BY DEF Handlers!Do, Handlers!Save
<1>4. e.cancel = d.cancel /\ e.project = p
  BY <1>3 DEF Rows, Shared
<1> QED  BY <1>2, <1>4 DEF Rows

\* A call that broadcasts a cancel.
LEMMA CancelSent ==
    ASSUME NEW d \in Rows, NEW at \in Nat
    PROVE  LET e == Handlers!Do(d, Handlers!PublishCancel(at))
           IN  /\ e \in Rows /\ e.project = d.project /\ e.outbox = d.outbox /\ e.step = d.step
               /\ e.cancel = [second |-> at, sent |-> Handlers!Cardinality(d.outbox)]
<1> DEFINE c == Handlers!PublishCancel(at)
           e == Handlers!Do(d, c)
           n == [second |-> at, sent |-> Handlers!Cardinality(d.outbox)]
<1>1. c \in OtherCall
  BY DEF Handlers!PublishCancel, OtherCall
<1>2. e \in Shared /\ e.outbox = d.outbox /\ e.step = d.step
  BY <1>1, OtherCallDone DEF Rows
<1>3. e = [d EXCEPT !.cancel = n]
  BY DEF Handlers!Do, Handlers!PublishCancel
<1> HIDE DEF n
<1>4. e.cancel = n /\ e.project = d.project
  BY <1>3 DEF Rows, Shared
<1> QED  BY <1>2, <1>4 DEF Rows, n

\* Between d and e command m is sent.
HasSent(d, e, m) ==
    /\ e \in Rows /\ e.project = d.project /\ e.step = d.step /\ e.cancel = d.cancel
    /\ e.outbox = d.outbox \cup {m}
    /\ Handlers!Cardinality(e.outbox) = Handlers!Cardinality(d.outbox) + 1

\* A call that sends a command: it is the next in number.
LEMMA CommandSent ==
    ASSUME NEW d \in Rows, NEW g \in Nat, NEW s \in Handlers!Steps, NEW text \in Nat,
           NEW stamp \in Nat
    PROVE  HasSent(d, Handlers!Do(d, Handlers!PublishCommand(g, s, text, stamp)),
                   Numbered(d, g, s, text, stamp))
<1> DEFINE c == Handlers!PublishCommand(g, s, text, stamp)
           e == Handlers!Do(d, c)
           x == Numbered(d, g, s, text, stamp)
           n == Handlers!Cardinality(d.outbox)
<1>1. c \in PublishCall
  BY DEF Handlers!PublishCommand, PublishCall
<1>2. e \in Shared /\ e.step = d.step
  BY <1>1, PublishCallDone DEF Rows
<1>3. e = [d EXCEPT !.outbox = @ \cup {x}]
  BY DEF Handlers!Do, Handlers!PublishCommand, Numbered
<1>4. x.id = n + 1 /\ n \in Nat
  BY RowsAre DEF Numbered
<1> HIDE DEF x
<1>5. e.project = d.project /\ e.cancel = d.cancel /\ e.outbox = d.outbox \cup {x}
  BY <1>3 DEF Rows, Shared
<1>6. \A b \in d.outbox : b.id \in 1 .. n
  BY DEF Rows
<1>7. x \notin d.outbox
  BY <1>4, <1>6
<1>8. IsFiniteSet(e.outbox) /\ Cardinality(e.outbox) = Cardinality(d.outbox) + 1
  <2>1. IsFiniteSet(d.outbox)
    BY DEF Rows
  <2>2. /\ IsFiniteSet(d.outbox \cup {x})
        /\ Cardinality(d.outbox \cup {x}) = Cardinality(d.outbox) + 1
    BY <1>7, <2>1, FS_AddElement
  <2> QED  BY <1>5, <2>2
<1>9. Handlers!Cardinality(e.outbox) = n + 1
  BY <1>8, HandlersCount
<1> HIDE DEF e, n
<1>10. e \in Rows
  <2>1. \A b \in e.outbox : b.id \in 1 .. n + 1
    BY <1>4, <1>5, <1>6
  <2>2. ASSUME NEW a \in e.outbox, NEW b \in e.outbox, a.id = b.id PROVE a = b
    <3>1. a \in d.outbox /\ b \in d.outbox => a = b
      BY <2>2 DEF Rows
    <3>2. (a = x <=> a.id = n + 1) /\ (b = x <=> b.id = n + 1)
      BY <1>4, <1>5, <1>6
    <3> QED  BY <1>5, <2>2, <3>1, <3>2
  <2> QED  BY <1>2, <1>8, <1>9, <2>1, <2>2 DEF Rows
<1> QED  BY <1>2, <1>5, <1>9, <1>10 DEF HasSent, e, x, n

\* Whatever the call, what is stored stays in shape, and a command sent is never
\* taken back.
LEMMA CallKept ==
    ASSUME NEW d \in Rows, NEW c \in HandlerCall
    PROVE  /\ Handlers!Do(d, c) \in Rows
           /\ d.outbox \subseteq Handlers!Do(d, c).outbox
           /\ \A b \in Handlers!Do(d, c).outbox \ d.outbox :
                 b.id = Handlers!Cardinality(d.outbox) + 1
           /\ c.op # "PublishCancel" => Handlers!Do(d, c).cancel = d.cancel
<1>1. CASE c \in StepCall
  <2>1. PICK g \in Nat, s \in Handlers!Steps, to \in Handlers!StepStatuses :
           c = Handlers!UpdateStep(g, s, to)
    BY <1>1 DEF StepCall, Handlers!UpdateStep
  <2>2. /\ Handlers!Do(d, Handlers!UpdateStep(g, s, to)) \in Rows
        /\ Handlers!Do(d, Handlers!UpdateStep(g, s, to)).outbox = d.outbox
        /\ Handlers!Do(d, Handlers!UpdateStep(g, s, to)).cancel = d.cancel
    BY StepWritten
  <2> QED  BY <2>1, <2>2
<1>2. CASE c \in PublishCall
  <2>1. /\ c = Handlers!PublishCommand(c.saga, c.step, c.script, c.stamp) /\ c.saga \in Nat
        /\ c.step \in Handlers!Steps /\ c.script \in Nat /\ c.stamp \in Nat
    BY <1>2 DEF PublishCall, Handlers!PublishCommand
  <2>2. PICK e : e = Handlers!Do(d, Handlers!PublishCommand(c.saga, c.step, c.script, c.stamp))
    OBVIOUS
  <2>3. HasSent(d, e, Numbered(d, c.saga, c.step, c.script, c.stamp))
    BY <2>1, <2>2, CommandSent
  <2> QED  BY <2>1, <2>2, <2>3 DEF HasSent, Numbered
<1>3. CASE c \in [op : {"UpdateStatus"}, to : Handlers!Statuses]
  <2>1. c = Handlers!UpdateStatus(c.to) /\ c.to \in Handlers!Statuses
    BY <1>3 DEF Handlers!UpdateStatus
  <2> QED  BY <2>1, StatusWritten
<1>4. CASE c \in [op : {"Save"}, project : ProjectRow]
  <2>1. c = Handlers!Save(c.project) /\ c.project \in ProjectRow
    BY <1>4 DEF Handlers!Save
  <2> QED  BY <2>1, RowSaved
<1>5. CASE c \in [op : {"PublishCancel"}, at : Nat]
  <2>1. c = Handlers!PublishCancel(c.at) /\ c.at \in Nat /\ c.op = "PublishCancel"
    BY <1>5 DEF Handlers!PublishCancel
  <2> QED  BY <2>1, CancelSent
<1> QED  BY <1>1, <1>2, <1>3, <1>4, <1>5 DEF HandlerCall, OtherCall

-----------------------------------------------------------------------------
(* The handlers call by call: what is stored after some calls.             *)

\* What is stored after each of the calls.
Stored(f, d, q) == f = [i \in 0 .. Len(q) |-> IF i = 0 THEN d ELSE Handlers!Do(f[i - 1], q[i])]

\* There is a run of the calls, and Through is where it ends.
LEMMA CallsRun ==
    ASSUME NEW d \in Rows, NEW q \in Seq(HandlerCall)
    PROVE  \E f \in [0 .. Len(q) -> Rows] :
              Stored(f, d, q) /\ Handlers!Through(d, q) = f[Len(q)]
<1> PICK n : n = Len(q)
  OBVIOUS
<1>1. n \in Nat
  BY LenProperties
<1>2. PICK g : g = [i \in Nat |-> [x \in Rows |-> IF i \in 1 .. n THEN Handlers!Do(x, q[i]) ELSE x]]
  OBVIOUS
<1>3. \A i \in 1 .. n : q[i] \in HandlerCall
  OBVIOUS
<1>4. g \in [Nat -> [Rows -> Rows]]
  BY <1>2, <1>3, CallKept
<1>5. PICK f \in [0 .. n -> Rows] : Turned(f, d, g, n)
  BY <1>1, <1>4, Iterated
<1>6. f = [i \in 0 .. n |-> IF i = 0 THEN d ELSE Handlers!Do(f[i - 1], q[i])]
  <2>1. f = [i \in 0 .. n |-> IF i = 0 THEN d ELSE g[i][f[i - 1]]]
    BY <1>5 DEF Turned
  <2>2. ASSUME NEW i \in 1 .. n PROVE g[i][f[i - 1]] = Handlers!Do(f[i - 1], q[i])
    <3>1. i \in Nat /\ f[i - 1] \in Rows
      BY <1>1, <1>5
    <3> QED  BY <1>2, <3>1
  <2>3. ASSUME NEW i \in 0 .. n
        PROVE  (IF i = 0 THEN d ELSE g[i][f[i - 1]])
                  = IF i = 0 THEN d ELSE Handlers!Do(f[i - 1], q[i])
    BY <1>1, <2>2
  <2> QED  BY <2>1, <2>3
<1> DEFINE Def(h) == h = [i \in 0 .. Len(q) |-> IF i = 0 THEN d ELSE Handlers!Do(h[i - 1], q[i])]
           h == CHOOSE h : Def(h)
<1>7. Def(f)
  BY <1>6
<1>8. Def(h)
  <2> HIDE DEF Def
  <2> QED  BY <1>7
<1>9. Handlers!Through(d, q) = h[Len(q)]
  BY DEF Handlers!Through
<1>10. h = f
  <2> HIDE DEF h
  <2>1. h = [i \in 0 .. n |-> IF i = 0 THEN d ELSE Handlers!Do(h[i - 1], q[i])]
    BY <1>8
  <2>2. 0 .. n \subseteq {i \in 0 .. n : h[i] = f[i]}
    <3> DEFINE T == {i \in 0 .. n : h[i] = f[i]}
    <3>1. 0 \in T
      BY <1>1, <1>6, <2>1
    <3>2. ASSUME NEW i \in 1 .. n, i - 1 \in T PROVE i \in T
      BY <1>1, <1>6, <2>1, <3>2
    <3> HIDE DEF T
    <3> QED  BY <1>1, <3>1, <3>2, UpTo DEF T
  <2>3. \A i \in 0 .. n : h[i] = f[i]
    BY <2>2
  <2> QED  BY <1>6, <2>1, <2>3
<1> HIDE DEF h
<1> QED  BY <1>5, <1>7, <1>9, <1>10 DEF Stored

\* The rows stay rows, what was sent stays sent.
LEMMA CallsKept ==
    ASSUME NEW d \in Rows, NEW q \in Seq(HandlerCall)
    PROVE  /\ Handlers!Through(d, q) \in Rows
           /\ d.outbox \subseteq Handlers!Through(d, q).outbox
           /\ (\A i \in DOMAIN q : q[i].op # "PublishCancel")
                 => Handlers!Through(d, q).cancel = d.cancel
<1>1. PICK f \in [0 .. Len(q) -> Rows] :
         Stored(f, d, q) /\ Handlers!Through(d, q) = f[Len(q)]
  BY CallsRun
<1> PICK n : n = Len(q)
  OBVIOUS
<1>2. n \in Nat /\ f \in [0 .. n -> Rows] /\ \A i \in 1 .. n : q[i] \in HandlerCall
  BY <1>1, LenProperties
<1>3. /\ f[0] = d /\ \A i \in 1 .. n : f[i] = Handlers!Do(f[i - 1], q[i])
  BY <1>1, <1>2 DEF Stored
<1> DEFINE Plain == \A i \in DOMAIN q : q[i].op # "PublishCancel"
           T == {i \in 0 .. n : d.outbox \subseteq f[i].outbox /\ (Plain => f[i].cancel = d.cancel)}
<1>4. 0 \in T
  BY <1>2, <1>3
<1>5. ASSUME NEW i \in 1 .. n, i - 1 \in T PROVE i \in T
  <2>1. f[i - 1] \in Rows /\ q[i] \in HandlerCall /\ i \in DOMAIN q
    BY <1>2
  <2>2. /\ f[i - 1].outbox \subseteq f[i].outbox
        /\ q[i].op # "PublishCancel" => f[i].cancel = f[i - 1].cancel
    <3> PICK e, c : e = f[i - 1] /\ c = q[i]
      OBVIOUS
    <3>1. f[i] = Handlers!Do(e, c) /\ e \in Rows /\ c \in HandlerCall
      BY <1>3, <2>1
    <3>2. /\ e.outbox \subseteq Handlers!Do(e, c).outbox
          /\ c.op # "PublishCancel" => Handlers!Do(e, c).cancel = e.cancel
      BY <3>1, CallKept
    <3> QED  BY <3>1, <3>2
  <2>3. Plain => q[i].op # "PublishCancel"
    BY <2>1
  <2> HIDE DEF Plain
  <2>4. d.outbox \subseteq f[i - 1].outbox /\ (Plain => f[i - 1].cancel = d.cancel)
    BY <1>5
  <2>5. d.outbox \subseteq f[i].outbox /\ (Plain => f[i].cancel = d.cancel)
    BY <2>2, <2>3, <2>4
  <2> QED  BY <1>2, <2>5
<1> HIDE DEF T
<1>6. 0 .. n \subseteq T
  BY <1>2, <1>4, <1>5, UpTo
<1>7. n \in T /\ f[n] \in Rows
  BY <1>2, <1>6
<1> QED  BY <1>1, <1>7 DEF T

\* No calls leave what is stored.
LEMMA NothingStored == ASSUME NEW d \in Rows PROVE Handlers!Through(d, <<>>) = d
<1>1. <<>> \in Seq(HandlerCall) /\ Len(<<>>) = 0
  OBVIOUS
<1>2. PICK f \in [0 .. Len(<<>>) -> Rows] :
         Stored(f, d, <<>>) /\ Handlers!Through(d, <<>>) = f[Len(<<>>)]
  BY <1>1, CallsRun
<1>3. f[0] = d
  BY <1>1, <1>2 DEF Stored
<1> QED  BY <1>1, <1>2, <1>3

\* The first call, and the rest.
LEMMA FirstStored ==
    ASSUME NEW d \in Rows, NEW q \in Seq(HandlerCall), q # <<>>
    PROVE  Handlers!Through(d, q) = Handlers!Through(Handlers!Do(d, Head(q)), Tail(q))
<1> DEFINE e == Handlers!Do(d, Head(q))
           r == Tail(q)
<1>1. Head(q) \in HandlerCall /\ r \in Seq(HandlerCall) /\ Head(q) = q[1]
  BY HeadAndTail
<1>2. e \in Rows
  BY <1>1, CallKept
<1> PICK n : n = Len(q)
  OBVIOUS
<1>3. n \in Nat /\ n # 0 /\ Len(r) = n - 1 /\ \A i \in 1 .. n - 1 : r[i] = q[i + 1]
  OBVIOUS
<1>4. PICK f \in [0 .. n -> Rows] : Stored(f, d, q) /\ Handlers!Through(d, q) = f[n]
  BY CallsRun
<1>5. PICK h \in [0 .. n - 1 -> Rows] : Stored(h, e, r) /\ Handlers!Through(e, r) = h[n - 1]
  <2> HIDE DEF e, r
  <2> QED  BY <1>1, <1>2, <1>3, CallsRun
<1>6. f[0] = d /\ \A i \in 1 .. n : f[i] = Handlers!Do(f[i - 1], q[i])
  <2>1. f = [i \in 0 .. n |-> IF i = 0 THEN d ELSE Handlers!Do(f[i - 1], q[i])]
    BY <1>4 DEF Stored
  <2>2. n \in Nat
    BY <1>3
  <2> HIDE DEF e, r
  <2> QED  BY <2>1, <2>2
<1>7. h[0] = e /\ \A i \in 1 .. n - 1 : h[i] = Handlers!Do(h[i - 1], q[i + 1])
  <2> HIDE DEF e, r
  <2> QED  BY <1>3, <1>5 DEF Stored
<1> HIDE DEF e, r
<1> DEFINE T == {i \in 0 .. n - 1 : h[i] = f[i + 1]}
<1>8. 0 \in T
  BY <1>1, <1>3, <1>6, <1>7 DEF e
<1>9. ASSUME NEW i \in 1 .. n - 1, i - 1 \in T PROVE i \in T
  <2>1. i + 1 \in 1 .. n /\ (i + 1) - 1 = i /\ (i - 1) + 1 = i /\ i \in 0 .. n - 1
    BY <1>3
  <2>2. h[i - 1] = f[i]
    BY <1>9, <2>1
  <2> QED  BY <1>6, <1>7, <2>1, <2>2
<1>10. n - 1 \in Nat
  BY <1>3
<1> HIDE DEF T
<1>11. n - 1 \in T
  <2>1. 0 .. n - 1 \subseteq T
    BY <1>8, <1>9, <1>10, UpTo
  <2> QED  BY <1>10, <2>1
<1> QED  BY <1>3, <1>4, <1>5, <1>11 DEF T, e, r

\* The first of some calls, and the others.
LEMMA HeadOf ==
    ASSUME NEW c \in HandlerCall, NEW q \in Seq(HandlerCall)
    PROVE  /\ <<c>> \o q \in Seq(HandlerCall) /\ <<c>> \o q # <<>>
           /\ Head(<<c>> \o q) = c /\ Tail(<<c>> \o q) = q
<1> PICK r : r = <<c>> \o q
  OBVIOUS
<1>1. <<c>> \in Seq(HandlerCall) /\ Len(<<c>>) = 1 /\ <<c>>[1] = c
  OBVIOUS
<1>2. /\ r \in Seq(HandlerCall) /\ Len(r) = Len(q) + 1
      /\ \A i \in 1 .. Len(q) + 1 : r[i] = IF i <= 1 THEN c ELSE q[i - 1]
  BY <1>1, ConcatProperties
<1>3. Tail(r) \in Seq(HandlerCall) /\ Len(Tail(r)) = Len(q)
      /\ \A i \in 1 .. Len(q) : Tail(r)[i] = q[i]
  BY <1>2
<1>4. Tail(r) = q
  BY <1>3, SeqEqual
<1> QED  BY <1>2, <1>4

\* The first call is made, then the others.
LEMMA FirstOf ==
    ASSUME NEW d \in Rows, NEW c \in HandlerCall, NEW q \in Seq(HandlerCall)
    PROVE  /\ <<c>> \o q \in Seq(HandlerCall)
           /\ Handlers!Through(d, <<c>> \o q) = Handlers!Through(Handlers!Do(d, c), q)
BY HeadOf, FirstStored

\* Two calls, three calls.
LEMMA TwoStored ==
    ASSUME NEW d \in Rows, NEW a \in HandlerCall, NEW b \in HandlerCall
    PROVE  /\ <<a, b>> \in Seq(HandlerCall)
           /\ Handlers!Through(d, <<a, b>>) = Handlers!Do(Handlers!Do(d, a), b)
<1>1. Handlers!Do(d, a) \in Rows
  BY CallKept
<1>2. Handlers!Do(Handlers!Do(d, a), b) \in Rows
  BY <1>1, CallKept
<1>3. <<>> \in Seq(HandlerCall) /\ <<b>> \in Seq(HandlerCall) /\ <<b>> \o <<>> = <<b>>
  OBVIOUS
<1>4. Handlers!Through(Handlers!Do(d, a), <<b>>) = Handlers!Do(Handlers!Do(d, a), b)
  <2> PICK x : x = Handlers!Do(d, a)
    OBVIOUS
  <2> PICK y : y = Handlers!Do(x, b)
    OBVIOUS
  <2>1. Handlers!Through(x, <<b>> \o <<>>) = Handlers!Through(y, <<>>)
    BY <1>1, <1>3, FirstOf
  <2>2. Handlers!Through(y, <<>>) = y
    BY <1>2, NothingStored
  <2>3. Handlers!Through(x, <<b>>) = y
    BY <1>3, <2>1, <2>2
  <2> QED  BY <2>3
<1>5. /\ <<a>> \o <<b>> \in Seq(HandlerCall)
      /\ Handlers!Through(d, <<a>> \o <<b>>) = Handlers!Through(Handlers!Do(d, a), <<b>>)
  BY <1>3, FirstOf
<1>6. <<a>> \o <<b>> = <<a, b>>
  BY Pair
<1> QED  BY <1>4, <1>5, <1>6

\* One and two.
LEMMA OneAndTwo ==
    ASSUME NEW S, NEW a \in S, NEW b \in S, NEW c \in S
    PROVE  <<a>> \o <<b, c>> = <<a, b, c>>
<1>1. PICK x, y, z : x = <<a>> /\ y = <<b, c>> /\ z = <<a, b, c>>
  OBVIOUS
<1>2. /\ x \in Seq(S) /\ Len(x) = 1 /\ x[1] = a
      /\ y \in Seq(S) /\ Len(y) = 2 /\ y[1] = b /\ y[2] = c
      /\ z \in Seq(S) /\ Len(z) = 3 /\ z[1] = a /\ z[2] = b /\ z[3] = c
  BY <1>1
<1>3. PICK q : q = x \o y
  OBVIOUS
<1>4. /\ q \in Seq(S) /\ Len(q) = 3
      /\ \A i \in 1 .. 3 : q[i] = IF i <= 1 THEN x[i] ELSE y[i - 1]
  <2>1. /\ q \in Seq(S)
        /\ Len(q) = Len(x) + Len(y)
        /\ \A i \in 1 .. Len(x) + Len(y) : q[i] = IF i <= Len(x) THEN x[i] ELSE y[i - Len(x)]
    BY <1>2, <1>3, ConcatProperties, Zenon
  <2> QED  BY <1>2, <2>1
<1>5. \A i \in 1 .. 3 : q[i] = z[i]
  BY <1>2, <1>4
<1>6. q = z
  BY <1>2, <1>4, <1>5, SeqEqual
<1> QED  BY <1>1, <1>3, <1>6

\* One call.
LEMMA OneStored ==
    ASSUME NEW d \in Rows, NEW a \in HandlerCall
    PROVE  /\ <<a>> \in Seq(HandlerCall)
           /\ Handlers!Through(d, <<a>>) = Handlers!Do(d, a)
<1>1. Handlers!Do(d, a) \in Rows
  BY CallKept
<1>2. <<>> \in Seq(HandlerCall) /\ <<a>> \in Seq(HandlerCall) /\ <<a>> \o <<>> = <<a>>
  OBVIOUS
<1> QED  BY <1>1, <1>2, FirstOf, NothingStored

\* The calls are calls.
LEMMA CallsAre ==
    /\ \A g \in Nat, s \in Handlers!Steps, to \in Handlers!StepStatuses :
          Handlers!UpdateStep(g, s, to) \in HandlerCall
    /\ \A to \in Handlers!Statuses : Handlers!UpdateStatus(to) \in HandlerCall
    /\ \A p \in ProjectRow : Handlers!Save(p) \in HandlerCall
    /\ \A at \in Nat : Handlers!PublishCancel(at) \in HandlerCall
    /\ \A g \in Nat, s \in Handlers!Steps, text \in Nat, stamp \in Nat :
          Handlers!PublishCommand(g, s, text, stamp) \in HandlerCall
<1>1. ASSUME NEW g \in Nat, NEW s \in Handlers!Steps, NEW to \in Handlers!StepStatuses
      PROVE  Handlers!UpdateStep(g, s, to) \in HandlerCall
  BY DEF Handlers!UpdateStep, StepCall, HandlerCall
<1>2. ASSUME NEW to \in Handlers!Statuses PROVE Handlers!UpdateStatus(to) \in HandlerCall
  BY DEF Handlers!UpdateStatus, OtherCall, HandlerCall
<1>3. ASSUME NEW p \in ProjectRow PROVE Handlers!Save(p) \in HandlerCall
  BY DEF Handlers!Save, OtherCall, HandlerCall
<1>4. ASSUME NEW at \in Nat PROVE Handlers!PublishCancel(at) \in HandlerCall
  BY DEF Handlers!PublishCancel, OtherCall, HandlerCall
<1>5. ASSUME NEW g \in Nat, NEW s \in Handlers!Steps, NEW text \in Nat, NEW stamp \in Nat
      PROVE  Handlers!PublishCommand(g, s, text, stamp) \in HandlerCall
  BY DEF Handlers!PublishCommand, PublishCall, HandlerCall
<1> QED  BY <1>1, <1>2, <1>3, <1>4, <1>5

\* Step s of saga g is opened: what is stored before and after, with the text sent.
HasOpened(d, e, g, s, text, stamp) ==
    /\ e \in Rows
    /\ e.project = [d.project EXCEPT !.status = Handlers!stepInProgressStatus[s]]
    /\ e.step = Handlers!Saga!Mark(d.step, g, s, "in_progress")
    /\ e.outbox = d.outbox \cup {Numbered(d, g, s, text, stamp)}
    /\ Handlers!Cardinality(e.outbox) = Handlers!Cardinality(d.outbox) + 1
    /\ e.cancel = d.cancel

HasFailed(d, e, g, s) ==
    /\ e \in Rows
    /\ e.project = [d.project EXCEPT !.status = Handlers!FailedStatusForStep[s]]
    /\ e.step = Handlers!Saga!Mark(d.step, g, s, "failed")
    /\ e.outbox = d.outbox /\ e.cancel = d.cancel

\* The calls that open a step, together.
LEMMA OpeningStored ==
    ASSUME NEW d \in Rows, NEW g \in Nat, NEW s \in Handlers!Steps, NEW p \in ProjectRow,
           second \in Nat
    PROVE  /\ Handlers!Opening(g, s, p) \in Seq(HandlerCall)
           /\ HasOpened(d, Handlers!Through(d, Handlers!Opening(g, s, p)), g, s, p.script, second)
<1> PICK a : a = Handlers!UpdateStep(g, s, "in_progress")
  OBVIOUS
<1> PICK b : b = Handlers!PublishCommand(g, s, p.script, second)
  OBVIOUS
<1> PICK c : c = Handlers!UpdateStatus(Handlers!stepInProgressStatus[s])
  OBVIOUS
<1>1. p.script \in Nat /\ "in_progress" \in Handlers!StepStatuses
      /\ Handlers!stepInProgressStatus[s] \in Handlers!Statuses
  BY StatusOfStep DEF ProjectRow, Handlers!StepStatuses
<1>2. a \in HandlerCall /\ b \in HandlerCall /\ c \in HandlerCall
  BY <1>1, CallsAre
<1> PICK x : x = Handlers!Do(d, a)
  OBVIOUS
<1> PICK y : y = Handlers!Do(x, b)
  OBVIOUS
<1> PICK z : z = Handlers!Do(y, c)
  OBVIOUS
<1>3. /\ x \in Rows /\ x.project = d.project /\ x.outbox = d.outbox
      /\ x.step = Handlers!Saga!Mark(d.step, g, s, "in_progress") /\ x.cancel = d.cancel
  BY <1>1, StepWritten
<1>4. /\ y \in Rows /\ y.project = x.project /\ y.step = x.step /\ y.cancel = x.cancel
      /\ y.outbox = x.outbox \cup {Numbered(x, g, s, p.script, second)}
      /\ Handlers!Cardinality(y.outbox) = Handlers!Cardinality(x.outbox) + 1
  <2>1. HasSent(x, y, Numbered(x, g, s, p.script, second))
    BY <1>1, <1>3, CommandSent
  <2> QED  BY <2>1 DEF HasSent
<1>5. /\ z \in Rows /\ z.outbox = y.outbox /\ z.step = y.step /\ z.cancel = y.cancel
      /\ z.project = [y.project EXCEPT !.status = Handlers!stepInProgressStatus[s]]
  BY <1>1, <1>4, StatusWritten
<1>6. Handlers!Opening(g, s, p) = <<a, b, c>>
  BY DEF Handlers!Opening
<1>7. <<b, c>> \in Seq(HandlerCall) /\ <<a>> \o <<b, c>> = <<a, b, c>>
  BY <1>2, OneAndTwo
<1>8. Handlers!Through(d, <<a, b, c>>) = z
  <2>1. Handlers!Through(d, <<a>> \o <<b, c>>) = Handlers!Through(x, <<b, c>>)
    BY <1>2, <1>7, FirstOf
  <2>2. Handlers!Through(x, <<b, c>>) = z
    BY <1>2, <1>3, TwoStored
  <2> QED  BY <1>7, <2>1, <2>2
<1>9. Numbered(x, g, s, p.script, second) = Numbered(d, g, s, p.script, second)
  BY <1>3 DEF Numbered
<1>10. <<a, b, c>> \in Seq(HandlerCall)
  BY <1>2
<1> QED  BY <1>3, <1>4, <1>5, <1>6, <1>8, <1>9, <1>10 DEF HasOpened

\* The calls that fail a step, together.
LEMMA FailingStored ==
    ASSUME NEW d \in Rows, NEW g \in Nat, NEW s \in Handlers!Steps
    PROVE  /\ Handlers!Failing(g, s) \in Seq(HandlerCall)
           /\ HasFailed(d, Handlers!Through(d, Handlers!Failing(g, s)), g, s)
<1> PICK a : a = Handlers!UpdateStep(g, s, "failed")
  OBVIOUS
<1> PICK c : c = Handlers!UpdateStatus(Handlers!FailedStatusForStep[s])
  OBVIOUS
<1>1. "failed" \in Handlers!StepStatuses
      /\ Handlers!FailedStatusForStep[s] \in Handlers!Statuses
  BY StatusOfStep DEF Handlers!StepStatuses
<1>2. a \in HandlerCall /\ c \in HandlerCall
  BY <1>1, CallsAre
<1> PICK x : x = Handlers!Do(d, a)
  OBVIOUS
<1> PICK z : z = Handlers!Do(x, c)
  OBVIOUS
<1>3. /\ x \in Rows /\ x.project = d.project /\ x.outbox = d.outbox
      /\ x.step = Handlers!Saga!Mark(d.step, g, s, "failed") /\ x.cancel = d.cancel
  BY <1>1, StepWritten
<1>4. /\ z \in Rows /\ z.outbox = x.outbox /\ z.step = x.step /\ z.cancel = x.cancel
      /\ z.project = [x.project EXCEPT !.status = Handlers!FailedStatusForStep[s]]
  BY <1>1, <1>3, StatusWritten
<1>5. Handlers!Failing(g, s) = <<a, c>>
  BY DEF Handlers!Failing
<1> QED  BY <1>2, <1>3, <1>4, <1>5, TwoStored DEF HasFailed

\* Saved first, then the rest.
LEMMA SavedStored ==
    ASSUME NEW d \in Rows, NEW p \in ProjectRow, NEW q \in Seq(HandlerCall)
    PROVE  /\ <<Handlers!Save(p)>> \o q \in Seq(HandlerCall)
           /\ \E e \in Rows :
                 /\ e.project = p /\ e.outbox = d.outbox /\ e.step = d.step /\ e.cancel = d.cancel
                 /\ Handlers!Through(d, <<Handlers!Save(p)>> \o q) = Handlers!Through(e, q)
<1>1. Handlers!Save(p) \in HandlerCall
  BY CallsAre
<1>2. PICK e : e = Handlers!Do(d, Handlers!Save(p))
  OBVIOUS
<1>3. e \in Rows /\ e.project = p /\ e.outbox = d.outbox /\ e.step = d.step /\ e.cancel = d.cancel
  BY <1>2, RowSaved
<1> QED  BY <1>1, <1>2, <1>3, FirstOf

-----------------------------------------------------------------------------
(* The handlers call by call: what RenderSaga sees.                        *)

\* The commands and the events of RenderSaga.
SeenCommands == {c \in Handlers!Done.outbox : c.id \notin Handlers!Gone}

Seen(e) == [id |-> e.id, saga |-> e.saga, step |-> e.step, script |-> e.script, kind |-> e.kind]
SeenEvents == {Seen(e) : e \in deliveries \ Handlers!Heard}

Known == 1 .. Handlers!Cardinality(shared.outbox)

\* The messages: numbered as their commands, and kept until they are done with.
MessagesKept ==
    /\ disposed \subseteq Known /\ dead \subseteq Known
    /\ \A e \in deliveries : e.id \in disposed /\ e.saga \in 1 .. sagas
    /\ \A e, f \in deliveries : e.id = f.id => e = f

\* What will be stored once the handler at work has made its calls.
DoneKept ==
    /\ shared \in Rows /\ Handlers!Done \in Rows
    /\ sagas \in 0 .. asked /\ asked \in 0 .. MaxHandled
    /\ Handlers!Done.project.saga = sagas
    /\ Handlers!Done.project.status # "draft" => sagas # 0
    /\ \A c \in Handlers!Done.outbox : c.saga \in 1 .. sagas
    /\ shared.cancel.second <= second

\* No cancel is to come, or it is the next call.
Uncancelled(q) == \A i \in DOMAIN q : q[i].op # "PublishCancel"

\* What the goroutine is at: its message is there, an event it decides on is a
\* success whose step is completed, and what is dead is what it has in hand.
JobFits(j) ==
    /\ j.for \in {"event", "expired"} => j.msg \in deliveries
    /\ j.for = "dead_letter" => j.msg \in Handlers!Outstanding
    /\ j.for \in {"nobody", "request"} => j.msg = Handlers!NoMessage
    /\ j.for = "nobody" => j.todo = <<>>
    /\ j.deciding => j.for = "event" /\ j.msg.kind = "ok"
    /\ j.deciding /\ j.todo = <<>> => shared.step[j.msg.saga][j.msg.step] = "completed"
    /\ \/ Uncancelled(j.todo)
       \/ /\ j.todo # <<>> /\ Head(j.todo) = Handlers!PublishCancel(second)
          /\ Uncancelled(Tail(j.todo))
    /\ \A e \in deliveries : e.id \in dead => j.for = "expired" /\ j.msg = e
    /\ \A c \in Handlers!Outstanding : c.id \in dead => j.for = "dead_letter" /\ j.msg = c

Smooth == MessagesKept /\ DoneKept /\ \A t \in Threads : JobFits(job[t])

\* What is stored, heard and gone, for one goroutine, before a step and after it.
LEMMA StoredIs ==
    ASSUME NEW u, Threads = {u}
    PROVE  /\ ~job[u].deciding => Handlers!Done = Handlers!Through(shared, job[u].todo)
           /\ ~job'[u].deciding => Handlers!Done' = Handlers!Through(shared', job'[u].todo)
<1>1. Handlers!Thread = u
  BY DEF Handlers!Thread
<1>2. ~job[u].deciding => Handlers!Done = Handlers!Through(shared, job[u].todo)
  BY <1>1 DEF Handlers!Done, Handlers!Undecided
<1>3. ~job'[u].deciding => Handlers!Done' = Handlers!Through(shared', job'[u].todo)
  BY <1>1 DEF Handlers!Done, Handlers!Undecided
<1> QED  BY <1>2, <1>3

Reopened(d, m) == [d EXCEPT !.step[m.saga][m.step] = "in_progress"]

\* What RenderSaga sees of an event before its handler has decided: its step is still
\* in progress.
LEMMA UndecidedIs ==
    ASSUME NEW u, Threads = {u}
    PROVE  /\ job[u].deciding => Handlers!Done = Reopened(shared, job[u].msg)
           /\ job'[u].deciding => Handlers!Done' = Reopened(shared', job'[u].msg)
<1>1. Handlers!Thread = u
  BY DEF Handlers!Thread
<1>2. job[u].deciding => Handlers!Done = Reopened(shared, job[u].msg)
  BY <1>1 DEF Handlers!Done, Handlers!Undecided, Reopened
<1>3. job'[u].deciding => Handlers!Done' = Reopened(shared', job'[u].msg)
  BY <1>1 DEF Handlers!Done, Handlers!Undecided, Reopened
<1> QED  BY <1>2, <1>3

HeardOf(all, j) == {e \in all : e = j.msg /\ ~j.deciding}
GoneOf(all, j) == all \cup (IF j.for = "dead_letter" THEN {j.msg.id} ELSE {})

\* What RenderSaga takes as heard and as gone, before a step and after it.
LEMMA HeardIs ==
    ASSUME NEW u, Threads = {u}
    PROVE  /\ Handlers!Heard = HeardOf(deliveries, job[u])
           /\ Handlers!Heard' = HeardOf(deliveries', job'[u])
           /\ Handlers!Gone = GoneOf(disposed, job[u])
           /\ Handlers!Gone' = GoneOf(disposed', job'[u])
<1>1. Handlers!Thread = u
  BY DEF Handlers!Thread
<1>2. Handlers!Heard = HeardOf(deliveries, job[u])
  BY <1>1 DEF Handlers!Heard, Handlers!Undecided, HeardOf
<1>3. Handlers!Heard' = HeardOf(deliveries', job'[u])
  BY <1>1 DEF Handlers!Heard, Handlers!Undecided, HeardOf
<1>4. Handlers!Gone = GoneOf(disposed, job[u])
  BY <1>1 DEF Handlers!Gone, GoneOf
<1>5. Handlers!Gone' = GoneOf(disposed', job'[u])
  BY <1>1 DEF Handlers!Gone, GoneOf
<1> QED  BY <1>2, <1>3, <1>4, <1>5

\* A goroutine that has nothing to do: what is stored is all there is.
LEMMA RestStored ==
    ASSUME NEW u, Threads = {u}, HandlersKept, Smooth, job[u] = Handlers!Idle
    PROVE  /\ Handlers!Done = shared /\ Handlers!Heard = {} /\ Handlers!Gone = disposed
           /\ \A e \in deliveries : e # Handlers!NoMessage
<1>1. shared \in Rows
  BY DEF Smooth, DoneKept
<1>2. /\ job[u].for = "nobody" /\ job[u].msg = Handlers!NoMessage /\ job[u].todo = <<>>
      /\ ~job[u].deciding
  BY DEF Handlers!Idle
<1>3. Handlers!Done = shared
  BY <1>1, <1>2, StoredIs, NothingStored
<1>4. \A e \in deliveries : e # Handlers!NoMessage
  <2> SUFFICES ASSUME NEW e \in deliveries, e = Handlers!NoMessage PROVE FALSE
    OBVIOUS
  <2>1. e.id \in 1 .. Handlers!Cardinality(shared.outbox)
    BY DEF Smooth, MessagesKept, Known
  <2>2. e.id = 0
    BY DEF Handlers!NoMessage
  <2>3. Handlers!Cardinality(shared.outbox) \in Nat
    BY <1>1, RowsAre
  <2> QED  BY <2>1, <2>2, <2>3
<1>5. HeardOf(deliveries, job[u]) = {} /\ GoneOf(disposed, job[u]) = disposed
  BY <1>2, <1>4 DEF HeardOf, GoneOf
<1> QED  BY <1>3, <1>4, <1>5, HeardIs

\* A new command, and no new one.
LEMMA CommandSeen ==
    ASSUME Handlers!Done \in Rows, NEW m, Handlers!Done.outbox' = Handlers!Done.outbox \cup {m},
           m.id = Handlers!Cardinality(Handlers!Done.outbox) + 1,
           Handlers!Gone' = Handlers!Gone,
           Handlers!Gone \subseteq 1 .. Handlers!Cardinality(Handlers!Done.outbox)
    PROVE  SeenCommands' = SeenCommands \cup {m}
<1>1. Handlers!Cardinality(Handlers!Done.outbox) \in Nat
  BY RowsAre
<1>2. m.id \notin Handlers!Gone
  BY <1>1
<1> QED  BY <1>2 DEF SeenCommands

\* What is gone was sent, and what is stored is part of what will be.
LEMMA GoneIsKnown ==
    ASSUME NEW u, Threads = {u}, HandlersKept, Smooth
    PROVE  /\ Handlers!Gone \subseteq Known
           /\ shared.outbox \subseteq Handlers!Done.outbox
           /\ Handlers!Cardinality(shared.outbox) \in Nat
           /\ Handlers!Cardinality(Handlers!Done.outbox) \in Nat
           /\ Handlers!Cardinality(shared.outbox) <= Handlers!Cardinality(Handlers!Done.outbox)
           /\ \A c \in shared.outbox : c.id \in Known
<1>1. shared \in Rows /\ Handlers!Done \in Rows
  BY DEF Smooth, DoneKept
<1>2. /\ IsFiniteSet(Handlers!Done.outbox)
      /\ Handlers!Cardinality(shared.outbox) \in Nat
      /\ Handlers!Cardinality(Handlers!Done.outbox) \in Nat
  BY <1>1, RowsAre
<1>3. job[u] \in Job /\ JobFits(job[u])
  BY DEF HandlersKept, JobsKept, Smooth
<1>4. shared.outbox \subseteq Handlers!Done.outbox
  <2>1. CASE job[u].deciding
    <3>1. Handlers!Done = Reopened(shared, job[u].msg)
      BY <2>1, UndecidedIs
    <3> QED  BY <1>1, <3>1 DEF Rows, Shared, Reopened
  <2>2. CASE ~job[u].deciding
    <3>1. job[u].todo \in Seq(HandlerCall)
      BY <1>3 DEF Job
    <3>2. Handlers!Done = Handlers!Through(shared, job[u].todo)
      BY <2>2, StoredIs
    <3> QED  BY <1>1, <3>1, <3>2, CallsKept
  <2> QED  BY <2>1, <2>2
<1>5. \A c \in shared.outbox : c.id \in Known
  BY <1>1 DEF Rows, Known
<1>6. Handlers!Gone \subseteq Known
  <2>1. disposed \subseteq Known
    BY DEF Smooth, MessagesKept
  <2>2. job[u].for = "dead_letter" => job[u].msg.id \in Known
    BY <1>3, <1>5 DEF JobFits, Handlers!Outstanding
  <2> QED  BY <2>1, <2>2, HeardIs DEF GoneOf
<1>7. Cardinality(shared.outbox) <= Cardinality(Handlers!Done.outbox)
  BY <1>2, <1>4, FS_Subset
<1> QED  BY <1>2, <1>4, <1>5, <1>6, <1>7, HandlersCount

\* The same words for the same things.
LEMMA SameTables ==
    /\ Handlers!Saga!stepInProgressStatus = Handlers!stepInProgressStatus
    /\ Handlers!Saga!FailedStatusForStep = Handlers!FailedStatusForStep
    /\ Handlers!Saga!InFlight = Handlers!InFlight
    /\ Handlers!Saga!Steps = Handlers!Steps
    /\ Handlers!Saga!Cancellable = Handlers!Cancellable
    /\ Handlers!Saga!Sagas = Handlers!Sagas
<1>1. Handlers!Saga!Steps = Handlers!Steps
  BY DEF Handlers!Saga!Steps, Handlers!Steps, Handlers!Saga!RenderSteps, Handlers!RenderSteps
<1>2. Handlers!Saga!stepInProgressStatus = Handlers!stepInProgressStatus
  BY <1>1 DEF Handlers!Saga!stepInProgressStatus, Handlers!stepInProgressStatus
<1>3. Handlers!Saga!FailedStatusForStep = Handlers!FailedStatusForStep
  BY <1>1 DEF Handlers!Saga!FailedStatusForStep, Handlers!FailedStatusForStep
<1>4. Handlers!Saga!InFlight = Handlers!InFlight
  BY <1>1, <1>2 DEF Handlers!Saga!InFlight, Handlers!InFlight
<1>5. Handlers!Saga!Cancellable = Handlers!Cancellable
  BY DEF Handlers!Saga!Cancellable, Handlers!Cancellable, Handlers!Saga!RenderSteps,
         Handlers!RenderSteps
<1>6. Handlers!Saga!Sagas = Handlers!Sagas
  BY DEF Handlers!Saga!Sagas, Handlers!Sagas
<1> QED  BY <1>1, <1>2, <1>3, <1>4, <1>5, <1>6

-----------------------------------------------------------------------------
(* The handlers call by call: requests.                                    *)

\* A request is seen with all it will do.
LEMMA RequestSeen ==
    ASSUME NEW u, Threads = {u}, HandlersKept, Smooth, NEW q \in Seq(HandlerCall),
           faults \in Nat, Handlers!Request(u, q)
    PROVE  /\ Handlers!Done = shared /\ Handlers!Done' = Handlers!Through(shared, q)
           /\ Handlers!Gone' = Handlers!Gone /\ SeenEvents' = SeenEvents
           /\ asked < MaxHandled /\ asked' = asked + 1 /\ second' = second
<1>1. job[u] = Handlers!Idle /\ asked + faults < MaxHandled /\ asked' = asked + 1
  BY DEF Handlers!Request, Handlers!Works
<1>2. job' = [job EXCEPT ![u] = [for |-> "request", msg |-> Handlers!NoMessage, todo |-> q,
                                 deciding |-> FALSE]]
  BY DEF Handlers!Request, Handlers!Works
<1>3. UNCHANGED <<shared, disposed, deliveries, second>>
  BY DEF Handlers!Request
<1>4. asked \in Nat /\ job \in [Threads -> Job] /\ MaxHandled \in Nat
  BY HandlersAssumption DEF HandlersKept, SharedKept, JobsKept, Handlers!CountsAssumption
<1>5. job'[u] = [for |-> "request", msg |-> Handlers!NoMessage, todo |-> q, deciding |-> FALSE]
  BY <1>2, <1>4
<1>6. job'[u].for = "request" /\ job'[u].msg = Handlers!NoMessage /\ job'[u].todo = q
      /\ ~job'[u].deciding
  BY <1>5
<1>7. /\ Handlers!Done = shared /\ Handlers!Heard = {} /\ Handlers!Gone = disposed
      /\ \A e \in deliveries : e # Handlers!NoMessage
  BY <1>1, RestStored
<1>8. Handlers!Done' = Handlers!Through(shared, q)
  BY <1>3, <1>6, StoredIs
<1>9. Handlers!Heard' = {} /\ Handlers!Gone' = disposed
  BY <1>3, <1>6, <1>7, HeardIs DEF HeardOf, GoneOf
<1>10. SeenEvents' = SeenEvents
  BY <1>3, <1>7, <1>9 DEF SeenEvents
<1> QED  BY <1>1, <1>3, <1>4, <1>7, <1>8, <1>9, <1>10

-----------------------------------------------------------------------------
(* The handlers call by call: which calls are there.                       *)

\* What the first call sends, and what the others send.
LEMMA FirstDispatches ==
    ASSUME NEW c \in HandlerCall, NEW q \in Seq(HandlerCall)
    PROVE  /\ Uncancelled(<<c>> \o q) <=> c.op # "PublishCancel" /\ Uncancelled(q)
           /\ \A s : Handlers!Dispatches(<<c>> \o q, s)
                        <=> (c.op = "PublishCommand" /\ c.step = s) \/ Handlers!Dispatches(q, s)
<1> PICK r : r = <<c>> \o q
  OBVIOUS
<1>1. <<c>> \in Seq(HandlerCall) /\ Len(<<c>>) = 1 /\ <<c>>[1] = c
  OBVIOUS
<1>2. /\ r \in Seq(HandlerCall) /\ Len(r) = Len(q) + 1
      /\ \A i \in 1 .. Len(q) + 1 : r[i] = IF i <= 1 THEN c ELSE q[i - 1]
  BY <1>1, ConcatProperties
<1>3. DOMAIN r = 1 .. Len(q) + 1 /\ DOMAIN q = 1 .. Len(q) /\ Len(q) \in Nat
  BY <1>2
<1>4. /\ r[1] = c /\ 1 \in DOMAIN r
      /\ \A i \in DOMAIN q : i + 1 \in DOMAIN r /\ r[i + 1] = q[i]
      /\ \A i \in DOMAIN r : i = 1 \/ (i - 1 \in DOMAIN q /\ r[i] = q[i - 1])
  <2> PICK n : n = Len(q)
    OBVIOUS
  <2>1. n \in Nat /\ DOMAIN r = 1 .. n + 1 /\ DOMAIN q = 1 .. n
    BY <1>3
  <2>2. \A i \in 1 .. n + 1 : r[i] = IF i <= 1 THEN c ELSE q[i - 1]
    BY <1>2
  <2>3. r[1] = c /\ 1 \in DOMAIN r
    BY <2>1, <2>2
  <2>4. ASSUME NEW i \in DOMAIN q PROVE i + 1 \in DOMAIN r /\ r[i + 1] = q[i]
    <3>1. i \in Nat /\ i + 1 \in 1 .. n + 1 /\ ~(i + 1 <= 1) /\ (i + 1) - 1 = i
      BY <2>1
    <3> QED  BY <2>1, <2>2, <3>1
  <2>5. ASSUME NEW i \in DOMAIN r PROVE i = 1 \/ (i - 1 \in DOMAIN q /\ r[i] = q[i - 1])
    BY <2>1, <2>2
  <2> QED  BY <2>3, <2>4, <2>5
<1>5. Uncancelled(r) <=> c.op # "PublishCancel" /\ Uncancelled(q)
  BY <1>4 DEF Uncancelled
<1>6. ASSUME NEW s
      PROVE  Handlers!Dispatches(r, s)
                <=> (c.op = "PublishCommand" /\ c.step = s) \/ Handlers!Dispatches(q, s)
  <2> DEFINE Sends(x) == x.op = "PublishCommand" /\ x.step = s
  <2>1. (\E i \in DOMAIN r : Sends(r[i])) <=> Sends(c) \/ \E i \in DOMAIN q : Sends(q[i])
    <3> HIDE DEF Sends
    <3>1. ASSUME NEW i \in DOMAIN r, Sends(r[i]) PROVE Sends(c) \/ \E k \in DOMAIN q : Sends(q[k])
      BY <1>4, <3>1
    <3>2. ASSUME NEW i \in DOMAIN q, Sends(q[i]) PROVE \E k \in DOMAIN r : Sends(r[k])
      <4>1. i + 1 \in DOMAIN r /\ r[i + 1] = q[i]
        BY <1>4
      <4> QED  BY <3>2, <4>1
    <3> QED  BY <1>4, <3>1, <3>2
  <2> QED  BY <2>1 DEF Handlers!Dispatches
<1> QED  BY <1>5, <1>6

\* Opening a step sends its command, and no cancel.
LEMMA OpeningDispatches ==
    ASSUME NEW g, NEW s, NEW p
    PROVE  /\ Uncancelled(Handlers!Opening(g, s, p))
           /\ \A x : Handlers!Dispatches(Handlers!Opening(g, s, p), x) <=> x = s
<1> PICK q : q = Handlers!Opening(g, s, p)
  OBVIOUS
<1>1. /\ DOMAIN q = {1, 2, 3} /\ q[1].op = "UpdateStep" /\ q[3].op = "UpdateStatus"
      /\ q[2].op = "PublishCommand" /\ q[2].step = s
  BY DEF Handlers!Opening, Handlers!UpdateStep, Handlers!PublishCommand, Handlers!UpdateStatus
<1> QED  BY <1>1 DEF Uncancelled, Handlers!Dispatches

\* Failing a step sends nothing.
LEMMA FailingDispatches ==
    ASSUME NEW g, NEW s
    PROVE  /\ Uncancelled(Handlers!Failing(g, s))
           /\ \A x : ~Handlers!Dispatches(Handlers!Failing(g, s), x)
<1> PICK q : q = Handlers!Failing(g, s)
  OBVIOUS
<1>1. DOMAIN q = {1, 2} /\ q[1].op = "UpdateStep" /\ q[2].op = "UpdateStatus"
  BY DEF Handlers!Failing, Handlers!UpdateStep, Handlers!UpdateStatus
<1> QED  BY <1>1 DEF Uncancelled, Handlers!Dispatches

\* Saving a row sends nothing.
LEMMA SavedDispatches ==
    ASSUME NEW p \in ProjectRow, NEW q \in Seq(HandlerCall)
    PROVE  /\ Uncancelled(<<Handlers!Save(p)>> \o q) <=> Uncancelled(q)
           /\ \A s : Handlers!Dispatches(<<Handlers!Save(p)>> \o q, s)
                        <=> Handlers!Dispatches(q, s)
<1>1. Handlers!Save(p) \in HandlerCall
  BY CallsAre
<1>2. Handlers!Save(p).op = "Save"
  BY DEF Handlers!Save
<1> QED  BY <1>1, <1>2, FirstDispatches

-----------------------------------------------------------------------------
(* The handlers call by call: requests.                                    *)

\* What a request must leave: the rows it will have stored.
Leaves(e, n) ==
    /\ e \in Rows /\ e.project.saga = n
    /\ e.project.status # "draft" => n # 0
    /\ \A c \in e.outbox : c.saga \in 1 .. n

\* A request whose calls are seen as an action of RenderSaga.
IsSeen(u, q) ==
    /\ Handlers!Request(u, q) /\ q \in Seq(HandlerCall)
    /\ Leaves(Handlers!Through(shared, q), sagas') /\ sagas' \in {sagas, sagas + 1}
    /\ \/ Uncancelled(q)
       \/ q # <<>> /\ Head(q) = Handlers!PublishCancel(second) /\ Uncancelled(Tail(q))
    /\ Handlers!Saga!Next

\* What there is before a request.
LEMMA BeforeRequest ==
    ASSUME NEW u, Threads = {u}, HandlersKept, Smooth, job[u] = Handlers!Idle
    PROVE  /\ shared \in Rows /\ Handlers!project = shared.project
           /\ shared.project \in ProjectRow /\ Leaves(shared, sagas)
           /\ sagas \in Nat /\ sagas <= asked /\ asked \in Nat /\ second \in Nat
           /\ Handlers!Done = shared /\ Handlers!Gone \subseteq Known
           /\ Known = 1 .. Handlers!Cardinality(shared.outbox)
           /\ shared.cancel.second \in Nat
<1>1. Handlers!Done = shared
  BY RestStored
<1>2. shared \in Rows /\ sagas \in Nat /\ sagas <= asked /\ asked \in Nat /\ second \in Nat
  BY DEF Smooth, DoneKept, HandlersKept, SharedKept
<1>3. Leaves(shared, sagas)
  BY <1>1 DEF Smooth, DoneKept, Leaves
<1> QED  BY <1>1, <1>2, <1>3, GoneIsKnown, RowsAre DEF Known, Handlers!project

\* What a handler opens or fails, as RenderSaga has it.
Like(e, d) ==
    /\ e.project.saga = d.project.saga /\ e.project.config = d.project.config
    /\ e.project.script = d.project.script /\ e.project.outline = d.project.outline
    /\ e.cancel = d.cancel

\* Rows that fit are left by opening a step.
LEMMA OpenedLeaves ==
    ASSUME NEW d \in Rows, NEW e, NEW g, NEW s \in Handlers!Steps, NEW text, NEW stamp,
           NEW n \in Nat, HasOpened(d, e, g, s, text, stamp), d.project.saga = n,
           g \in 1 .. n, \A c \in d.outbox : c.saga \in 1 .. n
    PROVE  /\ Leaves(e, n) /\ Like(e, d)
           /\ e.project.status = Handlers!stepInProgressStatus[s]
<1> PICK m : m = Numbered(d, g, s, text, stamp)
  OBVIOUS
<1>1. m.saga = g /\ e.outbox = d.outbox \cup {m}
  BY DEF Numbered, HasOpened
<1>2. /\ d.project \in ProjectRow
      /\ e.project = [d.project EXCEPT !.status = Handlers!stepInProgressStatus[s]]
  BY RowsAre DEF HasOpened
<1>3. \A c \in e.outbox : c.saga \in 1 .. n
  BY <1>1
<1>4. n # 0
  OBVIOUS
<1>5. /\ e.project.saga = d.project.saga /\ e.project.config = d.project.config
      /\ e.project.script = d.project.script /\ e.project.outline = d.project.outline
      /\ e.project.status = Handlers!stepInProgressStatus[s]
  BY <1>2 DEF ProjectRow
<1> QED  BY <1>3, <1>4, <1>5 DEF Leaves, Like, HasOpened

\* Rows that fit are left by failing a step.
LEMMA FailedLeaves ==
    ASSUME NEW d \in Rows, NEW e, NEW g, NEW s \in Handlers!Steps,
           NEW n \in Nat \ {0}, HasFailed(d, e, g, s), d.project.saga = n,
           \A c \in d.outbox : c.saga \in 1 .. n
    PROVE  /\ Leaves(e, n) /\ Like(e, d)
           /\ e.project.status = Handlers!FailedStatusForStep[s]
<1>1. /\ d.project \in ProjectRow
      /\ e.project = [d.project EXCEPT !.status = Handlers!FailedStatusForStep[s]]
  BY RowsAre DEF HasFailed
<1>2. /\ e.project.saga = d.project.saga /\ e.project.config = d.project.config
      /\ e.project.script = d.project.script /\ e.project.outline = d.project.outline
      /\ e.project.status = Handlers!FailedStatusForStep[s]
  BY <1>1 DEF ProjectRow
<1> QED  BY <1>2 DEF Leaves, Like, HasFailed

\* What opens a step call by call is Open of RenderSaga.
LEMMA OpenIsSeen ==
    ASSUME NEW u, Threads = {u}, HandlersKept, Smooth,
           NEW d \in Rows, NEW g, NEW s \in Handlers!Steps,
           HasOpened(d, Handlers!Done', g, s, d.project.script, second),
           d.outbox = Handlers!Done.outbox, Handlers!Gone' = Handlers!Gone
    PROVE  Handlers!Saga!Open(d.step, g, s)
<1> PICK m : m = Numbered(d, g, s, d.project.script, second)
  OBVIOUS
<1>1. /\ Handlers!Done'.outbox = d.outbox \cup {m}
      /\ Handlers!Cardinality(Handlers!Done'.outbox) = Handlers!Cardinality(d.outbox) + 1
      /\ Handlers!Done'.step = Handlers!Saga!Mark(d.step, g, s, "in_progress")
      /\ Handlers!Done'.project = [d.project EXCEPT !.status = Handlers!stepInProgressStatus[s]]
  BY DEF HasOpened
<1>2. d.project \in ProjectRow /\ Handlers!Done \in Rows
  BY RowsAre DEF Smooth, DoneKept
<1>3. /\ Handlers!Done'.project.script = d.project.script
      /\ Handlers!Done'.project.status = Handlers!stepInProgressStatus[s]
  BY <1>1, <1>2 DEF ProjectRow
<1>4. SeenCommands' = SeenCommands \cup {m}
  <2>1. m.id = Handlers!Cardinality(Handlers!Done.outbox) + 1
    BY DEF Numbered
  <2>2. Handlers!Gone \subseteq 1 .. Handlers!Cardinality(Handlers!Done.outbox)
    BY GoneIsKnown DEF Known
  <2> QED  BY <1>1, <1>2, <2>1, <2>2, CommandSeen
<1>5. m = [id |-> Handlers!Cardinality(Handlers!Done.outbox) + 1, saga |-> g, step |-> s,
           script |-> Handlers!Done'.project.script, stamp |-> second]
  BY <1>3 DEF Numbered
<1> QED  BY <1>1, <1>3, <1>4, <1>5, SameTables
         DEF Handlers!Saga!Open, Handlers!Saga!Send, SeenCommands

\* What fails a step call by call is Fail of RenderSaga.
LEMMA FailIsSeen ==
    ASSUME NEW d \in Rows, NEW g, NEW s \in Handlers!Steps, HasFailed(d, Handlers!Done', g, s)
    PROVE  Handlers!Saga!Fail(d.step, g, s)
<1>1. /\ Handlers!Done'.step = Handlers!Saga!Mark(d.step, g, s, "failed")
      /\ Handlers!Done'.project = [d.project EXCEPT !.status = Handlers!FailedStatusForStep[s]]
  BY DEF HasFailed
<1>2. Handlers!Done'.project.status = Handlers!FailedStatusForStep[s]
  BY <1>1, RowsAre DEF ProjectRow
<1> QED  BY <1>1, <1>2, SameTables DEF Handlers!Saga!Fail

\* Nothing is sent where the commands stay.
LEMMA NothingIsSent ==
    ASSUME Handlers!Done'.outbox = Handlers!Done.outbox, Handlers!Gone' = Handlers!Gone
    PROVE  Handlers!Saga!NothingSent
BY DEF Handlers!Saga!NothingSent

-----------------------------------------------------------------------------
(* The handlers call by call: what follows a validation.                   *)

\* The scenes are rendered or cannot be; speech comes first where it is wanted.
Renders(d, e, g) ==
    \/ HasOpened(d, e, g, "render_scenes", d.project.script, second)
    \/ HasFailed(d, e, g, "render_scenes")

Skips(d, x, g) ==
    /\ x \in Rows /\ x.project = d.project /\ x.outbox = d.outbox /\ x.cancel = d.cancel
    /\ x.step = Handlers!Saga!Mark(d.step, g, "synthesize_speech", "completed")

Validated(d, e, g) ==
    \/ /\ d.project.config.tts
       /\ HasOpened(d, e, g, "synthesize_speech", d.project.script, second)
    \/ ~d.project.config.tts /\ \E x : Skips(d, x, g) /\ Renders(x, e, g)

\* Of two marks of a step the second stands.
LEMMA MarkedTwice ==
    ASSUME NEW rows \in [Handlers!Sagas -> [Handlers!Steps -> Handlers!StepStatuses]],
           NEW g, NEW s, NEW a, NEW b
    PROVE  Handlers!Saga!Mark(Handlers!Saga!Mark(rows, g, s, a), g, s, b)
              = Handlers!Saga!Mark(rows, g, s, b)
BY DEF Handlers!Saga!Mark

\* The calls of startRenderScenes, together.
LEMMA RendersNext ==
    ASSUME NEW d \in Rows, NEW g \in Nat, second \in Nat,
           NEW q \in Handlers!startRenderScenes(g, d.project)
    PROVE  /\ q \in Seq(HandlerCall) /\ Uncancelled(q)
           /\ ~Handlers!Dispatches(q, "synthesize_speech")
           /\ Renders(d, Handlers!Through(d, q), g)
<1> DEFINE s == "render_scenes"
           a == Handlers!UpdateStep(g, s, "in_progress")
           r == Handlers!Failing(g, s)
<1>1. s \in Handlers!Steps /\ d.project \in ProjectRow
  BY EarlierAre, RowsAre
<1>2. CASE q = Handlers!Opening(g, s, d.project)
  BY <1>1, <1>2, OpeningStored, OpeningDispatches DEF Renders
<1>3. CASE q = <<a>> \o r
  <2>1. /\ "in_progress" \in Handlers!StepStatuses /\ a.op = "UpdateStep"
    BY DEF Handlers!StepStatuses, Handlers!UpdateStep
  <2>2. a \in HandlerCall
    BY <1>1, <2>1, CallsAre
  <2>3. /\ r \in Seq(HandlerCall) /\ Uncancelled(r)
        /\ ~Handlers!Dispatches(r, "synthesize_speech")
    BY <1>1, FailingStored, FailingDispatches
  <2> PICK x : x = Handlers!Do(d, a)
    OBVIOUS
  <2>4. /\ x \in Rows /\ x.project = d.project /\ x.outbox = d.outbox
        /\ x.step = Handlers!Saga!Mark(d.step, g, s, "in_progress") /\ x.cancel = d.cancel
    BY <1>1, <2>1, StepWritten
  <2> PICK e : e = Handlers!Through(x, r)
    OBVIOUS
  <2>5. HasFailed(x, e, g, s)
    BY <1>1, <2>4, FailingStored
  <2> HIDE DEF a, r
  <2>6. q \in Seq(HandlerCall) /\ Handlers!Through(d, q) = e
    BY <1>3, <2>2, <2>3, FirstOf
  <2>7. Uncancelled(q) /\ ~Handlers!Dispatches(q, "synthesize_speech")
    BY <1>3, <2>1, <2>2, <2>3, FirstDispatches
  <2>8. HasFailed(d, e, g, s)
    <3>1. Handlers!Saga!Mark(x.step, g, s, "failed") = Handlers!Saga!Mark(d.step, g, s, "failed")
      BY <2>4, RowsAre, MarkedTwice
    <3> QED  BY <2>4, <2>5, <3>1 DEF HasFailed
  <2> QED  BY <2>6, <2>7, <2>8 DEF Renders
<1> QED  BY <1>2, <1>3 DEF Handlers!startRenderScenes

\* The calls that follow a validation, together.
LEMMA ValidatedNext ==
    ASSUME NEW d \in Rows, NEW g \in Nat, second \in Nat,
           NEW q \in Handlers!AfterValidation(g, d.project)
    PROVE  /\ q \in Seq(HandlerCall) /\ Uncancelled(q)
           /\ Handlers!Dispatches(q, "synthesize_speech") <=> d.project.config.tts
           /\ Validated(d, Handlers!Through(d, q), g)
<1> DEFINE s == "synthesize_speech"
           a == Handlers!Save(d.project)
           b == Handlers!UpdateStep(g, s, "completed")
<1>1. s \in Handlers!Steps /\ d.project \in ProjectRow
  BY EarlierAre, RowsAre
<1>2. CASE d.project.config.tts
  <2>1. q = Handlers!Opening(g, s, d.project)
    BY <1>2 DEF Handlers!AfterValidation
  <2> QED  BY <1>1, <1>2, <2>1, OpeningStored, OpeningDispatches DEF Validated
<1>3. CASE ~d.project.config.tts
  <2>1. PICK r \in Handlers!startRenderScenes(g, d.project) : q = <<a, b>> \o r
    BY <1>3 DEF Handlers!AfterValidation
  <2>2. /\ "completed" \in Handlers!StepStatuses /\ b.op = "UpdateStep"
    BY DEF Handlers!StepStatuses, Handlers!UpdateStep
  <2>3. a \in HandlerCall /\ b \in HandlerCall
    BY <1>1, <2>2, CallsAre
  <2> PICK y : y = Handlers!Do(d, a)
    OBVIOUS
  <2>4. /\ y \in Rows /\ y.project = d.project /\ y.outbox = d.outbox
        /\ y.step = d.step /\ y.cancel = d.cancel
    BY <1>1, RowSaved
  <2> PICK x : x = Handlers!Do(y, b)
    OBVIOUS
  <2>5. /\ x \in Rows /\ x.project = y.project /\ x.outbox = y.outbox
        /\ x.step = Handlers!Saga!Mark(y.step, g, s, "completed") /\ x.cancel = y.cancel
    BY <1>1, <2>2, <2>4, StepWritten
  <2>6. /\ r \in Seq(HandlerCall) /\ Uncancelled(r) /\ ~Handlers!Dispatches(r, s)
        /\ Renders(x, Handlers!Through(x, r), g)
    BY <2>1, <2>4, <2>5, RendersNext
  <2>7. a.op = "Save"
    BY DEF Handlers!Save
  <2> HIDE DEF a, b
  <2> PICK w : w = <<b>> \o r
    OBVIOUS
  <2>8. /\ w \in Seq(HandlerCall) /\ Handlers!Through(y, w) = Handlers!Through(x, r)
        /\ Uncancelled(w) /\ ~Handlers!Dispatches(w, s)
    BY <2>2, <2>3, <2>4, <2>6, FirstOf, FirstDispatches
  <2>9. <<a, b>> \o r = <<a>> \o w
    <3>1. <<a>> \in Seq(HandlerCall) /\ <<b>> \in Seq(HandlerCall)
      BY <2>3
    <3>2. (<<a>> \o <<b>>) \o r = <<a>> \o (<<b>> \o r)
      BY <2>6, <3>1, ConcatAssociative
    <3> QED  BY <3>2, Pair
  <2>10. /\ q \in Seq(HandlerCall) /\ Handlers!Through(d, q) = Handlers!Through(x, r)
         /\ Uncancelled(q) /\ ~Handlers!Dispatches(q, s)
    <3>1. q = <<a>> \o w
      BY <2>1, <2>9
    <3>2. q \in Seq(HandlerCall) /\ Handlers!Through(d, q) = Handlers!Through(y, w)
      BY <2>3, <2>8, <3>1, FirstOf
    <3>3. Uncancelled(q) /\ ~Handlers!Dispatches(q, s)
      BY <2>3, <2>7, <2>8, <3>1, FirstDispatches
    <3> QED  BY <2>8, <3>2, <3>3
  <2>11. Skips(d, x, g)
    BY <2>4, <2>5 DEF Skips
  <2> QED  BY <1>3, <2>6, <2>10, <2>11 DEF Validated
<1> QED  BY <1>2, <1>3

\* startRenderScenes, for RenderSaga.
LEMMA RendersSeen ==
    ASSUME NEW u, Threads = {u}, HandlersKept, Smooth, NEW d \in Rows, NEW g,
           NEW n \in Nat, d.project.saga = n, g \in 1 .. n, \A c \in d.outbox : c.saga \in 1 .. n,
           Renders(d, Handlers!Done', g), d.outbox = Handlers!Done.outbox,
           Handlers!Gone' = Handlers!Gone
    PROVE  /\ Handlers!Saga!startRenderScenes(d.step, g)
           /\ Leaves(Handlers!Done', n) /\ Like(Handlers!Done', d)
<1>1. "render_scenes" \in Handlers!Steps
  BY EarlierAre
<1> PICK e : e = Handlers!Done'
  OBVIOUS
<1>2. CASE HasOpened(d, Handlers!Done', g, "render_scenes", d.project.script, second)
  <2>1. Handlers!Saga!Open(d.step, g, "render_scenes")
    BY <1>1, <1>2, OpenIsSeen
  <2>2. Leaves(e, n) /\ Like(e, d)
    BY <1>1, <1>2, OpenedLeaves
  <2> QED  BY <2>1, <2>2 DEF Handlers!Saga!startRenderScenes
<1>3. CASE HasFailed(d, Handlers!Done', g, "render_scenes")
  <2>1. Handlers!Saga!Fail(d.step, g, "render_scenes")
    BY <1>1, <1>3, FailIsSeen
  <2>2. Handlers!Saga!NothingSent
    BY <1>3, NothingIsSent DEF HasFailed
  <2>3. Leaves(e, n) /\ Like(e, d)
    BY <1>1, <1>3, FailedLeaves
  <2> QED  BY <2>1, <2>2, <2>3 DEF Handlers!Saga!startRenderScenes
<1> QED  BY <1>2, <1>3 DEF Renders

\* What follows a validation, for RenderSaga.
LEMMA ValidatedSeen ==
    ASSUME NEW u, Threads = {u}, HandlersKept, Smooth, NEW d \in Rows, NEW g,
           NEW n \in Nat, d.project.saga = n, g \in 1 .. n, \A c \in d.outbox : c.saga \in 1 .. n,
           Validated(d, Handlers!Done', g), d.outbox = Handlers!Done.outbox,
           Handlers!Gone' = Handlers!Gone,
           d.project.config = Handlers!Done.project.config,
           retries' = IF d.project.config.tts THEN [retries EXCEPT ![g] = 0] ELSE retries
    PROVE  /\ Handlers!Saga!AfterValidation(d.step, g)
           /\ Leaves(Handlers!Done', n) /\ Like(Handlers!Done', d)
<1>1. "synthesize_speech" \in Handlers!Steps
  BY EarlierAre
<1> PICK e : e = Handlers!Done'
  OBVIOUS
<1>2. CASE /\ d.project.config.tts
           /\ HasOpened(d, Handlers!Done', g, "synthesize_speech", d.project.script, second)
  <2>1. Handlers!Saga!Open(d.step, g, "synthesize_speech")
    BY <1>1, <1>2, OpenIsSeen
  <2>2. Leaves(e, n) /\ Like(e, d)
    BY <1>1, <1>2, OpenedLeaves
  <2> QED  BY <1>2, <2>1, <2>2 DEF Handlers!Saga!AfterValidation, Handlers!Saga!startSynthesizeSpeech
<1>3. CASE ~d.project.config.tts /\ \E x : Skips(d, x, g) /\ Renders(x, Handlers!Done', g)
  <2>1. PICK x : Skips(d, x, g) /\ Renders(x, Handlers!Done', g)
    BY <1>3
  <2>2. /\ x \in Rows /\ x.project = d.project /\ x.outbox = d.outbox /\ x.cancel = d.cancel
        /\ x.step = Handlers!Saga!Mark(d.step, g, "synthesize_speech", "completed")
    BY <2>1 DEF Skips
  <2>3. /\ Handlers!Saga!startRenderScenes(x.step, g)
        /\ Leaves(Handlers!Done', n) /\ Like(Handlers!Done', x)
    BY <2>1, <2>2, RendersSeen
  <2>4. Like(Handlers!Done', d)
    BY <2>2, <2>3 DEF Like
  <2> QED  BY <1>3, <2>2, <2>3, <2>4
           DEF Handlers!Saga!AfterValidation, Handlers!Saga!skipSynthesizeSpeech
<1> QED  BY <1>2, <1>3 DEF Validated

-----------------------------------------------------------------------------
(* The handlers call by call: each request is an action of RenderSaga.     *)

\* A request that opens a step, for RenderSaga.
LEMMA RequestOpens ==
    ASSUME NEW u, Threads = {u}, HandlersKept, Smooth, faults \in Nat,
           NEW q \in Seq(HandlerCall), Handlers!Request(u, q),
           NEW d \in Rows, NEW g, NEW s \in Handlers!Steps,
           HasOpened(d, Handlers!Through(shared, q), g, s, d.project.script, second),
           d.outbox = shared.outbox, d.project.saga = sagas', g \in 1 .. sagas',
           sagas' \in {sagas, sagas + 1}
    PROVE  /\ Handlers!Saga!Open(d.step, g, s)
           /\ Leaves(Handlers!Through(shared, q), sagas') /\ Like(Handlers!Done', d)
<1>1. job[u] = Handlers!Idle
  BY DEF Handlers!Request, Handlers!Works
<1>2. /\ Handlers!Done = shared /\ Handlers!Done' = Handlers!Through(shared, q)
      /\ Handlers!Gone' = Handlers!Gone
  BY RequestSeen
<1> PICK e : e = Handlers!Done'
  OBVIOUS
<1> PICK n : n = sagas'
  OBVIOUS
<1>3. n \in Nat /\ \A c \in d.outbox : c.saga \in 1 .. n
  BY <1>1, BeforeRequest DEF Leaves
<1>4. Leaves(e, n) /\ Like(e, d)
  BY <1>2, <1>3, OpenedLeaves
<1>5. Handlers!Saga!Open(d.step, g, s)
  BY <1>2, OpenIsSeen
<1> QED  BY <1>2, <1>4, <1>5

\* A render is started (start_render_saga.go).
LEMMA StartRenderSeen ==
    ASSUME NEW u, Threads = {u}, HandlersKept, Smooth, faults \in Nat, Handlers!StartRender(u)
    PROVE  \E q : IsSeen(u, q)
<1>1. PICK chosen \in [review : BOOLEAN, tts : BOOLEAN] :
         LET p == [status |-> "draft", saga |-> sagas + 1,
                   script |-> Handlers!project.script + 1, outline |-> 0,
                   config |-> chosen]
         IN  Handlers!Request(u, <<Handlers!Save(p)>>
                                    \o Handlers!Opening(p.saga, "validate_script", p))
  BY DEF Handlers!StartRender
<1>2. /\ sagas' = sagas + 1 /\ retries' = retries
      /\ second > shared.cancel.second /\ Handlers!project.status \notin Handlers!InFlight
  BY DEF Handlers!StartRender, Handlers!Paced
<1> PICK p : p = [status |-> "draft", saga |-> sagas + 1,
                  script |-> Handlers!project.script + 1, outline |-> 0, config |-> chosen]
  OBVIOUS
<1> DEFINE o == Handlers!Opening(p.saga, "validate_script", p)
           q == <<Handlers!Save(p)>> \o o
<1>3. Handlers!Request(u, q)
  BY <1>1
<1>4. job[u] = Handlers!Idle
  BY <1>3 DEF Handlers!Request, Handlers!Works
<1>5. /\ shared \in Rows /\ Handlers!project = shared.project
      /\ shared.project \in ProjectRow /\ Leaves(shared, sagas)
      /\ sagas \in Nat /\ second \in Nat /\ Handlers!Done = shared
  BY <1>4, BeforeRequest
<1>6. /\ p \in ProjectRow /\ p.saga = sagas + 1 /\ p.saga \in Nat
      /\ p.script = shared.project.script + 1 /\ p.outline = 0 /\ p.config = chosen
  BY <1>5 DEF ProjectRow, Handlers!Statuses, Handlers!Resting
<1>7. "validate_script" \in Handlers!Steps
  BY EarlierAre
<1>8. o \in Seq(HandlerCall) /\ Uncancelled(o)
  BY <1>5, <1>6, <1>7, OpeningStored, OpeningDispatches
<1> HIDE DEF o
<1>9. q \in Seq(HandlerCall) /\ Uncancelled(q)
  BY <1>5, <1>6, <1>8, SavedStored, SavedDispatches
<1>10. PICK d \in Rows :
            /\ d.project = p /\ d.outbox = shared.outbox /\ d.step = shared.step
            /\ d.cancel = shared.cancel
            /\ Handlers!Through(shared, q) = Handlers!Through(d, o)
  BY <1>5, <1>6, <1>8, SavedStored
<1> HIDE DEF q
<1>11. HasOpened(d, Handlers!Through(shared, q), p.saga, "validate_script", d.project.script,
                 second)
  BY <1>5, <1>6, <1>7, <1>10, OpeningStored DEF o
<1>12. /\ Handlers!Saga!Open(d.step, p.saga, "validate_script")
       /\ Leaves(Handlers!Through(shared, q), sagas') /\ Like(Handlers!Done', d)
  <2>1. d.project.saga = sagas' /\ p.saga \in 1 .. sagas' /\ sagas' \in {sagas, sagas + 1}
    BY <1>2, <1>5, <1>6, <1>10
  <2> QED  BY <1>3, <1>7, <1>9, <1>10, <1>11, <2>1, RequestOpens
<1>13. /\ SeenEvents' = SeenEvents /\ asked < MaxHandled /\ asked' = asked + 1 /\ second' = second
  BY <1>3, <1>9, RequestSeen
<1>14. shared.project.saga = sagas
  BY <1>5 DEF Leaves
<1>15. Handlers!Saga!StartRender
  <2>1. Handlers!Saga!Open(Handlers!Done.step, Handlers!Done.project.saga + 1, "validate_script")
    BY <1>5, <1>6, <1>10, <1>12, <1>14 DEF Handlers!Saga!Open
  <2> QED  BY <1>2, <1>5, <1>6, <1>10, <1>12, <1>13, <1>14, <2>1, SameTables
           DEF Handlers!Saga!StartRender, Handlers!Saga!Request, Handlers!Saga!Paced, SeenEvents,
               Seen, Like
<1> QED  BY <1>2, <1>3, <1>9, <1>12, <1>15 DEF IsSeen, Handlers!Saga!Next, Handlers!Saga!Creator

\* A publish is started (start_publish_saga.go).
LEMMA StartPublishSeen ==
    ASSUME NEW u, Threads = {u}, HandlersKept, Smooth, faults \in Nat, Handlers!StartPublish(u)
    PROVE  \E q : IsSeen(u, q)
<1> PICK p : p = [Handlers!project EXCEPT !.saga = sagas + 1]
  OBVIOUS
<1> DEFINE o == Handlers!Opening(p.saga, "publish_video", p)
           q == <<Handlers!Save(p)>> \o o
<1>1. /\ Handlers!Request(u, q) /\ sagas' = sagas + 1 /\ retries' = retries
      /\ Handlers!project.status = "ready_to_publish"
  BY DEF Handlers!StartPublish
<1>2. job[u] = Handlers!Idle
  BY <1>1 DEF Handlers!Request, Handlers!Works
<1>3. /\ shared \in Rows /\ Handlers!project = shared.project
      /\ shared.project \in ProjectRow /\ sagas \in Nat /\ second \in Nat
      /\ Handlers!Done = shared
  BY <1>2, BeforeRequest
<1>4. /\ p \in ProjectRow /\ p.saga = sagas + 1 /\ p.saga \in Nat
      /\ p.script = shared.project.script /\ p.outline = shared.project.outline
      /\ p.config = shared.project.config
  BY <1>3 DEF ProjectRow
<1>5. "publish_video" \in Handlers!Steps
  BY EarlierAre
<1>6. o \in Seq(HandlerCall) /\ Uncancelled(o)
  BY <1>3, <1>4, <1>5, OpeningStored, OpeningDispatches
<1> HIDE DEF o
<1>7. q \in Seq(HandlerCall) /\ Uncancelled(q)
  BY <1>3, <1>4, <1>6, SavedStored, SavedDispatches
<1>8. PICK d \in Rows :
            /\ d.project = p /\ d.outbox = shared.outbox /\ d.step = shared.step
            /\ d.cancel = shared.cancel
            /\ Handlers!Through(shared, q) = Handlers!Through(d, o)
  BY <1>3, <1>4, <1>6, SavedStored
<1> HIDE DEF q
<1>9. HasOpened(d, Handlers!Through(shared, q), p.saga, "publish_video", d.project.script,
                second)
  <2>1. HasOpened(d, Handlers!Through(d, o), p.saga, "publish_video", p.script, second)
    BY <1>3, <1>4, <1>5, OpeningStored DEF o
  <2> QED  BY <1>8, <2>1
<1>10. /\ Handlers!Saga!Open(d.step, p.saga, "publish_video")
       /\ Leaves(Handlers!Through(shared, q), sagas') /\ Like(Handlers!Done', d)
  <2>1. d.project.saga = sagas' /\ p.saga \in 1 .. sagas' /\ sagas' \in {sagas, sagas + 1}
    BY <1>1, <1>3, <1>4, <1>8
  <2> QED  BY <1>1, <1>5, <1>7, <1>8, <1>9, <2>1, RequestOpens
<1>11. /\ SeenEvents' = SeenEvents /\ asked < MaxHandled /\ asked' = asked + 1 /\ second' = second
  BY <1>1, <1>7, RequestSeen
<1>12. shared.project.saga = sagas
  BY <1>2, BeforeRequest DEF Leaves
<1>13. Handlers!Saga!StartPublish
  <2>1. Handlers!Saga!Open(Handlers!Done.step, Handlers!Done.project.saga + 1, "publish_video")
    BY <1>3, <1>4, <1>8, <1>10, <1>12 DEF Handlers!Saga!Open
  <2> QED  BY <1>1, <1>3, <1>4, <1>8, <1>10, <1>11, <1>12, <2>1
           DEF Handlers!Saga!StartPublish, Handlers!Saga!Request, Handlers!Saga!row, SeenEvents,
               Seen, Like
<1> QED  BY <1>1, <1>7, <1>10, <1>13 DEF IsSeen, Handlers!Saga!Next, Handlers!Saga!Creator

\* A failed step is retried (retry_step.go).
LEMMA RetryStepSeen ==
    ASSUME NEW u, Threads = {u}, HandlersKept, Smooth, faults \in Nat,
           NEW s \in Handlers!Steps, Handlers!RetryStep(u, s)
    PROVE  \E q : IsSeen(u, q)
<1> PICK g : g = shared.project.saga
  OBVIOUS
<1> PICK q : q = Handlers!Opening(g, s, shared.project)
  OBVIOUS
<1>1. /\ Handlers!Request(u, q) /\ sagas' = sagas
      /\ second > shared.cancel.second
      /\ shared.project.status = Handlers!FailedStatusForStep[s]
      /\ retries' = IF s = "synthesize_speech" THEN [retries EXCEPT ![g] = 0] ELSE retries
  BY DEF Handlers!RetryStep, Handlers!Paced, Handlers!project
<1>2. job[u] = Handlers!Idle
  BY <1>1 DEF Handlers!Request, Handlers!Works
<1>3. /\ shared \in Rows /\ shared.project \in ProjectRow /\ sagas \in Nat /\ second \in Nat
      /\ Handlers!Done = shared /\ Leaves(shared, sagas)
  BY <1>2, BeforeRequest
<1>4. g = sagas /\ g \in 1 .. sagas
  BY <1>1, <1>3, EarlierAre DEF Leaves, Handlers!FailedStatusForStep
<1>5. q \in Seq(HandlerCall) /\ Uncancelled(q)
  BY <1>3, <1>4, OpeningStored, OpeningDispatches
<1>6. HasOpened(shared, Handlers!Through(shared, q), g, s, shared.project.script, second)
  BY <1>3, <1>4, OpeningStored
<1>7. /\ Handlers!Saga!Open(shared.step, g, s)
      /\ Leaves(Handlers!Through(shared, q), sagas') /\ Like(Handlers!Done', shared)
  BY <1>1, <1>3, <1>4, <1>5, <1>6, RequestOpens
<1>8. /\ SeenEvents' = SeenEvents /\ asked < MaxHandled /\ asked' = asked + 1 /\ second' = second
  BY <1>1, <1>5, RequestSeen
<1>9. Handlers!Saga!RetryStep(s)
  <2>1. Handlers!Saga!Request /\ Handlers!Saga!Paced
    BY <1>1, <1>3, <1>8 DEF Handlers!Saga!Request, Handlers!Saga!Paced
  <2>2. UNCHANGED <<Handlers!Saga!row, Handlers!Done.project.saga, SeenEvents, second,
                    Handlers!Done.cancel>>
    BY <1>3, <1>7, <1>8 DEF Handlers!Saga!row, Like
  <2>3. Handlers!Saga!Open(Handlers!Done.step, Handlers!Done.project.saga, s)
    BY <1>3, <1>7 DEF Handlers!Saga!Open
  <2> QED  BY <1>1, <1>3, <2>1, <2>2, <2>3, SameTables
           DEF Handlers!Saga!RetryStep, SeenEvents, Seen
<1> QED  BY <1>1, <1>5, <1>7, <1>9, SameTables
         DEF IsSeen, Handlers!Saga!Next, Handlers!Saga!Creator

\* A step is cancelled (cancel_step.go).
LEMMA CancelStepSeen ==
    ASSUME NEW u, Threads = {u}, HandlersKept, Smooth, faults \in Nat,
           NEW s \in Handlers!Steps, Handlers!CancelStep(u, s)
    PROVE  \E q : IsSeen(u, q)
<1> PICK g : g = shared.project.saga
  OBVIOUS
<1> PICK r : r = Handlers!Failing(g, s)
  OBVIOUS
<1> PICK c : c = Handlers!PublishCancel(second)
  OBVIOUS
<1> PICK q : q = <<c>> \o r
  OBVIOUS
<1>1. /\ Handlers!Request(u, q) /\ sagas' = sagas /\ retries' = retries
      /\ s \in Handlers!Cancellable
      /\ shared.project.status = Handlers!stepInProgressStatus[s]
  BY DEF Handlers!CancelStep, Handlers!project
<1>2. job[u] = Handlers!Idle
  BY <1>1 DEF Handlers!Request, Handlers!Works
<1>3. /\ shared \in Rows /\ shared.project \in ProjectRow /\ sagas \in Nat /\ second \in Nat
      /\ Handlers!Done = shared /\ Leaves(shared, sagas)
  BY <1>2, BeforeRequest
<1>4. g = sagas /\ g \in 1 .. sagas
  BY <1>1, <1>3, EarlierAre DEF Leaves, Handlers!stepInProgressStatus
<1>5. r \in Seq(HandlerCall) /\ Uncancelled(r) /\ c \in HandlerCall
  BY <1>3, <1>4, FailingStored, FailingDispatches, CallsAre
<1> PICK d : d = Handlers!Do(shared, c)
  OBVIOUS
<1>6. /\ d \in Rows /\ d.project = shared.project /\ d.outbox = shared.outbox
      /\ d.step = shared.step
      /\ d.cancel = [second |-> second, sent |-> Handlers!Cardinality(shared.outbox)]
  BY <1>3, CancelSent
<1>7. q \in Seq(HandlerCall) /\ Handlers!Through(shared, q) = Handlers!Through(d, r)
  BY <1>3, <1>5, FirstOf
<1>8. q # <<>> /\ Head(q) = c /\ Tail(q) = r
  BY <1>5, HeadOf
<1>9. /\ Handlers!Done' = Handlers!Through(shared, q) /\ SeenEvents' = SeenEvents
      /\ Handlers!Gone' = Handlers!Gone
      /\ asked < MaxHandled /\ asked' = asked + 1 /\ second' = second
  BY <1>1, <1>7, RequestSeen
<1>10. HasFailed(d, Handlers!Done', g, s)
  BY <1>3, <1>4, <1>6, <1>7, <1>9, FailingStored
<1>11. Handlers!Saga!Fail(shared.step, g, s) /\ Handlers!Done'.outbox = shared.outbox
  BY <1>6, <1>10, FailIsSeen DEF HasFailed
<1>12. Leaves(Handlers!Through(shared, q), sagas') /\ Like(Handlers!Through(shared, q), d)
  <2>1. HasFailed(d, Handlers!Through(shared, q), g, s)
    BY <1>9, <1>10
  <2> QED  BY <1>1, <1>3, <1>4, <1>6, <2>1, FailedLeaves DEF Leaves
<1>13. Handlers!Saga!CancelStep(s)
  BY <1>1, <1>3, <1>6, <1>9, <1>11, <1>12, SameTables
     DEF Handlers!Saga!CancelStep, Handlers!Saga!Request, Handlers!Saga!row, SeenEvents, Seen,
         Like
<1> QED  BY <1>1, <1>5, <1>7, <1>8, <1>12, <1>13, SameTables
         DEF IsSeen, Handlers!Saga!Next, Handlers!Saga!Creator

\* The scenes are approved (review_outline.go).
LEMMA ApproveSeen ==
    ASSUME NEW u, Threads = {u}, HandlersKept, Smooth, faults \in Nat, Handlers!Approve(u)
    PROVE  \E q : IsSeen(u, q)
<1> PICK g : g = shared.project.saga
  OBVIOUS
<1>1. PICK q \in Handlers!AfterValidation(g, shared.project) : Handlers!Request(u, q)
  BY DEF Handlers!Approve, Handlers!project
<1>2. /\ sagas' = sagas /\ shared.project.status = "awaiting_review"
      /\ retries' = IF shared.project.config.tts THEN [retries EXCEPT ![g] = 0] ELSE retries
  BY DEF Handlers!Approve, Handlers!project
<1>3. job[u] = Handlers!Idle
  BY <1>1 DEF Handlers!Request, Handlers!Works
<1>4. /\ shared \in Rows /\ sagas \in Nat /\ second \in Nat
      /\ Handlers!Done = shared /\ Leaves(shared, sagas)
  BY <1>3, BeforeRequest
<1>5. g = sagas /\ g \in 1 .. sagas
  BY <1>2, <1>4 DEF Leaves
<1>6. /\ q \in Seq(HandlerCall) /\ Uncancelled(q)
      /\ Validated(shared, Handlers!Through(shared, q), g)
  BY <1>1, <1>4, <1>5, ValidatedNext
<1>7. /\ Handlers!Done' = Handlers!Through(shared, q) /\ SeenEvents' = SeenEvents
      /\ Handlers!Gone' = Handlers!Gone
      /\ asked < MaxHandled /\ asked' = asked + 1 /\ second' = second
  BY <1>1, <1>6, RequestSeen
<1>8. /\ Handlers!Saga!AfterValidation(Handlers!Done.step, Handlers!Done.project.saga)
      /\ Leaves(Handlers!Done', sagas) /\ Like(Handlers!Done', shared)
  <2>1. /\ shared.project.saga = sagas /\ g \in 1 .. sagas
        /\ \A c \in shared.outbox : c.saga \in 1 .. sagas
        /\ Validated(shared, Handlers!Done', g) /\ shared.outbox = Handlers!Done.outbox
        /\ shared.project.config = Handlers!Done.project.config
    BY <1>4, <1>5, <1>6, <1>7 DEF Leaves
  <2> PICK d : d = shared
    OBVIOUS
  <2>2. /\ d \in Rows /\ d.project.saga = sagas /\ \A c \in d.outbox : c.saga \in 1 .. sagas
        /\ Validated(d, Handlers!Done', g) /\ d.outbox = Handlers!Done.outbox
        /\ d.project.config = Handlers!Done.project.config
        /\ retries' = IF d.project.config.tts THEN [retries EXCEPT ![g] = 0] ELSE retries
    BY <1>2, <1>4, <2>1
  <2>3. /\ Handlers!Saga!AfterValidation(d.step, g)
        /\ Leaves(Handlers!Done', sagas) /\ Like(Handlers!Done', d)
    BY <1>4, <1>7, <2>1, <2>2, ValidatedSeen
  <2>4. Handlers!Saga!AfterValidation(Handlers!Done.step, Handlers!Done.project.saga)
    BY <1>4, <2>3
       DEF Handlers!Saga!AfterValidation, Handlers!Saga!startSynthesizeSpeech,
           Handlers!Saga!skipSynthesizeSpeech, Handlers!Saga!startRenderScenes,
           Handlers!Saga!Open, Handlers!Saga!Fail
  <2> QED  BY <2>3, <2>4
<1>9. Handlers!Saga!Approve
  <2>1. Handlers!Saga!Request
    BY <1>7 DEF Handlers!Saga!Request
  <2>2. UNCHANGED <<Handlers!Saga!row, Handlers!Done.project.saga, SeenEvents, second,
                    Handlers!Done.cancel>>
    BY <1>4, <1>7, <1>8 DEF Handlers!Saga!row, Like
  <2> QED  BY <1>2, <1>4, <1>8, <2>1, <2>2 DEF Handlers!Saga!Approve, SeenEvents, Seen
<1>10. Leaves(Handlers!Through(shared, q), sagas')
  BY <1>2, <1>7, <1>8
<1> QED  BY <1>1, <1>2, <1>6, <1>9, <1>10
         DEF IsSeen, Handlers!Saga!Next, Handlers!Saga!Creator

\* The scenes are rejected (review_outline.go).
LEMMA RejectSeen ==
    ASSUME NEW u, Threads = {u}, HandlersKept, Smooth, faults \in Nat, Handlers!Reject(u)
    PROVE  \E q : IsSeen(u, q)
<1> PICK c : c = Handlers!UpdateStatus("draft")
  OBVIOUS
<1>1. /\ Handlers!Request(u, <<c>>) /\ sagas' = sagas /\ retries' = retries
      /\ shared.project.status = "awaiting_review"
  BY DEF Handlers!Reject, Handlers!project
<1>2. job[u] = Handlers!Idle
  BY <1>1 DEF Handlers!Request, Handlers!Works
<1>3. /\ shared \in Rows /\ sagas \in Nat /\ second \in Nat /\ shared.project \in ProjectRow
      /\ Handlers!Done = shared /\ Leaves(shared, sagas)
  BY <1>2, BeforeRequest
<1>4. "draft" \in Handlers!Statuses /\ c.op = "UpdateStatus"
  BY DEF Handlers!Statuses, Handlers!Resting, Handlers!UpdateStatus
<1>5. c \in HandlerCall
  BY <1>4, CallsAre
<1>6. <<c>> \in Seq(HandlerCall) /\ Uncancelled(<<c>>)
  BY <1>4, <1>5 DEF Uncancelled
<1> PICK e : e = Handlers!Through(shared, <<c>>)
  OBVIOUS
<1>7. /\ e.project = [shared.project EXCEPT !.status = "draft"] /\ e \in Rows
      /\ e.outbox = shared.outbox /\ e.step = shared.step /\ e.cancel = shared.cancel
  BY <1>3, <1>4, <1>5, OneStored, StatusWritten
<1>8. Leaves(e, sagas') /\ Like(e, shared) /\ e.project.status = "draft"
  BY <1>1, <1>3, <1>7 DEF Leaves, Like, ProjectRow
<1>9. /\ Handlers!Done' = e /\ SeenEvents' = SeenEvents
      /\ Handlers!Gone' = Handlers!Gone
      /\ asked < MaxHandled /\ asked' = asked + 1 /\ second' = second
  BY <1>1, <1>6, RequestSeen
<1>10. Handlers!Saga!Reject
  BY <1>1, <1>3, <1>7, <1>8, <1>9
     DEF Handlers!Saga!Reject, Handlers!Saga!Request, Handlers!Saga!row, SeenEvents, Seen, Like
<1> QED  BY <1>1, <1>6, <1>8, <1>10 DEF IsSeen, Handlers!Saga!Next, Handlers!Saga!Creator

\* Four calls.
LEMMA FourStored ==
    ASSUME NEW d \in Rows, NEW a \in HandlerCall, NEW b \in HandlerCall, NEW c \in HandlerCall,
           NEW f \in HandlerCall
    PROVE  Handlers!Through(d, <<a, b, c, f>>)
              = Handlers!Do(Handlers!Do(Handlers!Do(Handlers!Do(d, a), b), c), f)
<1>1. PICK q, r : q = <<a, b, c, f>> /\ r = <<c, f>>
  OBVIOUS
<1>2. q \in Seq(HandlerCall) /\ q # <<>> /\ Head(q) = a /\ Tail(q) = <<b, c, f>>
  BY <1>1
<1>3. r \in Seq(HandlerCall) /\ <<b>> \o r = <<b, c, f>>
  BY <1>1, OneAndTwo
<1>4. Tail(q) = <<b>> \o r
  BY <1>2, <1>3
<1>5. PICK x, y : x = Handlers!Do(d, a) /\ y = Handlers!Do(x, b)
  OBVIOUS
<1>6. x \in Rows /\ y \in Rows
  BY <1>5, CallKept
<1>7. Handlers!Through(d, q) = Handlers!Through(x, <<b>> \o r)
  BY <1>2, <1>4, <1>5, FirstStored
<1>8. Handlers!Through(x, <<b>> \o r) = Handlers!Through(y, r)
  BY <1>3, <1>5, <1>6, FirstOf
<1>9. Handlers!Through(y, r) = Handlers!Do(Handlers!Do(y, c), f)
  BY <1>1, <1>6, TwoStored
<1> QED  BY <1>1, <1>5, <1>7, <1>8, <1>9

\* The narration is edited and validated again (review_outline.go).
LEMMA EditNarrationSeen ==
    ASSUME NEW u, Threads = {u}, HandlersKept, Smooth, faults \in Nat, Handlers!EditNarration(u)
    PROVE  \E q : IsSeen(u, q)
<1> DEFINE s == "validate_script"
<1> PICK p : p = [shared.project EXCEPT !.script = @ + 1]
  OBVIOUS
<1> PICK a : a = Handlers!Save(p)
  OBVIOUS
<1> PICK b : b = Handlers!UpdateStep(p.saga, s, "in_progress")
  OBVIOUS
<1> PICK c : c = Handlers!UpdateStatus("validating_script")
  OBVIOUS
<1> PICK f : f = Handlers!PublishCommand(p.saga, s, p.script, Handlers!NoStamp)
  OBVIOUS
<1> DEFINE q == <<a, b, c, f>>
<1>1. /\ Handlers!Request(u, q) /\ sagas' = sagas /\ retries' = retries
      /\ shared.project.status = "awaiting_review"
  BY DEF Handlers!EditNarration, Handlers!project
<1>2. job[u] = Handlers!Idle
  BY <1>1 DEF Handlers!Request, Handlers!Works
<1>3. /\ shared \in Rows /\ sagas \in Nat /\ shared.project \in ProjectRow
      /\ Handlers!Done = shared /\ Leaves(shared, sagas)
  BY <1>2, BeforeRequest
<1>4. /\ p \in ProjectRow /\ p.saga = sagas /\ sagas \in 1 .. sagas
      /\ p.script = shared.project.script + 1 /\ p.script \in Nat
      /\ p.config = shared.project.config /\ p.outline = shared.project.outline
  BY <1>1, <1>3 DEF Leaves, ProjectRow
<1>5. /\ s \in Handlers!Steps /\ "in_progress" \in Handlers!StepStatuses
      /\ "validating_script" = Handlers!stepInProgressStatus[s]
      /\ "validating_script" \in Handlers!Statuses
  BY EarlierAre, StatusOfStep DEF Handlers!StepStatuses, Handlers!stepInProgressStatus
<1>6. a \in HandlerCall /\ b \in HandlerCall /\ c \in HandlerCall /\ f \in HandlerCall
  <2>1. Handlers!NoStamp \in Nat
    BY DEF Handlers!NoStamp
  <2> QED  BY <1>3, <1>4, <1>5, <2>1, CallsAre
<1>7. /\ a.op # "PublishCancel" /\ b.op # "PublishCancel" /\ c.op # "PublishCancel"
      /\ f.op # "PublishCancel"
  BY DEF Handlers!Save, Handlers!UpdateStep, Handlers!UpdateStatus, Handlers!PublishCommand
<1>8. q \in Seq(HandlerCall) /\ Uncancelled(q)
  BY <1>6, <1>7 DEF Uncancelled
<1> HIDE DEF q
<1> PICK w : w = Handlers!Do(shared, a)
  OBVIOUS
<1> PICK x : x = Handlers!Do(w, b)
  OBVIOUS
<1> PICK y : y = Handlers!Do(x, c)
  OBVIOUS
<1> PICK e : e = Handlers!Do(y, f)
  OBVIOUS
<1> PICK m : m = Numbered(y, p.saga, s, p.script, Handlers!NoStamp)
  OBVIOUS
<1>9. /\ w \in Rows /\ w.project = p /\ w.outbox = shared.outbox /\ w.step = shared.step
      /\ w.cancel = shared.cancel
  BY <1>3, <1>4, RowSaved
<1>10. /\ x \in Rows /\ x.project = p /\ x.outbox = shared.outbox /\ x.cancel = shared.cancel
       /\ x.step = Handlers!Saga!Mark(shared.step, sagas, s, "in_progress")
  BY <1>4, <1>5, <1>9, StepWritten
<1>11. /\ y \in Rows /\ y.project = [x.project EXCEPT !.status = "validating_script"]
       /\ y.outbox = shared.outbox /\ y.cancel = shared.cancel /\ y.step = x.step
  BY <1>5, <1>10, StatusWritten
<1>12. /\ e \in Rows /\ e.project = y.project /\ e.step = x.step /\ e.cancel = shared.cancel
       /\ e.outbox = shared.outbox \cup {m}
       /\ Handlers!Cardinality(e.outbox) = Handlers!Cardinality(shared.outbox) + 1
  <2>1. y \in Rows /\ p.saga \in Nat /\ p.script \in Nat /\ Handlers!NoStamp \in Nat
    BY <1>3, <1>4, <1>11 DEF Handlers!NoStamp
  <2>2. HasSent(y, e, m)
    BY <1>5, <2>1, CommandSent
  <2> QED  BY <1>11, <2>2 DEF HasSent
<1>13. Handlers!Through(shared, q) = e
  BY <1>3, <1>6, FourStored DEF q
<1>14. /\ m = [id |-> Handlers!Cardinality(shared.outbox) + 1, saga |-> sagas, step |-> s,
               script |-> shared.project.script + 1, stamp |-> Handlers!NoStamp]
       /\ m.id = Handlers!Cardinality(shared.outbox) + 1 /\ m.saga = sagas
  BY <1>4, <1>11 DEF Numbered
<1>15. /\ e.project.status = "validating_script" /\ e.project.saga = sagas
       /\ e.project.script = shared.project.script + 1
       /\ e.project.config = shared.project.config
       /\ e.project.outline = shared.project.outline
  BY <1>4, <1>10, <1>11, <1>12 DEF ProjectRow
<1>16. Leaves(e, sagas')
  <2>1. \A k \in e.outbox : k.saga \in 1 .. sagas
    BY <1>3, <1>4, <1>12, <1>14 DEF Leaves
  <2> QED  BY <1>1, <1>4, <1>12, <1>15, <2>1 DEF Leaves
<1>17. /\ Handlers!Done' = e /\ SeenEvents' = SeenEvents
       /\ Handlers!Gone' = Handlers!Gone
       /\ asked < MaxHandled /\ asked' = asked + 1 /\ second' = second
  BY <1>1, <1>8, <1>13, RequestSeen
<1>18. SeenCommands' = SeenCommands \cup {m}
  BY <1>2, <1>3, <1>12, <1>14, <1>17, BeforeRequest, CommandSeen
<1>19. shared.project.saga = sagas
  BY <1>3 DEF Leaves
<1>20. Handlers!Saga!EditNarration
  <2>1. Handlers!Saga!Request
    BY <1>17 DEF Handlers!Saga!Request
  <2>2. Handlers!Saga!Send(Handlers!Done.project.saga, s, Handlers!Done'.project.script,
                           Handlers!NoStamp)
    BY <1>3, <1>12, <1>14, <1>15, <1>17, <1>18, <1>19 DEF Handlers!Saga!Send, SeenCommands
  <2>3. Handlers!Done'.step = Handlers!Saga!Mark(Handlers!Done.step, Handlers!Done.project.saga,
                                                s, "in_progress")
    BY <1>3, <1>10, <1>12, <1>17, <1>19
  <2>4. UNCHANGED <<Handlers!Done.project.saga, Handlers!Done.project.config,
                    Handlers!Done.project.outline, Handlers!Done.cancel, SeenEvents, second>>
    BY <1>3, <1>12, <1>15, <1>17, <1>19
  <2> QED  BY <1>1, <1>3, <1>15, <1>17, <2>1, <2>2, <2>3, <2>4
           DEF Handlers!Saga!EditNarration, Handlers!Saga!NoStamp, Handlers!NoStamp, SeenEvents, Seen
<1> QED  BY <1>1, <1>8, <1>13, <1>16, <1>20 DEF IsSeen, Handlers!Saga!Next, Handlers!Saga!Creator

\* A request leaves everything in order.
LEMMA RequestIsSmooth ==
    ASSUME NEW u, Threads = {u}, HandlersKept, Smooth, faults \in Nat, NEW q, IsSeen(u, q)
    PROVE  Smooth'
<1>1. /\ Handlers!Request(u, q) /\ q \in Seq(HandlerCall)
      /\ Leaves(Handlers!Through(shared, q), sagas') /\ sagas' \in {sagas, sagas + 1}
  BY DEF IsSeen
<1> PICK j : j = [for |-> "request", msg |-> Handlers!NoMessage, todo |-> q, deciding |-> FALSE]
  OBVIOUS
<1>2. /\ job[u] = Handlers!Idle /\ asked + faults < MaxHandled
      /\ job' = [job EXCEPT ![u] = j]
      /\ UNCHANGED <<shared, disposed, dead, deliveries, second>>
  BY <1>1 DEF Handlers!Request, Handlers!Works
<1>3. /\ Handlers!Done' = Handlers!Through(shared, q) /\ asked < MaxHandled /\ asked' = asked + 1
  BY <1>1, RequestSeen
<1>4. /\ shared \in Rows /\ sagas \in Nat /\ sagas <= asked /\ asked \in Nat
  BY <1>2, BeforeRequest
<1>5. MessagesKept'
  <2>1. Known' = Known
    BY <1>2 DEF Known
  <2>2. \A e \in deliveries : e.saga \in 1 .. sagas'
    BY <1>1, <1>4 DEF Smooth, MessagesKept
  <2> QED  BY <1>2, <2>1, <2>2 DEF Smooth, MessagesKept
<1>6. DoneKept'
  <2>1. sagas' \in 0 .. asked' /\ asked' \in 0 .. MaxHandled
    BY <1>1, <1>3, <1>4, HandlersAssumption DEF Handlers!CountsAssumption
  <2>2. shared.cancel.second <= second
    BY DEF Smooth, DoneKept
  <2> QED  BY <1>1, <1>2, <1>3, <1>4, <2>1, <2>2 DEF DoneKept, Leaves
<1>7. JobFits(j)'
  <2>1. JobFits(Handlers!Idle)
    BY <1>2 DEF Smooth
  <2>2. Handlers!Idle.for = "nobody"
    BY DEF Handlers!Idle
  <2>3. \A e \in deliveries : e.id \notin dead
    BY <2>1, <2>2 DEF JobFits
  <2>4. \A c \in Handlers!Outstanding : c.id \notin dead
    BY <2>1, <2>2 DEF JobFits
  <2>5. Handlers!Outstanding' = Handlers!Outstanding
    BY <1>2 DEF Handlers!Outstanding
  <2>6. /\ j.for = "request" /\ j.msg = Handlers!NoMessage /\ j.todo = q /\ ~j.deciding
        /\ (Uncancelled(q)
            \/ (q # <<>> /\ Head(q) = Handlers!PublishCancel(second) /\ Uncancelled(Tail(q))))
    BY DEF IsSeen
  <2> QED  BY <1>2, <2>3, <2>4, <2>5, <2>6 DEF JobFits, Handlers!PublishCancel
<1>8. \A t \in Threads : job'[t] = j
  BY <1>2 DEF HandlersKept, JobsKept
<1>9. \A t \in Threads : JobFits(job[t])'
  BY <1>7, <1>8
<1> QED  BY <1>5, <1>6, <1>9 DEF Smooth

\* Every request is a request of RenderSaga.
LEMMA CreatorSeen ==
    ASSUME NEW u, Threads = {u}, HandlersKept, Smooth, faults \in Nat, Handlers!Creator(u)
    PROVE  Smooth' /\ Handlers!Saga!Next
<1>1. \E q : IsSeen(u, q)
  BY StartRenderSeen, StartPublishSeen, ApproveSeen, EditNarrationSeen, RejectSeen, RetryStepSeen,
     CancelStepSeen DEF Handlers!Creator
<1>2. PICK q : IsSeen(u, q)
  BY <1>1
<1> QED  BY <1>2, RequestIsSmooth DEF IsSeen

\* Nothing happened.
LEMMA SameSeen ==
    ASSUME Handlers!Done' = Handlers!Done, Handlers!Gone' = Handlers!Gone,
           SeenEvents' = SeenEvents, UNCHANGED <<retries, second, asked>>
    PROVE  UNCHANGED Handlers!Saga!vars
BY DEF Handlers!Saga!vars, SeenEvents, Seen

-----------------------------------------------------------------------------
(* The handlers call by call: workers.                                     *)

\* A command no goroutine has in hand has not the number of what one has in hand.
LEMMA NotInHand ==
    ASSUME NEW u, Threads = {u}, HandlersKept, Smooth,
           NEW c \in Handlers!Outstanding, job[u].msg # c
    PROVE  /\ c.id # job[u].msg.id /\ c \in SeenCommands /\ c \in shared.outbox
           /\ c.id \notin disposed /\ c.id \in Known /\ c \in OutboxCommand
           /\ c.saga \in 1 .. sagas
<1>1. c \in shared.outbox /\ c.id \notin disposed
  BY DEF Handlers!Outstanding
<1>2. /\ job[u] \in Job /\ JobFits(job[u]) /\ MessagesKept /\ shared \in Rows
      /\ \A b \in Handlers!Done.outbox : b.saga \in 1 .. sagas
  BY DEF HandlersKept, JobsKept, Smooth, DoneKept
<1>3. c \in Handlers!Done.outbox /\ c.id \in Known /\ Handlers!Cardinality(shared.outbox) \in Nat
  BY <1>1, GoneIsKnown
<1>4. c.id # job[u].msg.id
  <2>1. CASE job[u].for \in {"event", "expired"}
    <3>1. job[u].msg \in deliveries
      BY <1>2, <2>1 DEF JobFits
    <3> QED  BY <1>1, <1>2, <3>1 DEF MessagesKept
  <2>2. CASE job[u].for = "dead_letter"
    <3>1. job[u].msg \in shared.outbox
      BY <1>2, <2>2 DEF JobFits, Handlers!Outstanding
    <3> QED  BY <1>1, <1>2, <3>1 DEF Rows
  <2>3. CASE job[u].for \in {"nobody", "request"}
    <3>1. job[u].msg.id = 0
      BY <1>2, <2>3 DEF JobFits, Handlers!NoMessage
    <3> QED  BY <1>3, <3>1 DEF Known
  <2> QED  BY <1>2, <2>1, <2>2, <2>3 DEF Job
<1>5. c.id \notin Handlers!Gone
  BY <1>1, <1>4, HeardIs DEF GoneOf
<1>6. c \in OutboxCommand
  BY <1>1, <1>2, RowsAre
<1> QED  BY <1>1, <1>2, <1>3, <1>4, <1>5, <1>6 DEF SeenCommands

\* What is to come may be a cancel, of this second.
LEMMA CancelToCome ==
    ASSUME NEW u, Threads = {u}, HandlersKept, Smooth
    PROVE  shared.cancel.second <= Handlers!Done.cancel.second
<1> DEFINE q == job[u].todo
<1>1. /\ job[u] \in Job /\ JobFits(job[u]) /\ shared \in Rows /\ second \in Nat
      /\ shared.cancel.second <= second /\ shared.cancel.second \in Nat
  BY RowsAre DEF HandlersKept, JobsKept, SharedKept, Smooth, DoneKept
<1>2. q \in Seq(HandlerCall)
  BY <1>1 DEF Job
<1>3. CASE job[u].deciding
  <2>1. Handlers!Done = Reopened(shared, job[u].msg)
    BY <1>3, UndecidedIs
  <2>2. Handlers!Done.cancel = shared.cancel
    BY <1>1, <2>1 DEF Reopened, Rows, Shared
  <2> QED  BY <1>1, <2>2
<1>4. CASE ~job[u].deciding /\ Uncancelled(q)
  <2>1. Handlers!Done = Handlers!Through(shared, q)
    BY <1>4, StoredIs
  <2>2. Handlers!Done.cancel = shared.cancel
    BY <1>1, <1>2, <1>4, <2>1, CallsKept DEF Uncancelled
  <2> QED  BY <1>1, <2>2
<1>5. CASE /\ ~job[u].deciding /\ q # <<>> /\ Head(q) = Handlers!PublishCancel(second)
           /\ Uncancelled(Tail(q))
  <2> PICK d : d = Handlers!Do(shared, Handlers!PublishCancel(second))
    OBVIOUS
  <2>1. d \in Rows /\ d.cancel = [second |-> second, sent |-> Handlers!Cardinality(shared.outbox)]
    BY <1>1, CancelSent
  <2>2. Tail(q) \in Seq(HandlerCall)
    BY <1>2, <1>5
  <2>3. Handlers!Done = Handlers!Through(d, Tail(q))
    BY <1>1, <1>2, <1>5, StoredIs, FirstStored
  <2>4. Handlers!Done.cancel = d.cancel
    BY <1>5, <2>1, <2>2, <2>3, CallsKept DEF Uncancelled
  <2> QED  BY <1>1, <2>1, <2>4
<1> QED  BY <1>1, <1>3, <1>4, <1>5 DEF JobFits

\* A command is done with; an event for it may be there.
LEMMA WorkerIsSmooth ==
    ASSUME NEW u, Threads = {u}, HandlersKept, Smooth,
           NEW c \in Handlers!Outstanding, job[u].msg # c, c.id \notin dead,
           NEW all, all \subseteq deliveries \/ \E e : /\ all = deliveries \cup {e}
                                                     /\ e.id = c.id /\ e.saga = c.saga,
           deliveries \subseteq all, deliveries' = all,
           disposed' = disposed \cup {c.id},
           UNCHANGED <<shared, dead, job, sagas, second, asked>>
    PROVE  /\ Smooth' /\ Handlers!Done' = Handlers!Done
           /\ SeenCommands' = SeenCommands \ {c}
           /\ SeenEvents' = SeenEvents \cup {Seen(e) : e \in all \ deliveries}
<1>1. /\ c.id # job[u].msg.id /\ c \in SeenCommands /\ c \in shared.outbox
      /\ c.id \notin disposed /\ c.id \in Known /\ c.saga \in 1 .. sagas
  BY NotInHand
<1>2. MessagesKept /\ DoneKept /\ JobFits(job[u])
  BY DEF Smooth
<1>3. \A e \in all : e \in deliveries \/ (e.id = c.id /\ e.saga = c.saga)
  OBVIOUS
<1>4. \A e, f \in all \ deliveries : e = f
  OBVIOUS
<1>5. Handlers!Done' = Handlers!Done
  BY StoredIs, UndecidedIs
<1>6. MessagesKept'
  <2>1. Known' = Known
    BY DEF Known
  <2>2. \A e, f \in all : e.id = f.id => e = f
    BY <1>1, <1>2, <1>3, <1>4 DEF MessagesKept
  <2> QED  BY <1>1, <1>2, <1>3, <2>1, <2>2 DEF MessagesKept
<1>7. DoneKept'
  BY <1>2, <1>5 DEF DoneKept
<1>8. \A b \in Handlers!Outstanding' : b \in Handlers!Outstanding
  BY DEF Handlers!Outstanding
<1>9. JobFits(job[u])'
  <2>1. job[u].for = "dead_letter" => job[u].msg \in Handlers!Outstanding'
    BY <1>1, <1>2 DEF JobFits, Handlers!Outstanding
  <2>2. job[u].for \in {"event", "expired"} => job[u].msg \in all
    BY <1>2 DEF JobFits
  <2>3. \A e \in all : e.id \in dead => job[u].for = "expired" /\ job[u].msg = e
    BY <1>2, <1>3 DEF JobFits
  <2>4. \A b \in Handlers!Outstanding' : b.id \in dead => job[u].for = "dead_letter" /\ job[u].msg = b
    BY <1>2, <1>8 DEF JobFits
  <2> QED  BY <1>2, <2>1, <2>2, <2>3, <2>4 DEF JobFits, Handlers!PublishCancel
<1>10. Smooth'
  BY <1>6, <1>7, <1>9 DEF Smooth
<1>11. Handlers!Gone' = Handlers!Gone \cup {c.id}
  BY HeardIs DEF GoneOf
<1>12. SeenCommands' = SeenCommands \ {c}
  <2>1. Handlers!Done \in Rows /\ shared.outbox \subseteq Handlers!Done.outbox
    BY <1>2, GoneIsKnown DEF DoneKept
  <2>2. \A b \in Handlers!Done.outbox : b.id = c.id <=> b = c
    BY <1>1, <2>1 DEF Rows
  <2> QED  BY <1>5, <1>11, <2>2 DEF SeenCommands
<1>13. Handlers!Heard' = Handlers!Heard /\ Handlers!Heard \subseteq deliveries
  BY <1>1, <1>3, HeardIs DEF HeardOf
<1>14. SeenEvents' = SeenEvents \cup {Seen(e) : e \in all \ deliveries}
  <2>1. all \ Handlers!Heard = (deliveries \ Handlers!Heard) \cup (all \ deliveries)
    BY <1>13
  <2> QED  BY <1>13, <2>1 DEF SeenEvents
<1> QED  BY <1>5, <1>10, <1>12, <1>14

\* A worker answers, or drops a cancelled command, while a handler may be half way.
LEMMA WorkerSeen ==
    ASSUME NEW u, Threads = {u}, HandlersKept, Smooth, faults \in Nat, Handlers!Worker
    PROVE  Smooth' /\ Handlers!Saga!Next
<1>1. PICK c \in Handlers!Outstanding : Handlers!Answer(c) \/ Handlers!DropCancelled(c)
  BY DEF Handlers!Worker
<1>2. job[u].msg # c /\ c.id \notin dead
  BY <1>1 DEF Handlers!Answer, Handlers!DropCancelled, Handlers!InQueue, Handlers!Held
<1>3. c \in SeenCommands /\ c \in OutboxCommand /\ c.id \notin disposed
  BY <1>2, NotInHand
<1>4. CASE Handlers!Answer(c)
  <2>1. PICK k \in IF c.step = "synthesize_speech" THEN {"ok", "failed", "engine_failure"}
                                                   ELSE {"ok", "failed"} :
           deliveries' = deliveries \cup {[id |-> c.id, saga |-> c.saga, step |-> c.step,
                                           script |-> c.script, kind |-> k, attempts |-> 0]}
    BY <1>4 DEF Handlers!Answer
  <2> PICK e : e = [id |-> c.id, saga |-> c.saga, step |-> c.step, script |-> c.script,
                    kind |-> k, attempts |-> 0]
    OBVIOUS
  <2>2. e.id = c.id /\ e.saga = c.saga
        /\ Seen(e) = [id |-> c.id, saga |-> c.saga, step |-> c.step, script |-> c.script, kind |-> k]
    BY DEF Seen
  <2>3. e \notin deliveries
    BY <1>3, <2>2 DEF Smooth, MessagesKept
  <2> PICK all : all = deliveries \cup {e}
    OBVIOUS
  <2>4. /\ UNCHANGED <<shared, dead, job, sagas, second, asked, retries>>
        /\ disposed' = disposed \cup {c.id}
    BY <1>4 DEF Handlers!Answer
  <2>5. /\ Smooth' /\ Handlers!Done' = Handlers!Done
        /\ SeenCommands' = SeenCommands \ {c}
        /\ SeenEvents' = SeenEvents \cup {Seen(f) : f \in all \ deliveries}
    BY <1>2, <2>1, <2>2, <2>4, WorkerIsSmooth
  <2>6. SeenEvents' = SeenEvents \cup {Seen(e)}
    BY <2>3, <2>5
  <2>7. Handlers!Saga!Answer(c)
    BY <2>1, <2>2, <2>4, <2>5, <2>6
       DEF Handlers!Saga!Answer, Handlers!Saga!Kinds, Handlers!Saga!row, SeenCommands, SeenEvents,
           Seen
  <2> QED  BY <1>3, <2>5, <2>7 DEF Handlers!Saga!Next, Handlers!Saga!Worker, SeenCommands
<1>5. CASE Handlers!DropCancelled(c)
  <2>1. /\ UNCHANGED <<shared, dead, deliveries, job, sagas, second, asked, retries>>
        /\ disposed' = disposed \cup {c.id} /\ c.step # "publish_video"
        /\ c.stamp # Handlers!NoStamp /\ c.stamp <= shared.cancel.second
    BY <1>5 DEF Handlers!DropCancelled, Handlers!IsCancelled
  <2>2. /\ Smooth' /\ Handlers!Done' = Handlers!Done
        /\ SeenCommands' = SeenCommands \ {c}
        /\ SeenEvents' = SeenEvents \cup {Seen(f) : f \in deliveries \ deliveries}
    BY <1>2, <2>1, WorkerIsSmooth
  <2>3. SeenEvents' = SeenEvents
    BY <2>2
  <2>4. c.stamp # 0 /\ c.stamp <= Handlers!Done.cancel.second
    <3>1. c.stamp \in Nat /\ c.stamp # 0
      BY <1>3, <2>1 DEF OutboxCommand, Handlers!NoStamp
    <3>2. shared.cancel.second \in Nat /\ Handlers!Done.cancel.second \in Nat
      BY RowsAre DEF Smooth, DoneKept
    <3> QED  BY <2>1, <3>1, <3>2, CancelToCome
  <2>5. Handlers!Saga!DropCancelled(c)
    BY <2>1, <2>2, <2>3, <2>4
       DEF Handlers!Saga!DropCancelled, Handlers!Saga!IsCancelled, Handlers!Saga!NoStamp,
           Handlers!Saga!row, SeenCommands, SeenEvents, Seen
  <2> QED  BY <1>3, <2>2, <2>5 DEF Handlers!Saga!Next, Handlers!Saga!Worker, SeenCommands
<1> QED  BY <1>1, <1>4, <1>5

-----------------------------------------------------------------------------
(* The handlers call by call: deliveries.                                  *)

\* A message is taken in hand by a goroutine that knows its calls.
Taken(u, j) ==
    /\ job[u] = Handlers!Idle /\ job' = [job EXCEPT ![u] = j]
    /\ j.for \in {"event", "expired", "dead_letter"} /\ ~j.deciding
    /\ j.todo \in Seq(HandlerCall) /\ Uncancelled(j.todo)
    /\ Leaves(Handlers!Through(shared, j.todo), sagas)
    /\ \/ j.for = "dead_letter" /\ j.msg \in Handlers!Outstanding
       \/ j.for # "dead_letter" /\ j.msg \in deliveries
    /\ dead' = dead \/ (j.for # "event" /\ dead' = dead \cup {j.msg.id})
    /\ UNCHANGED <<shared, disposed, deliveries, sagas, second, asked>>

\* Before anything is taken nothing is dead.
LEMMA NothingDead ==
    ASSUME NEW u, Threads = {u}, Smooth, job[u] = Handlers!Idle
    PROVE  /\ \A e \in deliveries : e.id \notin dead
           /\ \A c \in Handlers!Outstanding : c.id \notin dead
<1>1. JobFits(Handlers!Idle)
  BY DEF Smooth
<1>2. Handlers!Idle.for = "nobody"
  BY DEF Handlers!Idle
<1> QED  BY <1>1, <1>2 DEF JobFits

\* Taking a message in hand keeps what is said of the goroutine.
LEMMA TakenIsSmooth ==
    ASSUME NEW u, Threads = {u}, HandlersKept, Smooth, NEW j, Taken(u, j)
    PROVE  Smooth' /\ Handlers!Done' = Handlers!Through(shared, j.todo)
<1>1. /\ job[u] = Handlers!Idle /\ job' = [job EXCEPT ![u] = j] /\ ~j.deciding
      /\ UNCHANGED <<shared, disposed, deliveries, sagas, second, asked>>
  BY DEF Taken
<1>2. job'[u] = j /\ \A t \in Threads : job'[t] = j
  BY <1>1 DEF HandlersKept, JobsKept
<1>3. Handlers!Done' = Handlers!Through(shared, j.todo)
  BY <1>1, <1>2, StoredIs
<1>4. MessagesKept /\ DoneKept /\ shared \in Rows
  BY DEF Smooth, DoneKept
<1>5. /\ \A e \in deliveries : e.id \notin dead
      /\ \A c \in Handlers!Outstanding : c.id \notin dead
  BY <1>1, NothingDead
<1>6. \A c \in Handlers!Outstanding : c \in shared.outbox /\ c.id \in Known /\ c.id \notin disposed
  BY GoneIsKnown DEF Handlers!Outstanding
<1>7. MessagesKept'
  <2>1. j.msg.id \in Known
    BY <1>4, <1>6 DEF Taken, MessagesKept
  <2>2. dead' \subseteq Known
    BY <1>4, <2>1 DEF Taken, MessagesKept
  <2>3. Known' = Known
    BY <1>1 DEF Known
  <2> QED  BY <1>1, <1>4, <2>2, <2>3 DEF MessagesKept
<1>8. DoneKept'
  <2>1. Leaves(Handlers!Through(shared, j.todo), sagas)
    BY DEF Taken
  <2> QED  BY <1>1, <1>3, <1>4, <2>1 DEF DoneKept, Leaves
<1>9. Handlers!Outstanding' = Handlers!Outstanding
  BY <1>1 DEF Handlers!Outstanding
<1>10. \A e \in deliveries : e.id \in dead' => j.for = "expired" /\ j.msg = e
  <2> SUFFICES ASSUME NEW e \in deliveries, e.id \in dead' PROVE j.for = "expired" /\ j.msg = e
    OBVIOUS
  <2>1. dead' = dead \cup {j.msg.id} /\ j.for # "event" /\ e.id = j.msg.id
    BY <1>5 DEF Taken
  <2>2. e.id \in disposed
    BY <1>4 DEF MessagesKept
  <2>3. j.for = "expired" /\ j.msg \in deliveries
    BY <1>6, <2>1, <2>2 DEF Taken
  <2> QED  BY <1>4, <2>1, <2>3 DEF MessagesKept
<1>11. \A c \in Handlers!Outstanding : c.id \in dead' => j.for = "dead_letter" /\ j.msg = c
  <2> SUFFICES ASSUME NEW c \in Handlers!Outstanding, c.id \in dead'
               PROVE  j.for = "dead_letter" /\ j.msg = c
    OBVIOUS
  <2>1. c.id = j.msg.id
    BY <1>5 DEF Taken
  <2>2. j.for = "dead_letter" /\ j.msg \in Handlers!Outstanding
    BY <1>4, <1>6, <2>1 DEF Taken, MessagesKept
  <2> QED  BY <1>4, <1>6, <2>1, <2>2 DEF Rows
<1>12. JobFits(j)'
  <2>1. /\ j.for \in {"event", "expired"} => j.msg \in deliveries
        /\ j.for = "dead_letter" => j.msg \in Handlers!Outstanding
        /\ j.for \notin {"nobody", "request"} /\ ~j.deciding /\ Uncancelled(j.todo)
    BY DEF Taken
  <2> QED  BY <1>1, <1>9, <1>10, <1>11, <2>1 DEF JobFits
<1> QED  BY <1>2, <1>3, <1>7, <1>8, <1>12 DEF Smooth

\* An event in hand is heard.
LEMMA EventTaken ==
    ASSUME NEW u, Threads = {u}, HandlersKept, Smooth, NEW j, Taken(u, j), j.for # "dead_letter"
    PROVE  /\ SeenEvents' = SeenEvents \ {Seen(j.msg)} /\ Seen(j.msg) \in SeenEvents
           /\ Handlers!Gone' = Handlers!Gone
<1>1. /\ job[u] = Handlers!Idle /\ job' = [job EXCEPT ![u] = j] /\ ~j.deciding
      /\ UNCHANGED <<disposed, deliveries>> /\ j.msg \in deliveries
  BY DEF Taken
<1>2. job'[u] = j
  BY <1>1 DEF HandlersKept, JobsKept
<1>3. Handlers!Heard = {} /\ Handlers!Gone = disposed
  BY <1>1, RestStored
<1>4. Handlers!Heard' = {j.msg} /\ Handlers!Gone' = disposed
  BY <1>1, <1>2, HeardIs DEF HeardOf, GoneOf
<1>5. \A e, f \in deliveries : Seen(e) = Seen(f) => e = f
  BY DEF Seen, Smooth, MessagesKept
<1>6. SeenEvents = {Seen(e) : e \in deliveries}
  BY <1>3 DEF SeenEvents
<1>7. SeenEvents' = {Seen(e) : e \in deliveries \ {j.msg}}
  BY <1>1, <1>4 DEF SeenEvents
<1> QED  BY <1>1, <1>3, <1>4, <1>5, <1>6, <1>7

\* A dead letter in hand is gone from the commands.
LEMMA CommandTaken ==
    ASSUME NEW u, Threads = {u}, HandlersKept, Smooth, NEW j, Taken(u, j), j.for = "dead_letter",
           Handlers!Done.outbox' = Handlers!Done.outbox
    PROVE  SeenEvents' = SeenEvents /\ SeenCommands' = SeenCommands \ {j.msg}
           /\ j.msg \in SeenCommands
<1>1. /\ job[u] = Handlers!Idle /\ job' = [job EXCEPT ![u] = j]
      /\ UNCHANGED <<disposed, deliveries>> /\ j.msg \in Handlers!Outstanding
  BY DEF Taken
<1>2. job'[u] = j
  BY <1>1 DEF HandlersKept, JobsKept
<1>3. Handlers!Heard = {} /\ Handlers!Gone = disposed /\ Handlers!Done = shared
  BY <1>1, RestStored
<1>4. /\ j.msg \in shared.outbox /\ j.msg.id \notin disposed
      /\ \A c, b \in shared.outbox : c.id = b.id => c = b
  BY <1>1 DEF Handlers!Outstanding, Smooth, DoneKept, Rows
<1>5. Handlers!Heard' = {}
  <2>1. \A e \in deliveries : e # j.msg
    BY <1>4 DEF Smooth, MessagesKept
  <2> QED  BY <1>1, <1>2, <2>1, HeardIs DEF HeardOf
<1>6. Handlers!Gone' = disposed \cup {j.msg.id}
  BY <1>1, <1>2, HeardIs DEF GoneOf
<1>7. SeenEvents' = SeenEvents
  BY <1>1, <1>3, <1>5 DEF SeenEvents
<1>8. SeenCommands' = SeenCommands \ {j.msg} /\ j.msg \in SeenCommands
  BY <1>3, <1>4, <1>6 DEF SeenCommands
<1> QED  BY <1>7, <1>8

\* The calls that fail a step, taken in hand.
LEMMA FailureTaken ==
    ASSUME NEW u, Threads = {u}, HandlersKept, Smooth, NEW who, NEW m, NEW g, NEW s,
           who \in {"event", "expired", "dead_letter"},
           NEW j, j = [for |-> who, msg |-> m, todo |-> Handlers!Failing(m.saga, m.step),
                       deciding |-> FALSE],
           job[u] = Handlers!Idle, job' = [job EXCEPT ![u] = j],
           \/ who = "dead_letter" /\ m \in Handlers!Outstanding
           \/ who # "dead_letter" /\ m \in deliveries,
           dead' = dead \/ (who # "event" /\ dead' = dead \cup {m.id}),
           UNCHANGED <<shared, disposed, deliveries, sagas, second, asked>>
    PROVE  /\ Taken(u, j) /\ Smooth' /\ Handlers!Done = shared
           /\ HasFailed(shared, Handlers!Done', m.saga, m.step) /\ Like(Handlers!Done', shared)
           /\ Handlers!Saga!Fail(shared.step, m.saga, m.step)
<1>1. /\ shared \in Rows /\ Leaves(shared, sagas) /\ sagas \in Nat /\ Handlers!Done = shared
  BY BeforeRequest
<1>2. m.saga \in 1 .. sagas /\ m.step \in Handlers!Steps
  <2>1. m \in Handlers!Outstanding => m.saga \in 1 .. sagas /\ m.step \in Handlers!Steps
    BY <1>1, RowsAre DEF Handlers!Outstanding, Leaves, OutboxCommand
  <2>2. m \in deliveries => m.saga \in 1 .. sagas /\ m.step \in Handlers!Steps
    BY DEF Smooth, MessagesKept, HandlersKept, SharedKept, Delivery
  <2> QED  BY <2>1, <2>2
<1> PICK q : q = Handlers!Failing(m.saga, m.step)
  OBVIOUS
<1> PICK e : e = Handlers!Through(shared, q)
  OBVIOUS
<1>3. m.saga \in Nat /\ sagas \in Nat \ {0}
  BY <1>1, <1>2
<1>4. q \in Seq(HandlerCall) /\ HasFailed(shared, e, m.saga, m.step) /\ Uncancelled(q)
  BY <1>1, <1>2, <1>3, FailingStored, FailingDispatches
<1>5. shared.project.saga = sagas /\ \A c \in shared.outbox : c.saga \in 1 .. sagas
  BY <1>1 DEF Leaves
<1>6. Leaves(e, sagas) /\ Like(e, shared)
  BY <1>1, <1>2, <1>3, <1>4, <1>5, FailedLeaves
<1>7. j.for = who /\ j.msg = m /\ j.todo = q /\ ~j.deciding
  OBVIOUS
<1>8. Taken(u, j)
  BY <1>4, <1>6, <1>7 DEF Taken
<1>9. Smooth' /\ Handlers!Done' = e
  BY <1>7, <1>8, TakenIsSmooth
<1>10. Handlers!Saga!Fail(shared.step, m.saga, m.step)
  BY <1>1, <1>2, <1>4, <1>9, FailIsSeen
<1> QED  BY <1>1, <1>4, <1>6, <1>8, <1>9, <1>10

\* A command is dead-lettered (handleDLQDelivery).
LEMMA CommandDiesSeen ==
    ASSUME NEW u, Threads = {u}, HandlersKept, Smooth, NEW c \in Handlers!Outstanding,
           Handlers!handleDLQDelivery(u, c)
    PROVE  Smooth' /\ Handlers!Saga!Next
<1> PICK j : j = [for |-> "dead_letter", msg |-> c, todo |-> Handlers!Failing(c.saga, c.step),
                  deciding |-> FALSE]
  OBVIOUS
<1>1. /\ job[u] = Handlers!Idle /\ job' = [job EXCEPT ![u] = j] /\ dead' = dead \cup {c.id}
      /\ UNCHANGED <<shared, disposed, deliveries, sagas, second, asked, retries>>
      /\ Handlers!Current(c) \/ c.id \in dead
  BY DEF Handlers!handleDLQDelivery, Handlers!DeadLetter, Handlers!Works
<1>2. shared.step[c.saga][c.step] = "in_progress"
  BY <1>1, NothingDead DEF Handlers!Current
<1>3. /\ Taken(u, j) /\ Smooth' /\ Handlers!Done = shared
      /\ HasFailed(shared, Handlers!Done', c.saga, c.step) /\ Like(Handlers!Done', shared)
      /\ Handlers!Saga!Fail(shared.step, c.saga, c.step)
  BY <1>1, FailureTaken
<1>4. j.for = "dead_letter" /\ j.msg = c
  OBVIOUS
<1>5. Handlers!Done.outbox' = Handlers!Done.outbox
  BY <1>3 DEF HasFailed
<1>6. SeenEvents' = SeenEvents /\ SeenCommands' = SeenCommands \ {c} /\ c \in SeenCommands
  BY <1>3, <1>4, <1>5, CommandTaken
<1>7. Handlers!Saga!handleDLQDelivery(c)
  <2>1. Handlers!Saga!Current(c) /\ Handlers!Saga!Fail(Handlers!Done.step, c.saga, c.step)
    BY <1>2, <1>3 DEF Handlers!Saga!Current, Handlers!Saga!Fail
  <2> QED  BY <1>1, <1>3, <1>5, <1>6, <2>1
           DEF Handlers!Saga!handleDLQDelivery, Handlers!Saga!row, SeenCommands, SeenEvents, Seen,
               Like
<1> QED  BY <1>3, <1>6, <1>7 DEF Handlers!Saga!Next, Handlers!Saga!Worker, SeenCommands

\* An event is dead-lettered (handleEventsDLQDelivery).
LEMMA EventDiesSeen ==
    ASSUME NEW u, Threads = {u}, HandlersKept, Smooth, NEW e \in deliveries,
           Handlers!handleEventsDLQDelivery(u, e)
    PROVE  Smooth' /\ Handlers!Saga!Next
<1> PICK who : who = "expired"
  OBVIOUS
<1> PICK j : j = [for |-> who, msg |-> e, todo |-> Handlers!Failing(e.saga, e.step),
                  deciding |-> FALSE]
  OBVIOUS
<1>1. /\ job[u] = Handlers!Idle /\ job' = [job EXCEPT ![u] = j] /\ dead' = dead \cup {e.id}
      /\ UNCHANGED <<shared, disposed, deliveries, sagas, second, asked, retries>>
      /\ Handlers!Current(e) \/ e.id \in dead
  BY DEF Handlers!handleEventsDLQDelivery, Handlers!DeadLetter, Handlers!Works
<1>2. shared.step[e.saga][e.step] = "in_progress"
  BY <1>1, NothingDead DEF Handlers!Current
<1>3. /\ Taken(u, j) /\ Smooth' /\ Handlers!Done = shared
      /\ HasFailed(shared, Handlers!Done', e.saga, e.step) /\ Like(Handlers!Done', shared)
      /\ Handlers!Saga!Fail(shared.step, e.saga, e.step)
  <2>1. /\ who \in {"event", "expired", "dead_letter"}
        /\ who # "dead_letter" /\ e \in deliveries
        /\ dead' = dead \/ (who # "event" /\ dead' = dead \cup {e.id})
    BY <1>1
  <2> QED  BY <1>1, <2>1, FailureTaken
<1>4. j.for # "dead_letter" /\ j.msg = e
  OBVIOUS
<1>5. Handlers!Done.outbox' = Handlers!Done.outbox
  BY <1>3 DEF HasFailed
<1>6. /\ SeenEvents' = SeenEvents \ {Seen(e)} /\ Seen(e) \in SeenEvents
      /\ Handlers!Gone' = Handlers!Gone
  BY <1>3, <1>4, EventTaken
<1>7. Handlers!Saga!handleEventsDLQDelivery(Seen(e))
  <2> PICK x : x = Seen(e)
    OBVIOUS
  <2>1. x.saga = e.saga /\ x.step = e.step
    BY DEF Seen
  <2>2. Handlers!Saga!Current(x) /\ Handlers!Saga!Fail(Handlers!Done.step, x.saga, x.step)
    BY <1>2, <1>3, <2>1 DEF Handlers!Saga!Current, Handlers!Saga!Fail
  <2>3. Handlers!Saga!Take(x)
    BY <1>6 DEF Handlers!Saga!Take, SeenEvents, Seen
  <2> QED  BY <1>1, <1>3, <1>5, <1>6, <2>2, <2>3
           DEF Handlers!Saga!handleEventsDLQDelivery, Handlers!Saga!row, SeenEvents, Seen, Like
<1> QED  BY <1>3, <1>6, <1>7 DEF Handlers!Saga!Next, Handlers!Saga!Orchestrator, SeenEvents, Seen

\* A failure is handled (handleFailure).
LEMMA FailureSeen ==
    ASSUME NEW u, Threads = {u}, HandlersKept, Smooth, NEW e \in deliveries,
           Handlers!handleFailure(u, e)
    PROVE  Smooth' /\ Handlers!Saga!Next
<1> PICK who : who = "event"
  OBVIOUS
<1> PICK j : j = [for |-> who, msg |-> e, todo |-> Handlers!Failing(e.saga, e.step),
                  deciding |-> FALSE]
  OBVIOUS
<1>1. /\ job[u] = Handlers!Idle /\ job' = [job EXCEPT ![u] = j] /\ dead' = dead
      /\ UNCHANGED <<shared, disposed, deliveries, sagas, second, asked>>
      /\ shared.step[e.saga][e.step] = "in_progress"
  BY DEF Handlers!handleFailure, Handlers!Delivered, Handlers!Works, Handlers!Current
<1>2. \/ e.kind = "failed" /\ retries' = retries
      \/ /\ e.kind = "engine_failure" /\ retries[e.saga] >= SynthesisRetries
         /\ retries' = [retries EXCEPT ![e.saga] = 0]
  BY DEF Handlers!handleFailure
<1>3. /\ Taken(u, j) /\ Smooth' /\ Handlers!Done = shared
      /\ HasFailed(shared, Handlers!Done', e.saga, e.step) /\ Like(Handlers!Done', shared)
      /\ Handlers!Saga!Fail(shared.step, e.saga, e.step)
  <2>1. /\ who \in {"event", "expired", "dead_letter"}
        /\ who # "dead_letter" /\ e \in deliveries
        /\ dead' = dead \/ (who # "event" /\ dead' = dead \cup {e.id})
    BY <1>1
  <2> QED  BY <1>1, <2>1, FailureTaken
<1>4. j.for # "dead_letter" /\ j.msg = e
  OBVIOUS
<1>5. Handlers!Done.outbox' = Handlers!Done.outbox
  BY <1>3 DEF HasFailed
<1>6. /\ SeenEvents' = SeenEvents \ {Seen(e)} /\ Seen(e) \in SeenEvents
      /\ Handlers!Gone' = Handlers!Gone
  BY <1>3, <1>4, EventTaken
<1>7. Handlers!Saga!handleFailure(Seen(e))
  <2> PICK x : x = Seen(e)
    OBVIOUS
  <2>1. x.saga = e.saga /\ x.step = e.step /\ x.kind = e.kind
    BY DEF Seen
  <2>2. Handlers!Saga!Current(x) /\ Handlers!Saga!Fail(Handlers!Done.step, x.saga, x.step)
    BY <1>1, <1>3, <2>1 DEF Handlers!Saga!Current, Handlers!Saga!Fail
  <2>3. Handlers!Saga!Take(x)
    BY <1>6 DEF Handlers!Saga!Take, SeenEvents, Seen
  <2>4. \/ x.kind = "failed" /\ retries' = retries
        \/ /\ x.kind = "engine_failure" /\ retries[x.saga] >= SynthesisRetries
           /\ retries' = [retries EXCEPT ![x.saga] = 0]
    BY <1>2, <2>1
  <2> QED  BY <1>1, <1>3, <1>5, <1>6, <2>2, <2>3, <2>4
           DEF Handlers!Saga!handleFailure, Handlers!Saga!row, SeenEvents, Seen, Like
<1> QED  BY <1>3, <1>6, <1>7 DEF Handlers!Saga!Next, Handlers!Saga!Orchestrator, SeenEvents, Seen

\* Synthesis is sent again after a failure of its engine
\* (retryTransientSynthesisFailure).
LEMMA RetrySeen ==
    ASSUME NEW u, Threads = {u}, HandlersKept, Smooth, NEW e \in deliveries,
           Handlers!retryTransientSynthesisFailure(u, e)
    PROVE  Smooth' /\ Handlers!Saga!Next
<1> PICK c : c = Handlers!PublishCommand(e.saga, e.step, shared.project.script, second)
  OBVIOUS
<1> PICK j : j = [for |-> "event", msg |-> e, todo |-> <<c>>, deciding |-> FALSE]
  OBVIOUS
<1>1. /\ job[u] = Handlers!Idle /\ job' = [job EXCEPT ![u] = j] /\ dead' = dead
      /\ UNCHANGED <<shared, disposed, deliveries, sagas, second, asked>>
      /\ shared.step[e.saga][e.step] = "in_progress"
      /\ e.kind = "engine_failure" /\ retries[e.saga] < SynthesisRetries
      /\ retries' = [retries EXCEPT ![e.saga] = @ + 1]
  BY DEF Handlers!retryTransientSynthesisFailure, Handlers!Delivered, Handlers!Works,
         Handlers!Current, Handlers!project
<1>2. e \in Delivery /\ e.saga \in 1 .. sagas
  BY DEF HandlersKept, SharedKept, Smooth, MessagesKept
<1>3. e.step = "synthesize_speech" /\ e.step \in Handlers!Steps /\ e.saga \in Nat
  BY <1>1, <1>2 DEF Delivery
<1>4. /\ shared \in Rows /\ Leaves(shared, sagas) /\ Handlers!Done = shared
      /\ shared.project \in ProjectRow /\ second \in Nat
  BY <1>1, BeforeRequest
<1>5. shared.project.script \in Nat
  BY <1>4 DEF ProjectRow
<1>6. c \in HandlerCall /\ c.op = "PublishCommand"
  BY <1>3, <1>4, <1>5, CallsAre DEF Handlers!PublishCommand
<1> PICK d : d = Handlers!Do(shared, c)
  OBVIOUS
<1> PICK m : m = Numbered(shared, e.saga, e.step, shared.project.script, second)
  OBVIOUS
<1>7. HasSent(shared, d, m)
  BY <1>3, <1>4, <1>5, CommandSent
<1>8. <<c>> \in Seq(HandlerCall) /\ Handlers!Through(shared, <<c>>) = d /\ Uncancelled(<<c>>)
  BY <1>4, <1>6, OneStored DEF Uncancelled
<1>9. Leaves(d, sagas)
  <2>1. m.saga = e.saga /\ d.outbox = shared.outbox \cup {m}
    BY <1>7 DEF Numbered, HasSent
  <2> QED  BY <1>2, <1>4, <1>7, <2>1 DEF Leaves, HasSent
<1>10. Taken(u, j)
  BY <1>1, <1>8, <1>9 DEF Taken
<1>11. Smooth' /\ Handlers!Done' = d
  BY <1>8, <1>10, TakenIsSmooth
<1>12. /\ SeenEvents' = SeenEvents \ {Seen(e)} /\ Seen(e) \in SeenEvents
       /\ Handlers!Gone' = Handlers!Gone
  BY <1>10, EventTaken
<1>13. SeenCommands' = SeenCommands \cup {m}
  <2>1. Handlers!Gone \subseteq 1 .. Handlers!Cardinality(Handlers!Done.outbox)
    BY <1>4, GoneIsKnown DEF Known
  <2>2. m.id = Handlers!Cardinality(Handlers!Done.outbox) + 1
    BY <1>4 DEF Numbered
  <2> QED  BY <1>4, <1>7, <1>11, <1>12, <2>1, <2>2, CommandSeen DEF HasSent
<1>14. Handlers!Saga!retryTransientSynthesisFailure(Seen(e))
  <2> PICK x : x = Seen(e)
    OBVIOUS
  <2>1. x.saga = e.saga /\ x.step = "synthesize_speech" /\ x.kind = "engine_failure"
    BY <1>1, <1>3 DEF Seen
  <2>2. Handlers!Saga!Accepted(x, "synthesize_speech", "engine_failure")
    BY <1>1, <1>3, <1>4, <1>12, <2>1
       DEF Handlers!Saga!Accepted, Handlers!Saga!Current, Handlers!Saga!Take, SeenEvents, Seen
  <2>3. Handlers!Saga!Send(x.saga, "synthesize_speech", Handlers!Done.project.script, second)
    BY <1>3, <1>4, <1>7, <1>11, <1>13, <2>1
       DEF Handlers!Saga!Send, SeenCommands, Numbered, HasSent
  <2>4. retries[x.saga] < SynthesisRetries /\ retries' = [retries EXCEPT ![x.saga] = @ + 1]
    BY <1>1, <2>1
  <2>5. UNCHANGED <<Handlers!Done.project, Handlers!Done.step, Handlers!Done.cancel, second, asked>>
    BY <1>1, <1>4, <1>7, <1>11 DEF HasSent
  <2> QED  BY <2>2, <2>3, <2>4, <2>5
           DEF Handlers!Saga!retryTransientSynthesisFailure, Handlers!Saga!row
<1> QED  BY <1>11, <1>12, <1>14 DEF Handlers!Saga!Next, Handlers!Saga!Orchestrator, SeenEvents, Seen

\* An event nobody waits for is dropped.
LEMMA SkipSeen ==
    ASSUME NEW u, Threads = {u}, HandlersKept, Smooth, NEW e \in deliveries,
           Handlers!SkipEvent(u, e)
    PROVE  Smooth' /\ Handlers!Saga!Next
<1>1. /\ job[u] = Handlers!Idle /\ deliveries' = deliveries \ {e}
      /\ UNCHANGED <<shared, disposed, dead, retries, job, sagas, second, asked>>
      /\ shared.step[e.saga][e.step] # "in_progress"
  BY DEF Handlers!SkipEvent, Handlers!Current
<1>2. /\ Handlers!Done = shared /\ Handlers!Heard = {} /\ Handlers!Gone = disposed
      /\ \A f \in deliveries : f # Handlers!NoMessage
  BY <1>1, RestStored
<1>3. job[u].msg = Handlers!NoMessage /\ job[u].for = "nobody" /\ job[u].todo = <<>>
      /\ ~job[u].deciding
  BY <1>1 DEF Handlers!Idle
<1>4. Handlers!Heard' = {} /\ Handlers!Gone' = disposed
  BY <1>1, <1>2, <1>3, HeardIs DEF HeardOf, GoneOf
<1>5. Handlers!Done' = Handlers!Done
  BY <1>1, StoredIs, UndecidedIs
<1>6. Smooth'
  <2>1. MessagesKept'
    BY <1>1 DEF Smooth, MessagesKept, Known
  <2>2. DoneKept'
    BY <1>1, <1>5 DEF Smooth, DoneKept
  <2>3. Handlers!Outstanding' = Handlers!Outstanding
    BY <1>1 DEF Handlers!Outstanding
  <2>4. JobFits(Handlers!Idle)
    BY <1>1 DEF Smooth
  <2>5. JobFits(job[u])'
    BY <1>1, <1>3, <2>3, <2>4 DEF JobFits, Uncancelled
  <2> QED  BY <2>1, <2>2, <2>5 DEF Smooth
<1>7. \A f, g \in deliveries : Seen(f) = Seen(g) => f = g
  BY DEF Seen, Smooth, MessagesKept
<1>8. SeenEvents = {Seen(f) : f \in deliveries} /\ SeenEvents' = {Seen(f) : f \in deliveries \ {e}}
  BY <1>1, <1>2, <1>4 DEF SeenEvents
<1>9. SeenEvents' = SeenEvents \ {Seen(e)} /\ Seen(e) \in SeenEvents
  BY <1>7, <1>8
<1>10. Handlers!Saga!SkipEvent(Seen(e))
  <2> PICK x : x = Seen(e)
    OBVIOUS
  <2>1. x.saga = e.saga /\ x.step = e.step
    BY DEF Seen
  <2>2. ~Handlers!Saga!Current(x)
    BY <1>1, <1>2, <2>1 DEF Handlers!Saga!Current
  <2>3. Handlers!Saga!Take(x)
    BY <1>9 DEF Handlers!Saga!Take, SeenEvents, Seen
  <2>4. UNCHANGED <<Handlers!Done, Handlers!Gone, retries, second, asked>>
    BY <1>1, <1>2, <1>4, <1>5
  <2> QED  BY <2>2, <2>3, <2>4 DEF Handlers!Saga!SkipEvent, Handlers!Saga!row
<1> QED  BY <1>6, <1>9, <1>10 DEF Handlers!Saga!Next, Handlers!Saga!Orchestrator, SeenEvents, Seen

-----------------------------------------------------------------------------
(* The handlers call by call: what RenderSaga does not see.                *)

\* What an event was before its step was completed.
LEMMA ReopenedIs ==
    ASSUME NEW d \in Rows, NEW m, m.saga \in Handlers!Sagas, m.step \in Handlers!Steps
    PROVE  /\ Reopened(d, m) \in Rows /\ Reopened(d, m).project = d.project
           /\ Reopened(d, m).outbox = d.outbox /\ Reopened(d, m).cancel = d.cancel
           /\ Reopened(d, m).step = Handlers!Saga!Mark(d.step, m.saga, m.step, "in_progress")
           /\ d.step[m.saga][m.step] = "in_progress" => Reopened(d, m) = d
<1> PICK g, s : g = m.saga /\ s = m.step
  OBVIOUS
<1> PICK e : e = Handlers!Do(d, Handlers!UpdateStep(g, s, "in_progress"))
  OBVIOUS
<1>1. g \in Nat /\ "in_progress" \in Handlers!StepStatuses
  BY DEF Handlers!Sagas, Handlers!StepStatuses
<1>2. /\ e \in Rows /\ e.project = d.project /\ e.outbox = d.outbox
      /\ e.step = Handlers!Saga!Mark(d.step, g, s, "in_progress") /\ e.cancel = d.cancel
  BY <1>1, StepWritten
<1>3. e = Reopened(d, m)
  BY DEF Handlers!Do, Handlers!UpdateStep, Reopened
<1>4. d.step[g][s] = "in_progress" => e = d
  <2> SUFFICES ASSUME d.step[g][s] = "in_progress" PROVE e = d
    OBVIOUS
  <2>1. d \in Shared /\ e \in Shared
    BY <1>2 DEF Rows
  <2> PICK r : r = d.step
    OBVIOUS
  <2>2. r \in [Handlers!Sagas -> [Handlers!Steps -> Handlers!StepStatuses]]
    BY RowsAre
  <2>3. [r EXCEPT ![g][s] = "in_progress"] = r
    BY <2>2
  <2>4. e.step = d.step
    BY <1>2, <2>3 DEF Handlers!Saga!Mark
  <2> QED  BY <1>2, <2>1, <2>4 DEF Shared
<1> QED  BY <1>2, <1>3, <1>4

\* An event is of a saga that has rows.
LEMMA EventHasRows ==
    ASSUME HandlersKept, Smooth, NEW e \in deliveries
    PROVE  e \in Delivery /\ e.saga \in Handlers!Sagas /\ e.saga \in 1 .. sagas
           /\ e.step \in Handlers!Steps /\ e.saga \in Nat
<1>1. e \in Delivery /\ e.saga \in 1 .. sagas /\ sagas \in 0 .. asked /\ asked \in 0 .. MaxHandled
  BY DEF HandlersKept, SharedKept, Smooth, MessagesKept, DoneKept
<1>2. MaxHandled \in Nat
  BY HandlersAssumption DEF Handlers!CountsAssumption
<1> QED  BY <1>1, <1>2 DEF Delivery, Handlers!Sagas

\* The step of a success is completed: RenderSaga sees nothing yet.
LEMMA CompleteSeen ==
    ASSUME NEW u, Threads = {u}, HandlersKept, Smooth, NEW e \in deliveries,
           Handlers!CompleteStep(u, e)
    PROVE  Smooth' /\ UNCHANGED Handlers!Saga!vars
<1> PICK c : c = Handlers!UpdateStep(e.saga, e.step, "completed")
  OBVIOUS
<1> PICK j : j = [for |-> "event", msg |-> e, todo |-> <<c>>, deciding |-> TRUE]
  OBVIOUS
<1>1. /\ job[u] = Handlers!Idle /\ job' = [job EXCEPT ![u] = j]
      /\ UNCHANGED <<shared, disposed, dead, deliveries, sagas, second, asked, retries>>
      /\ shared.step[e.saga][e.step] = "in_progress" /\ e.kind = "ok"
  BY DEF Handlers!CompleteStep, Handlers!Delivered, Handlers!Works, Handlers!Current
<1>2. job'[u] = j /\ \A t \in Threads : job'[t] = j
  BY <1>1 DEF HandlersKept, JobsKept
<1>3. j.for = "event" /\ j.msg = e /\ j.todo = <<c>> /\ j.deciding
  OBVIOUS
<1>4. c.op # "PublishCancel" /\ <<c>> # <<>> /\ Uncancelled(<<c>>)
  <2>1. c.op = "UpdateStep"
    BY DEF Handlers!UpdateStep
  <2> QED  BY <2>1 DEF Uncancelled
<1>5. /\ Handlers!Done = shared /\ Handlers!Heard = {} /\ Handlers!Gone = disposed
      /\ shared \in Rows
  BY <1>1, RestStored DEF Smooth, DoneKept
<1>6. Handlers!Done' = shared
  <2>1. e.saga \in Handlers!Sagas /\ e.step \in Handlers!Steps
    BY EventHasRows
  <2>2. Handlers!Done' = Reopened(shared, e)
    BY <1>1, <1>2, <1>3, UndecidedIs
  <2>3. Reopened(shared, e) = shared
    BY <1>1, <1>5, <2>1, ReopenedIs
  <2> QED  BY <2>2, <2>3
<1>7. Handlers!Heard' = {} /\ Handlers!Gone' = disposed
  BY <1>1, <1>2, <1>3, HeardIs DEF HeardOf, GoneOf
<1>8. MessagesKept' /\ DoneKept' /\ Handlers!Outstanding' = Handlers!Outstanding
  BY <1>1, <1>5, <1>6 DEF Smooth, MessagesKept, DoneKept, Known, Handlers!Outstanding
<1>9. JobFits(j)'
  BY <1>1, <1>3, <1>4, <1>8, NothingDead DEF JobFits
<1>10. SeenEvents' = SeenEvents
  BY <1>1, <1>5, <1>7 DEF SeenEvents
<1> QED  BY <1>1, <1>2, <1>5, <1>6, <1>7, <1>8, <1>9, <1>10, SameSeen DEF Smooth

\* Every delivery is an action of RenderSaga or nothing to it.
LEMMA DeliverySeen ==
    ASSUME NEW u, Threads = {u}, HandlersKept, Smooth, Handlers!Delivery(u)
    PROVE  Smooth' /\ (Handlers!Saga!Next \/ UNCHANGED Handlers!Saga!vars)
BY CommandDiesSeen, EventDiesSeen, FailureSeen, RetrySeen, SkipSeen, CompleteSeen
   DEF Handlers!Delivery

\* A message is acknowledged: RenderSaga has seen it go.
LEMMA FinishSeen ==
    ASSUME NEW u, Threads = {u}, HandlersKept, Smooth, Handlers!Finish(u)
    PROVE  Smooth' /\ UNCHANGED Handlers!Saga!vars
<1> PICK j : j = job[u]
  OBVIOUS
<1>1. /\ j.for # "nobody" /\ ~j.deciding /\ j.todo = <<>>
      /\ job' = [job EXCEPT ![u] = Handlers!Idle]
      /\ deliveries' = deliveries \ {j.msg}
      /\ disposed' = IF j.for = "dead_letter" THEN disposed \cup {j.msg.id} ELSE disposed
      /\ UNCHANGED <<shared, dead, retries, sagas, second, asked>>
  BY DEF Handlers!Finish
<1>2. job'[u] = Handlers!Idle /\ \A t \in Threads : job'[t] = Handlers!Idle
  BY <1>1 DEF HandlersKept, JobsKept
<1>3. /\ Handlers!Idle.for = "nobody" /\ Handlers!Idle.msg = Handlers!NoMessage
      /\ Handlers!Idle.todo = <<>> /\ ~Handlers!Idle.deciding
  BY DEF Handlers!Idle
<1>4. JobFits(j) /\ MessagesKept /\ DoneKept /\ shared \in Rows /\ j \in Job
  BY DEF Smooth, DoneKept, HandlersKept, JobsKept
<1>5. Handlers!Done = shared /\ Handlers!Done' = shared
  BY <1>1, <1>2, <1>3, <1>4, StoredIs, NothingStored
<1>6. Handlers!Gone' = Handlers!Gone /\ disposed' \subseteq Known
  <2>1. Handlers!Gone = GoneOf(disposed, j) /\ Handlers!Gone' = GoneOf(disposed', Handlers!Idle)
    BY <1>2, HeardIs
  <2>2. GoneOf(disposed', Handlers!Idle) = disposed' /\ GoneOf(disposed, j) = disposed'
    BY <1>1, <1>3 DEF GoneOf
  <2> QED  BY <2>1, <2>2, GoneIsKnown
<1>7. \A e \in deliveries : e # Handlers!NoMessage
  <2> SUFFICES ASSUME NEW e \in deliveries, e = Handlers!NoMessage PROVE FALSE
    OBVIOUS
  <2>1. e.id \in Known /\ e.id = 0
    BY <1>4 DEF MessagesKept, Handlers!NoMessage
  <2> QED  BY <2>1, GoneIsKnown DEF Known
<1>8. SeenEvents' = SeenEvents
  <2>1. Handlers!Heard = HeardOf(deliveries, j) /\ Handlers!Heard' = HeardOf(deliveries', Handlers!Idle)
    BY <1>2, HeardIs
  <2>2. HeardOf(deliveries', Handlers!Idle) = {}
    BY <1>1, <1>3, <1>7 DEF HeardOf
  <2>3. deliveries \ HeardOf(deliveries, j) = deliveries \ {j.msg}
    BY <1>1 DEF HeardOf
  <2>4. deliveries' \ Handlers!Heard' = deliveries \ Handlers!Heard
    BY <1>1, <2>1, <2>2, <2>3
  <2> QED  BY <2>4 DEF SeenEvents
<1>9. MessagesKept'
  <2>1. Known' = Known /\ disposed \subseteq disposed'
    BY <1>1 DEF Known
  <2> QED  BY <1>1, <1>4, <1>6, <2>1 DEF MessagesKept
<1>10. DoneKept'
  BY <1>1, <1>4, <1>5 DEF DoneKept
<1>11. /\ \A e \in deliveries' : e.id \notin dead
       /\ \A c \in Handlers!Outstanding' : c.id \notin dead
  <2>1. \A e \in deliveries' : e.id \notin dead
    BY <1>1, <1>4 DEF JobFits
  <2>2. ASSUME NEW c \in Handlers!Outstanding' PROVE c.id \notin dead
    <3>1. c \in Handlers!Outstanding /\ c.id \notin disposed'
      BY <1>1 DEF Handlers!Outstanding
    <3> QED  BY <1>1, <1>4, <3>1 DEF JobFits
  <2> QED  BY <2>1, <2>2
<1>12. JobFits(Handlers!Idle)'
  BY <1>1, <1>3, <1>11 DEF JobFits, Uncancelled
<1> QED  BY <1>1, <1>2, <1>5, <1>6, <1>8, <1>9, <1>10, <1>12, SameSeen DEF Smooth

\* The call made was the first of those to come: nothing else is to be stored.
LEMMA CallStored ==
    ASSUME NEW u, Threads = {u}, HandlersKept, Smooth, Handlers!Call(u)
    PROVE  /\ Handlers!Done' = Handlers!Done
           /\ job[u].deciding => shared'.step[job[u].msg.saga][job[u].msg.step] = "completed"
<1> PICK j : j = job[u]
  OBVIOUS
<1>1. /\ j.todo # <<>> /\ shared' = Handlers!Do(shared, Head(j.todo))
      /\ job'[u].todo = Tail(j.todo) /\ job'[u].deciding = j.deciding /\ job'[u].msg = j.msg
      /\ job'[u].for = j.for
  BY DEF Handlers!Call, HandlersKept, JobsKept, Job
<1>2. shared \in Rows /\ JobFits(j) /\ j \in Job /\ Fits(j) /\ j.todo \in Seq(HandlerCall)
  BY DEF Smooth, DoneKept, HandlersKept, JobsKept, Job
<1>3. CASE ~j.deciding
  BY <1>1, <1>2, <1>3, StoredIs, FirstStored
<1>4. CASE j.deciding
  <2> PICK e : e = j.msg
    OBVIOUS
  <2> PICK c : c = Handlers!UpdateStep(e.saga, e.step, "completed")
    OBVIOUS
  <2>1. e \in deliveries
    BY <1>2, <1>4 DEF JobFits
  <2>2. e.saga \in Handlers!Sagas /\ e.step \in Handlers!Steps /\ e.saga \in Nat
    BY <2>1, EventHasRows
  <2>3. j.todo = <<c>> /\ shared.step[e.saga][e.step] = "in_progress"
    BY <1>1, <1>2, <1>4 DEF Fits
  <2>4. shared' = Handlers!Do(shared, c)
    BY <1>1, <2>3
  <2>5. "completed" \in Handlers!StepStatuses
    BY DEF Handlers!StepStatuses
  <2> PICK d : d = Handlers!Do(shared, c)
    OBVIOUS
  <2>6. /\ d \in Rows /\ d.project = shared.project /\ d.outbox = shared.outbox
        /\ d.step = Handlers!Saga!Mark(shared.step, e.saga, e.step, "completed")
        /\ d.cancel = shared.cancel
    BY <1>2, <2>2, <2>5, StepWritten
  <2>7. shared.step \in [Handlers!Sagas -> [Handlers!Steps -> Handlers!StepStatuses]]
    BY <1>2, RowsAre
  <2>8. d.step[e.saga][e.step] = "completed"
    BY <2>2, <2>6, <2>7 DEF Handlers!Saga!Mark
  <2>9. Handlers!Done = shared
    <3>1. Handlers!Done = Reopened(shared, e)
      BY <1>4, UndecidedIs
    <3>2. Reopened(shared, e) = shared
      BY <1>2, <2>2, <2>3, ReopenedIs
    <3> QED  BY <3>1, <3>2
  <2>10. Handlers!Done' = Reopened(d, e)
    BY <1>1, <1>4, <2>4, UndecidedIs
  <2> PICK r : r = Reopened(d, e)
    OBVIOUS
  <2>11. /\ r \in Rows /\ r.project = d.project /\ r.outbox = d.outbox /\ r.cancel = d.cancel
         /\ r.step = Handlers!Saga!Mark(d.step, e.saga, e.step, "in_progress")
    BY <2>2, <2>6, ReopenedIs
  <2>12. r.step = Handlers!Saga!Mark(shared.step, e.saga, e.step, "in_progress")
    BY <2>6, <2>7, <2>11, MarkedTwice
  <2>13. Handlers!Saga!Mark(shared.step, e.saga, e.step, "in_progress") = shared.step
    <3> PICK rows : rows = shared.step
      OBVIOUS
    <3>1. [rows EXCEPT ![e.saga][e.step] = "in_progress"] = rows
      BY <2>3, <2>7
    <3> QED  BY <3>1 DEF Handlers!Saga!Mark
  <2>14. r = shared
    <3>1. /\ r.project = shared.project /\ r.outbox = shared.outbox /\ r.cancel = shared.cancel
          /\ r.step = shared.step
      BY <2>6, <2>11, <2>12, <2>13
    <3>2. r \in Shared /\ shared \in Shared
      BY <1>2, <2>11 DEF Rows
    <3> QED  BY <3>1, <3>2 DEF Shared
  <2> QED  BY <2>4, <2>8, <2>9, <2>10, <2>14
<1> QED  BY <1>3, <1>4

\* A call of a handler that has decided is nothing to RenderSaga.
LEMMA CallSeen ==
    ASSUME NEW u, Threads = {u}, HandlersKept, Smooth, Handlers!Call(u)
    PROVE  Smooth' /\ UNCHANGED Handlers!Saga!vars
<1> PICK j, k : j = job[u] /\ k = job'[u]
  OBVIOUS
<1>1. /\ j.todo # <<>> /\ shared' = Handlers!Do(shared, Head(j.todo))
      /\ k.todo = Tail(j.todo) /\ k.deciding = j.deciding /\ k.msg = j.msg /\ k.for = j.for
      /\ UNCHANGED <<disposed, dead, deliveries, retries, sagas, second, asked>>
  BY DEF Handlers!Call, HandlersKept, JobsKept, Job
<1>2. shared \in Rows /\ JobFits(j) /\ j.todo \in Seq(HandlerCall) /\ MessagesKept /\ DoneKept
  BY DEF Smooth, DoneKept, HandlersKept, JobsKept, Job
<1> PICK c : c = Head(j.todo)
  OBVIOUS
<1>3. c \in HandlerCall /\ shared' = Handlers!Do(shared, c)
  BY <1>1, <1>2, HeadAndTail
<1>4. /\ Handlers!Done' = Handlers!Done
      /\ j.deciding => shared'.step[j.msg.saga][j.msg.step] = "completed"
  BY CallStored
<1>5. Handlers!Gone' = Handlers!Gone /\ Handlers!Heard' = Handlers!Heard
  BY <1>1, HeardIs DEF HeardOf, GoneOf
<1>6. SeenEvents' = SeenEvents
  BY <1>1, <1>5 DEF SeenEvents
<1> PICK n : n = Handlers!Cardinality(shared.outbox)
  OBVIOUS
<1>7. /\ shared' \in Rows /\ shared.outbox \subseteq shared'.outbox
      /\ \A b \in shared'.outbox \ shared.outbox : b.id = n + 1
      /\ c.op # "PublishCancel" => shared'.cancel = shared.cancel
  <2>1. PICK d : d = Handlers!Do(shared, c)
    OBVIOUS
  <2>2. /\ d \in Rows /\ shared.outbox \subseteq d.outbox
        /\ \A b \in d.outbox \ shared.outbox : b.id = n + 1
        /\ c.op # "PublishCancel" => d.cancel = shared.cancel
    BY <1>2, <1>3, <2>1, CallKept
  <2> QED  BY <1>3, <2>1, <2>2
<1>8. Known \subseteq Known' /\ Known = 1 .. n /\ n \in Nat
  <2>1. /\ IsFiniteSet(shared'.outbox) /\ n \in Nat /\ Handlers!Cardinality(shared'.outbox) \in Nat
    BY <1>2, <1>7, RowsAre
  <2>2. Cardinality(shared.outbox) <= Cardinality(shared'.outbox)
    BY <1>7, <2>1, FS_Subset
  <2>3. n <= Handlers!Cardinality(shared'.outbox)
    BY <2>2, HandlersCount
  <2> QED  BY <2>1, <2>3 DEF Known
<1>9. MessagesKept'
  BY <1>1, <1>2, <1>8 DEF MessagesKept
<1>10. /\ shared'.cancel.second <= second
       /\ Uncancelled(Tail(j.todo))
  <2>1. CASE Uncancelled(j.todo)
    <3>1. c.op # "PublishCancel" /\ Uncancelled(Tail(j.todo))
      BY <1>1, <1>2, <2>1, HeadAndTail DEF Uncancelled
    <3> QED  BY <1>2, <1>7, <3>1 DEF DoneKept
  <2>2. CASE c = Handlers!PublishCancel(second) /\ Uncancelled(Tail(j.todo))
    <3>1. second \in Nat
      BY DEF HandlersKept, SharedKept
    <3> PICK d : d = Handlers!Do(shared, Handlers!PublishCancel(second))
      OBVIOUS
    <3>2. d.cancel = [second |-> second, sent |-> Handlers!Cardinality(shared.outbox)]
      BY <1>2, <3>1, CancelSent
    <3>3. shared' = d
      BY <1>3, <2>2
    <3>4. shared'.cancel.second = second
      BY <3>2, <3>3
    <3> QED  BY <2>2, <3>1, <3>4
  <2> QED  BY <1>2, <2>1, <2>2 DEF JobFits
<1>11. DoneKept'
  BY <1>1, <1>2, <1>4, <1>7, <1>10 DEF DoneKept
<1>12. ASSUME NEW b \in Handlers!Outstanding', b.id \in dead
       PROVE  b \in Handlers!Outstanding
  <2>1. b.id # n + 1
    BY <1>2, <1>8, <1>12 DEF MessagesKept
  <2> QED  BY <1>1, <1>7, <2>1 DEF Handlers!Outstanding
<1>13. \A b \in Handlers!Outstanding : b \in Handlers!Outstanding'
  BY <1>1, <1>7 DEF Handlers!Outstanding
<1>14. JobFits(k)'
  <2>1. /\ k.for \in {"event", "expired"} => k.msg \in deliveries'
        /\ k.for = "dead_letter" => k.msg \in Handlers!Outstanding'
        /\ k.for \in {"nobody", "request"} => k.msg = Handlers!NoMessage
        /\ k.for # "nobody"
        /\ k.deciding => k.for = "event" /\ k.msg.kind = "ok"
        /\ k.deciding => shared'.step[k.msg.saga][k.msg.step] = "completed"
        /\ Uncancelled(k.todo)
    BY <1>1, <1>2, <1>4, <1>10, <1>13 DEF JobFits
  <2>2. \A e \in deliveries' : e.id \in dead' => k.for = "expired" /\ k.msg = e
    BY <1>1, <1>2 DEF JobFits
  <2>3. \A b \in Handlers!Outstanding' : b.id \in dead' => k.for = "dead_letter" /\ k.msg = b
    BY <1>1, <1>2, <1>12 DEF JobFits
  <2> QED  BY <2>1, <2>2, <2>3 DEF JobFits
<1> QED  BY <1>1, <1>4, <1>5, <1>6, <1>9, <1>11, <1>14, SameSeen DEF Smooth

-----------------------------------------------------------------------------
(* The handlers call by call: a success, and what follows from it.         *)

\* The handler of a success decides on calls.
Decides(u, q) ==
    /\ job[u].deciding /\ job[u].todo = <<>>
    /\ job' = [job EXCEPT ![u].todo = q, ![u].deciding = FALSE]
    /\ UNCHANGED <<shared, disposed, dead, deliveries, sagas, second, asked>>

\* What there is before.
LEMMA BeforeDecision ==
    ASSUME NEW u, Threads = {u}, HandlersKept, Smooth, job[u].deciding, job[u].todo = <<>>,
           NEW e, e = job[u].msg
    PROVE  /\ e \in deliveries /\ e.kind = "ok" /\ e \in Delivery /\ job[u].for = "event"
           /\ e.saga \in Handlers!Sagas /\ e.saga \in 1 .. sagas /\ e.saga \in Nat
           /\ e.step \in Handlers!Steps /\ sagas \in Nat \ {0} /\ second \in Nat
           /\ shared \in Rows /\ Leaves(shared, sagas) /\ Handlers!Done = Reopened(shared, e)
           /\ Handlers!Done.project = shared.project /\ Handlers!Done.outbox = shared.outbox
           /\ Handlers!Done.cancel = shared.cancel /\ Handlers!Done \in Rows
           /\ Handlers!Saga!Mark(Handlers!Done.step, e.saga, e.step, "completed") = shared.step
           /\ Handlers!Done.step[e.saga][e.step] = "in_progress"
<1>1. shared \in Rows /\ JobFits(job[u]) /\ Handlers!Done \in Rows /\ DoneKept
  BY DEF Smooth, DoneKept
<1>2. e \in deliveries /\ e.kind = "ok" /\ job[u].for = "event"
      /\ shared.step[e.saga][e.step] = "completed"
  BY <1>1 DEF JobFits
<1>3. e \in Delivery /\ e.saga \in Handlers!Sagas /\ e.saga \in 1 .. sagas
      /\ e.step \in Handlers!Steps /\ e.saga \in Nat
  BY <1>2, EventHasRows
<1>4. sagas \in Nat \ {0} /\ second \in Nat
  BY <1>3 DEF HandlersKept, SharedKept
<1>5. Handlers!Done = Reopened(shared, e)
  BY UndecidedIs
<1> PICK d : d = Reopened(shared, e)
  OBVIOUS
<1>6. /\ d.project = shared.project /\ d.outbox = shared.outbox /\ d.cancel = shared.cancel
      /\ d.step = Handlers!Saga!Mark(shared.step, e.saga, e.step, "in_progress")
  BY <1>1, <1>3, ReopenedIs
<1> PICK rows : rows = shared.step
  OBVIOUS
<1>7. rows \in [Handlers!Sagas -> [Handlers!Steps -> Handlers!StepStatuses]]
  BY <1>1, RowsAre
<1>8. Handlers!Saga!Mark(Handlers!Done.step, e.saga, e.step, "completed") = rows
  <2>1. [[rows EXCEPT ![e.saga][e.step] = "in_progress"] EXCEPT ![e.saga][e.step] = "completed"]
           = rows
    BY <1>2, <1>3, <1>7
  <2> QED  BY <1>5, <1>6, <2>1 DEF Handlers!Saga!Mark
<1>9. Handlers!Done.step[e.saga][e.step] = "in_progress"
  BY <1>3, <1>5, <1>6, <1>7 DEF Handlers!Saga!Mark
<1>10. Leaves(shared, sagas)
  BY <1>1, <1>5, <1>6 DEF DoneKept, Leaves
<1> QED  BY <1>1, <1>2, <1>3, <1>4, <1>5, <1>6, <1>8, <1>9, <1>10

\* A handler decides: all it will do is done, and its event is heard.
LEMMA DecidedStored ==
    ASSUME NEW u, Threads = {u}, HandlersKept, Smooth, NEW q \in Seq(HandlerCall), Decides(u, q)
    PROVE  /\ Handlers!Done' = Handlers!Through(shared, q) /\ Handlers!Gone' = Handlers!Gone
           /\ SeenEvents' = SeenEvents \ {Seen(job[u].msg)}
           /\ Seen(job[u].msg) \in SeenEvents
           /\ Handlers!Saga!Accepted(Seen(job[u].msg), job[u].msg.step, "ok")
<1> PICK e : e = job[u].msg
  OBVIOUS
<1>1. /\ e \in deliveries /\ e.kind = "ok" /\ job[u].for = "event"
      /\ Handlers!Done.step[e.saga][e.step] = "in_progress"
  BY BeforeDecision DEF Decides
<1>2. /\ job'[u].todo = q /\ ~job'[u].deciding /\ job'[u].msg = e /\ job'[u].for = "event"
      /\ job[u].deciding
      /\ UNCHANGED <<shared, disposed, deliveries>>
  BY <1>1 DEF Decides, HandlersKept, JobsKept, Job
<1>3. Handlers!Done' = Handlers!Through(shared, q)
  BY <1>2, StoredIs
<1>4. /\ Handlers!Heard = {} /\ Handlers!Gone = disposed
      /\ Handlers!Heard' = {e} /\ Handlers!Gone' = disposed
  BY <1>1, <1>2, HeardIs DEF HeardOf, GoneOf
<1>5. \A f, g \in deliveries : Seen(f) = Seen(g) => f = g
  BY DEF Seen, Smooth, MessagesKept
<1>6. SeenEvents = {Seen(f) : f \in deliveries} /\ SeenEvents' = {Seen(f) : f \in deliveries \ {e}}
  BY <1>2, <1>4 DEF SeenEvents
<1>7. SeenEvents' = SeenEvents \ {Seen(e)} /\ Seen(e) \in SeenEvents
  BY <1>1, <1>5, <1>6
<1>8. Handlers!Saga!Accepted(Seen(e), e.step, "ok")
  <2> PICK x : x = Seen(e)
    OBVIOUS
  <2>1. x.step = e.step /\ x.kind = "ok" /\ x.saga = e.saga
    BY <1>1 DEF Seen
  <2>2. Handlers!Saga!Current(x)
    BY <1>1, <2>1 DEF Handlers!Saga!Current
  <2>3. Handlers!Saga!Take(x)
    BY <1>7 DEF Handlers!Saga!Take, SeenEvents, Seen
  <2>4. Handlers!Saga!Accepted(x, e.step, "ok")
    BY <2>1, <2>2, <2>3 DEF Handlers!Saga!Accepted
  <2> QED  BY <2>4 DEF Handlers!Saga!Accepted, Handlers!Saga!Current, Handlers!Saga!Take
<1> QED  BY <1>3, <1>4, <1>7, <1>8 DEF Handlers!Saga!Accepted, Handlers!Saga!Current, Handlers!Saga!Take

\* Deciding keeps what is said of the goroutine.
LEMMA DecidedIsSmooth ==
    ASSUME NEW u, Threads = {u}, HandlersKept, Smooth, NEW q \in Seq(HandlerCall), Decides(u, q),
           Uncancelled(q), Leaves(Handlers!Done', sagas)
    PROVE  Smooth'
<1> PICK e, k : e = job[u].msg /\ k = job'[u]
  OBVIOUS
<1>1. /\ e \in deliveries /\ job[u].for = "event"
  BY BeforeDecision DEF Decides
<1>2. /\ k.todo = q /\ ~k.deciding /\ k.msg = e /\ k.for = "event"
      /\ UNCHANGED <<shared, disposed, dead, deliveries, sagas, second, asked>>
  BY <1>1 DEF Decides, HandlersKept, JobsKept, Job
<1>3. MessagesKept /\ DoneKept /\ JobFits(job[u])
  BY DEF Smooth
<1>4. MessagesKept' /\ Handlers!Outstanding' = Handlers!Outstanding
  BY <1>2, <1>3 DEF MessagesKept, Known, Handlers!Outstanding
<1>5. DoneKept'
  BY <1>2, <1>3 DEF DoneKept, Leaves
<1>6. /\ \A f \in deliveries : f.id \notin dead
      /\ \A c \in Handlers!Outstanding : c.id \notin dead
  BY <1>1, <1>3 DEF JobFits
<1>7. JobFits(k)'
  BY <1>1, <1>2, <1>4, <1>6 DEF JobFits
<1> QED  BY <1>4, <1>5, <1>7 DEF Smooth

\* The same rows, differently put.
LEMMA OpensAlike ==
    ASSUME NEW a, NEW b, a = b, NEW g, NEW s, Handlers!Saga!Open(a, g, s)
    PROVE  Handlers!Saga!Open(b, g, s)
BY DEF Handlers!Saga!Open

\* Equal rows are failed alike, rendered alike and go on alike.
LEMMA FailsAlike ==
    ASSUME NEW a, NEW b, a = b, NEW g, NEW s, Handlers!Saga!Fail(a, g, s)
    PROVE  Handlers!Saga!Fail(b, g, s)
BY DEF Handlers!Saga!Fail

LEMMA RendersAlike ==
    ASSUME NEW a, NEW b, a = b, NEW g, Handlers!Saga!startRenderScenes(a, g)
    PROVE  Handlers!Saga!startRenderScenes(b, g)
BY OpensAlike, FailsAlike DEF Handlers!Saga!startRenderScenes

LEMMA ValidatedAlike ==
    ASSUME NEW a, NEW b, a = b, NEW g, Handlers!Saga!AfterValidation(a, g)
    PROVE  Handlers!Saga!AfterValidation(b, g)
<1>1. Handlers!Saga!Mark(a, g, "synthesize_speech", "completed")
         = Handlers!Saga!Mark(b, g, "synthesize_speech", "completed")
  BY DEF Handlers!Saga!Mark
<1>2. Handlers!Saga!skipSynthesizeSpeech(a, g) => Handlers!Saga!skipSynthesizeSpeech(b, g)
  BY <1>1, RendersAlike DEF Handlers!Saga!skipSynthesizeSpeech
<1>3. Handlers!Saga!startSynthesizeSpeech(a, g) => Handlers!Saga!startSynthesizeSpeech(b, g)
  BY OpensAlike DEF Handlers!Saga!startSynthesizeSpeech
<1> QED  BY <1>2, <1>3 DEF Handlers!Saga!AfterValidation

\* A step that was completed before it failed is as failed as one that was not.
LEMMA FailedAgain ==
    ASSUME NEW d \in Rows, NEW e, NEW m, m.saga \in Handlers!Sagas, m.step \in Handlers!Steps,
           HasFailed(d, e, m.saga, m.step)
    PROVE  HasFailed(Reopened(d, m), e, m.saga, m.step)
<1> PICK r : r = Reopened(d, m)
  OBVIOUS
<1>1. /\ r \in Rows /\ r.project = d.project /\ r.outbox = d.outbox /\ r.cancel = d.cancel
      /\ r.step = Handlers!Saga!Mark(d.step, m.saga, m.step, "in_progress")
  BY ReopenedIs
<1>2. Handlers!Saga!Mark(r.step, m.saga, m.step, "failed")
         = Handlers!Saga!Mark(d.step, m.saga, m.step, "failed")
  BY <1>1, RowsAre, MarkedTwice
<1> QED  BY <1>1, <1>2 DEF HasFailed

\* Saved, and only the status moved: the last two steps.
LEMMA EndStored ==
    ASSUME NEW u, Threads = {u}, HandlersKept, Smooth, NEW q, Decides(u, q),
           NEW to \in Handlers!Statuses,
           q = <<Handlers!Save(shared.project), Handlers!UpdateStatus(to)>>
    PROVE  /\ q \in Seq(HandlerCall) /\ Uncancelled(q) /\ Leaves(Handlers!Done', sagas)
           /\ Like(Handlers!Done', shared) /\ Handlers!Done'.project.status = to
           /\ Handlers!Done'.outbox = shared.outbox /\ Handlers!Done'.step = shared.step
           /\ \A s : ~Handlers!Dispatches(q, s)
<1> PICK e : e = job[u].msg
  OBVIOUS
<1>1. /\ shared \in Rows /\ Leaves(shared, sagas) /\ sagas \in Nat \ {0}
  BY BeforeDecision DEF Decides
<1>2. shared.project \in ProjectRow
  BY <1>1, RowsAre
<1> PICK a, b : a = Handlers!Save(shared.project) /\ b = Handlers!UpdateStatus(to)
  OBVIOUS
<1>3. a \in HandlerCall /\ b \in HandlerCall /\ a.op = "Save" /\ b.op = "UpdateStatus"
  BY <1>2, CallsAre DEF Handlers!Save, Handlers!UpdateStatus
<1>4. q = <<a, b>>
  OBVIOUS
<1> PICK d : d = Handlers!Do(shared, a)
  OBVIOUS
<1>5. /\ d \in Rows /\ d.project = shared.project /\ d.outbox = shared.outbox
      /\ d.step = shared.step /\ d.cancel = shared.cancel
  BY <1>1, <1>2, RowSaved
<1> PICK f : f = Handlers!Do(d, b)
  OBVIOUS
<1>6. /\ f \in Rows /\ f.project = [d.project EXCEPT !.status = to] /\ f.outbox = d.outbox
      /\ f.step = d.step /\ f.cancel = d.cancel
  BY <1>5, StatusWritten
<1>7. q \in Seq(HandlerCall) /\ Handlers!Through(shared, q) = f
  BY <1>1, <1>3, <1>4, TwoStored
<1>8. Handlers!Done' = f
  BY <1>7, DecidedStored
<1>9. /\ f.project.saga = d.project.saga /\ f.project.config = d.project.config
      /\ f.project.script = d.project.script /\ f.project.outline = d.project.outline
      /\ f.project.status = to
  BY <1>2, <1>5, <1>6 DEF ProjectRow
<1>10. Leaves(f, sagas) /\ Like(f, shared)
  BY <1>1, <1>5, <1>6, <1>9 DEF Leaves, Like
<1>11. Uncancelled(q) /\ \A s : ~Handlers!Dispatches(q, s)
  BY <1>3, <1>4 DEF Uncancelled, Handlers!Dispatches
<1> QED  BY <1>5, <1>6, <1>7, <1>8, <1>9, <1>10, <1>11

\* The video is assembled, or published.
LEMMA EndSeen ==
    ASSUME NEW u, Threads = {u}, HandlersKept, Smooth, NEW q, Decides(u, q),
           NEW e, e = job[u].msg, e.step \in {"assemble_video", "publish_video"},
           q \in Handlers!handleSuccess(e, shared.project),
           retries' = IF e.step = "synthesize_speech" \/ Handlers!Dispatches(q, "synthesize_speech")
                      THEN [retries EXCEPT ![e.saga] = 0] ELSE retries
    PROVE  Smooth' /\ Handlers!Saga!Next
<1>1. PICK to \in {"ready_to_publish", "published"} :
         /\ q = <<Handlers!Save(shared.project), Handlers!UpdateStatus(to)>>
         /\ e.step = IF to = "published" THEN "publish_video" ELSE "assemble_video"
  BY DEF Handlers!handleSuccess
<1>2. to \in Handlers!Statuses
  BY DEF Handlers!Statuses, Handlers!Resting
<1>3. /\ q \in Seq(HandlerCall) /\ Uncancelled(q) /\ Leaves(Handlers!Done', sagas)
      /\ Like(Handlers!Done', shared) /\ Handlers!Done'.project.status = to
      /\ Handlers!Done'.outbox = shared.outbox /\ Handlers!Done'.step = shared.step
      /\ \A s : ~Handlers!Dispatches(q, s)
  BY <1>1, <1>2, EndStored
<1>4. retries' = retries
  BY <1>1, <1>3
<1>5. /\ Handlers!Done.project = shared.project /\ Handlers!Done.outbox = shared.outbox
      /\ Handlers!Done.cancel = shared.cancel
      /\ Handlers!Saga!Mark(Handlers!Done.step, e.saga, e.step, "completed") = shared.step
  BY BeforeDecision DEF Decides
<1>6. /\ Handlers!Gone' = Handlers!Gone /\ Seen(e) \in SeenEvents
      /\ Handlers!Saga!Accepted(Seen(e), e.step, "ok")
  BY <1>3, DecidedStored DEF Handlers!Saga!Accepted, Handlers!Saga!Current, Handlers!Saga!Take
<1> PICK x : x = Seen(e)
  OBVIOUS
<1>7. Handlers!Saga!Accepted(x, e.step, "ok")
  BY <1>6 DEF Handlers!Saga!Accepted, Handlers!Saga!Current, Handlers!Saga!Take
<1>8. Handlers!Done'.step = Handlers!Saga!Completed(x)
  <2>1. x.saga = e.saga /\ x.step = e.step
    BY DEF Seen
  <2>2. Handlers!Saga!Mark(Handlers!Done.step, x.saga, x.step, "completed") = shared.step
    BY <1>5, <2>1 DEF Handlers!Saga!Mark
  <2> QED  BY <1>3, <2>2 DEF Handlers!Saga!Completed
<1>9. UNCHANGED <<Handlers!Done.project.saga, Handlers!Done.project.config,
                  Handlers!Done.project.script, Handlers!Done.project.outline,
                  Handlers!Done.outbox, Handlers!Done.cancel, retries, second, asked>>
  BY <1>3, <1>4, <1>5 DEF Decides, Like
<1>10. Handlers!Saga!onVideoAssembled(x) \/ Handlers!Saga!onVideoPublished(x)
  <2>1. CASE to = "ready_to_publish"
    <3>1. Handlers!Saga!Accepted(x, "assemble_video", "ok")
      BY <1>1, <1>7, <2>1 DEF Handlers!Saga!Accepted
    <3>2. Handlers!Saga!onVideoAssembled(x)
      BY <1>3, <1>6, <1>8, <1>9, <2>1, <3>1 DEF Handlers!Saga!onVideoAssembled, Handlers!Saga!row
    <3> QED  BY <3>2
  <2>2. CASE to = "published"
    <3>1. Handlers!Saga!Accepted(x, "publish_video", "ok")
      BY <1>1, <1>7, <2>2 DEF Handlers!Saga!Accepted
    <3>2. Handlers!Saga!onVideoPublished(x)
      BY <1>3, <1>6, <1>8, <1>9, <2>2, <3>1 DEF Handlers!Saga!onVideoPublished, Handlers!Saga!row
    <3> QED  BY <3>2
  <2> QED  BY <1>1, <2>1, <2>2
<1>11. Smooth'
  BY <1>3, DecidedIsSmooth
<1> QED  BY <1>6, <1>10, <1>11 DEF Handlers!Saga!Next, Handlers!Saga!Orchestrator, SeenEvents, Seen

\* The scenes are rendered, or were not after all.
LEMMA RenderedSeen ==
    ASSUME NEW u, Threads = {u}, HandlersKept, Smooth, NEW q, Decides(u, q),
           NEW e, e = job[u].msg, e.step = "render_scenes",
           q \in Handlers!handleSuccess(e, shared.project),
           retries' = IF e.step = "synthesize_speech" \/ Handlers!Dispatches(q, "synthesize_speech")
                      THEN [retries EXCEPT ![e.saga] = 0] ELSE retries
    PROVE  Smooth' /\ Handlers!Saga!Next
<1>1. /\ e.saga \in Handlers!Sagas /\ e.saga \in 1 .. sagas /\ e.saga \in Nat
      /\ e.step \in Handlers!Steps /\ sagas \in Nat \ {0} /\ second \in Nat
      /\ shared \in Rows /\ Leaves(shared, sagas) /\ Handlers!Done = Reopened(shared, e)
      /\ Handlers!Done.project = shared.project /\ Handlers!Done.outbox = shared.outbox
      /\ Handlers!Done.cancel = shared.cancel /\ Handlers!Done \in Rows
      /\ Handlers!Saga!Mark(Handlers!Done.step, e.saga, e.step, "completed") = shared.step
  BY BeforeDecision DEF Decides
<1>2. shared.project.saga = sagas /\ \A c \in shared.outbox : c.saga \in 1 .. sagas
  BY <1>1 DEF Leaves
<1>3. shared.project \in ProjectRow /\ "assemble_video" \in Handlers!Steps
  BY <1>1, RowsAre, EarlierAre
<1> PICK x : x = Seen(e)
  OBVIOUS
<1>4. x.saga = e.saga /\ x.step = e.step
  BY DEF Seen
<1>5. Handlers!Saga!Completed(x) = shared.step
  BY <1>1, <1>4 DEF Handlers!Saga!Completed, Handlers!Saga!Mark
<1>6. ASSUME q \in Seq(HandlerCall)
      PROVE  /\ Handlers!Gone' = Handlers!Gone /\ x \in SeenEvents
             /\ Handlers!Saga!Accepted(x, "render_scenes", "ok")
             /\ Handlers!Done' = Handlers!Through(shared, q)
  BY <1>6, DecidedStored DEF Handlers!Saga!Accepted, Handlers!Saga!Current, Handlers!Saga!Take
<1>7. CASE q = Handlers!Failing(e.saga, "render_scenes")
  <2>1. /\ q \in Seq(HandlerCall) /\ Uncancelled(q) /\ \A s : ~Handlers!Dispatches(q, s)
        /\ HasFailed(shared, Handlers!Through(shared, q), e.saga, "render_scenes")
    BY <1>1, <1>7, FailingStored, FailingDispatches
  <2>2. HasFailed(shared, Handlers!Done', e.saga, e.step)
    BY <1>6, <2>1
  <2>3. HasFailed(Handlers!Done, Handlers!Done', e.saga, e.step)
    BY <1>1, <2>2, FailedAgain
  <2> PICK f : f = Handlers!Done'
    OBVIOUS
  <2>4. Leaves(f, sagas) /\ Like(f, shared)
    BY <1>1, <1>2, <2>2, FailedLeaves
  <2>5. Handlers!Saga!Fail(Handlers!Done.step, x.saga, "render_scenes")
    <3>1. Handlers!Saga!Fail(Handlers!Done.step, e.saga, e.step)
      BY <1>1, <2>3, FailIsSeen
    <3> QED  BY <1>4, <3>1 DEF Handlers!Saga!Fail
  <2>6. Handlers!Saga!NothingSent
    BY <1>1, <1>6, <2>1, <2>2, NothingIsSent DEF HasFailed
  <2>7. retries' = retries
    BY <2>1
  <2>8. UNCHANGED <<Handlers!Done.project.saga, Handlers!Saga!row, retries, second,
                    Handlers!Done.cancel, asked>>
    BY <1>1, <2>4, <2>7 DEF Decides, Like, Handlers!Saga!row
  <2>9. Handlers!Saga!onRenderingCompleted(x)
    BY <1>6, <2>1, <2>5, <2>6, <2>8 DEF Handlers!Saga!onRenderingCompleted
  <2>10. Smooth'
    BY <2>1, <2>4, DecidedIsSmooth
  <2> QED  BY <1>6, <2>1, <2>9, <2>10
           DEF Handlers!Saga!Next, Handlers!Saga!Orchestrator, SeenEvents, Seen
<1>8. CASE q = <<Handlers!Save(shared.project)>>
                 \o Handlers!Opening(e.saga, "assemble_video", shared.project)
  <2> PICK o : o = Handlers!Opening(e.saga, "assemble_video", shared.project)
    OBVIOUS
  <2>1. o \in Seq(HandlerCall) /\ Uncancelled(o) /\ ~Handlers!Dispatches(o, "synthesize_speech")
    BY <1>1, <1>3, OpeningStored, OpeningDispatches
  <2>2. /\ q \in Seq(HandlerCall) /\ Uncancelled(q) /\ ~Handlers!Dispatches(q, "synthesize_speech")
    BY <1>1, <1>3, <1>8, <2>1, SavedStored, SavedDispatches
  <2>3. PICK d \in Rows :
           /\ d.project = shared.project /\ d.outbox = shared.outbox /\ d.step = shared.step
           /\ d.cancel = shared.cancel
           /\ Handlers!Through(shared, q) = Handlers!Through(d, o)
    BY <1>1, <1>3, <1>8, <2>1, SavedStored
  <2>4. HasOpened(d, Handlers!Done', e.saga, "assemble_video", d.project.script, second)
    <3>1. HasOpened(d, Handlers!Through(d, o), e.saga, "assemble_video", shared.project.script,
                    second)
      BY <1>1, <1>3, OpeningStored
    <3> QED  BY <1>6, <2>2, <2>3, <3>1
  <2> PICK f : f = Handlers!Done'
    OBVIOUS
  <2>5. Leaves(f, sagas) /\ Like(f, d)
    BY <1>1, <1>2, <1>3, <2>3, <2>4, OpenedLeaves
  <2>6. Handlers!Saga!Open(d.step, e.saga, "assemble_video")
    BY <1>1, <1>3, <1>6, <2>2, <2>3, <2>4, OpenIsSeen
  <2>7. Handlers!Saga!Open(Handlers!Saga!Completed(x), x.saga, "assemble_video")
    <3>1. d.step = Handlers!Saga!Completed(x)
      BY <1>5, <2>3
    <3>2. Handlers!Saga!Open(Handlers!Saga!Completed(x), e.saga, "assemble_video")
      BY <2>6, <3>1, OpensAlike
    <3> QED  BY <1>4, <3>2 DEF Handlers!Saga!Open
  <2>8. retries' = retries
    BY <2>2
  <2>9. UNCHANGED <<Handlers!Done.project.saga, Handlers!Saga!row, retries, second,
                    Handlers!Done.cancel, asked>>
    BY <1>1, <2>3, <2>5, <2>8 DEF Decides, Like, Handlers!Saga!row
  <2>10. Handlers!Saga!onRenderingCompleted(x)
    BY <1>6, <2>2, <2>7, <2>9 DEF Handlers!Saga!onRenderingCompleted
  <2>11. Smooth'
    BY <2>2, <2>5, DecidedIsSmooth
  <2> QED  BY <1>6, <2>2, <2>10, <2>11
           DEF Handlers!Saga!Next, Handlers!Saga!Orchestrator, SeenEvents, Seen
<1> QED  BY <1>7, <1>8 DEF Handlers!handleSuccess, Handlers!onRenderingCompleted

\* Speech is there, for these scenes or for others.
LEMMA SynthesizedSeen ==
    ASSUME NEW u, Threads = {u}, HandlersKept, Smooth, NEW q, Decides(u, q),
           NEW e, e = job[u].msg, e.step = "synthesize_speech",
           q \in Handlers!handleSuccess(e, shared.project),
           retries' = IF e.step = "synthesize_speech" \/ Handlers!Dispatches(q, "synthesize_speech")
                      THEN [retries EXCEPT ![e.saga] = 0] ELSE retries
    PROVE  Smooth' /\ Handlers!Saga!Next
<1>1. /\ e.saga \in Handlers!Sagas /\ e.saga \in 1 .. sagas /\ e.saga \in Nat
      /\ e.step \in Handlers!Steps /\ sagas \in Nat \ {0} /\ second \in Nat
      /\ shared \in Rows /\ Leaves(shared, sagas)
      /\ Handlers!Done.project = shared.project /\ Handlers!Done.outbox = shared.outbox
      /\ Handlers!Done.cancel = shared.cancel /\ Handlers!Done \in Rows
      /\ Handlers!Saga!Mark(Handlers!Done.step, e.saga, e.step, "completed") = shared.step
  BY BeforeDecision DEF Decides
<1>2. shared.project.saga = sagas /\ \A c \in shared.outbox : c.saga \in 1 .. sagas
  BY <1>1 DEF Leaves
<1>3. shared.project \in ProjectRow /\ "render_scenes" \in Handlers!Steps
  BY <1>1, RowsAre, EarlierAre
<1> PICK x : x = Seen(e)
  OBVIOUS
<1>4. x.saga = e.saga /\ x.step = e.step
  BY DEF Seen
<1>5. Handlers!Saga!Completed(x) = shared.step
  BY <1>1, <1>4 DEF Handlers!Saga!Completed, Handlers!Saga!Mark
<1>6. ASSUME q \in Seq(HandlerCall)
      PROVE  /\ Handlers!Gone' = Handlers!Gone /\ x \in SeenEvents
             /\ Handlers!Saga!Accepted(x, "synthesize_speech", "ok")
             /\ Handlers!Done' = Handlers!Through(shared, q)
  BY <1>6, DecidedStored DEF Handlers!Saga!Accepted, Handlers!Saga!Current, Handlers!Saga!Take
<1>7. retries' = [retries EXCEPT ![x.saga] = 0]
  BY <1>4
<1>8. CASE q = Handlers!Failing(e.saga, "render_scenes")
  <2>1. /\ q \in Seq(HandlerCall) /\ Uncancelled(q)
        /\ HasFailed(shared, Handlers!Through(shared, q), e.saga, "render_scenes")
    BY <1>1, <1>3, <1>8, FailingStored, FailingDispatches
  <2>2. HasFailed(shared, Handlers!Done', e.saga, "render_scenes")
    BY <1>6, <2>1
  <2> PICK f : f = Handlers!Done'
    OBVIOUS
  <2>3. Leaves(f, sagas) /\ Like(f, shared)
    BY <1>1, <1>2, <1>3, <2>2, FailedLeaves
  <2>4. Handlers!Saga!Fail(Handlers!Saga!Completed(x), x.saga, "render_scenes")
    <3>1. Handlers!Saga!Fail(shared.step, e.saga, "render_scenes")
      BY <1>1, <1>3, <2>2, FailIsSeen
    <3>2. Handlers!Saga!Fail(Handlers!Saga!Completed(x), e.saga, "render_scenes")
      BY <1>5, <3>1, FailsAlike
    <3> QED  BY <1>4, <3>2 DEF Handlers!Saga!Fail
  <2>5. Handlers!Saga!NothingSent
    BY <1>1, <1>6, <2>1, <2>2, NothingIsSent DEF HasFailed
  <2>6. UNCHANGED <<Handlers!Done.project.saga, Handlers!Saga!row, second,
                    Handlers!Done.cancel, asked>>
    BY <1>1, <2>3 DEF Decides, Like, Handlers!Saga!row
  <2>7. Handlers!Saga!onSpeechSynthesized(x)
    BY <1>6, <1>7, <2>1, <2>4, <2>5, <2>6 DEF Handlers!Saga!onSpeechSynthesized
  <2>8. Smooth'
    BY <2>1, <2>3, DecidedIsSmooth
  <2> QED  BY <1>6, <2>1, <2>7, <2>8
           DEF Handlers!Saga!Next, Handlers!Saga!Orchestrator, SeenEvents, Seen
<1>9. ASSUME NEW o \in Handlers!startRenderScenes(e.saga, shared.project),
             q = <<Handlers!Save(shared.project)>> \o o
      PROVE  Smooth' /\ Handlers!Saga!Next
  <2>1. o \in Seq(HandlerCall) /\ Uncancelled(o)
    BY <1>1, RendersNext
  <2>2. q \in Seq(HandlerCall) /\ Uncancelled(q)
    BY <1>1, <1>3, <1>9, <2>1, SavedStored, SavedDispatches
  <2>3. PICK d \in Rows :
           /\ d.project = shared.project /\ d.outbox = shared.outbox /\ d.step = shared.step
           /\ d.cancel = shared.cancel
           /\ Handlers!Through(shared, q) = Handlers!Through(d, o)
    BY <1>1, <1>3, <1>9, <2>1, SavedStored
  <2>4. Renders(d, Handlers!Done', e.saga)
    <3>1. o \in Handlers!startRenderScenes(e.saga, d.project)
      BY <1>9, <2>3
    <3>2. Renders(d, Handlers!Through(d, o), e.saga)
      BY <1>1, <3>1, RendersNext
    <3> QED  BY <1>6, <2>2, <2>3, <3>2
  <2>5. /\ Handlers!Saga!startRenderScenes(d.step, e.saga)
        /\ Leaves(Handlers!Done', sagas) /\ Like(Handlers!Done', d)
    BY <1>1, <1>2, <1>6, <2>2, <2>3, <2>4, RendersSeen
  <2>6. Handlers!Saga!startRenderScenes(Handlers!Saga!Completed(x), x.saga)
    <3>1. d.step = Handlers!Saga!Completed(x)
      BY <1>5, <2>3
    <3>2. Handlers!Saga!startRenderScenes(Handlers!Saga!Completed(x), e.saga)
      BY <2>5, <3>1, RendersAlike
    <3> QED  BY <1>4, <3>2
             DEF Handlers!Saga!startRenderScenes, Handlers!Saga!Open, Handlers!Saga!Fail
  <2>7. UNCHANGED <<Handlers!Done.project.saga, Handlers!Saga!row, second,
                    Handlers!Done.cancel, asked>>
    BY <1>1, <2>3, <2>5 DEF Decides, Like, Handlers!Saga!row
  <2>8. Handlers!Saga!onSpeechSynthesized(x)
    BY <1>6, <1>7, <2>2, <2>6, <2>7 DEF Handlers!Saga!onSpeechSynthesized
  <2>9. Smooth'
    BY <2>2, <2>5, DecidedIsSmooth
  <2> QED  BY <1>6, <2>2, <2>8, <2>9
           DEF Handlers!Saga!Next, Handlers!Saga!Orchestrator, SeenEvents, Seen
<1> QED  BY <1>8, <1>9 DEF Handlers!handleSuccess, Handlers!onSpeechSynthesized

\* r makes the calls of q after two saves of the project p, and leaves what q leaves.
TwiceIsOnce(d, p, q, r) ==
    /\ r \in Seq(HandlerCall) /\ (Uncancelled(r) <=> Uncancelled(q))
    /\ \A s : Handlers!Dispatches(r, s) <=> Handlers!Dispatches(q, s)
    /\ \E e \in Rows :
          /\ e.project = p /\ e.outbox = d.outbox /\ e.step = d.step /\ e.cancel = d.cancel
          /\ Handlers!Through(d, r) = Handlers!Through(e, q)

\* The row is saved with the outline, twice when the handler goes on.
LEMMA SavedTwice ==
    ASSUME NEW d \in Rows, NEW p \in ProjectRow, NEW q \in Seq(HandlerCall), NEW r,
           r = <<Handlers!Save(p), Handlers!Save(p)>> \o q
    PROVE  TwiceIsOnce(d, p, q, r)
<1> SUFFICES /\ r \in Seq(HandlerCall) /\ (Uncancelled(r) <=> Uncancelled(q))
             /\ \A s : Handlers!Dispatches(r, s) <=> Handlers!Dispatches(q, s)
             /\ \E e \in Rows :
                   /\ e.project = p /\ e.outbox = d.outbox /\ e.step = d.step /\ e.cancel = d.cancel
                   /\ Handlers!Through(d, r) = Handlers!Through(e, q)
  BY DEF TwiceIsOnce
<1> PICK a : a = Handlers!Save(p)
  OBVIOUS
<1> PICK w : w = <<a>> \o q
  OBVIOUS
<1>1. a \in HandlerCall
  BY CallsAre
<1>2. <<a, a>> \o q = <<a>> \o w
  <2>1. <<a>> \in Seq(HandlerCall)
    BY <1>1
  <2>2. (<<a>> \o <<a>>) \o q = <<a>> \o (<<a>> \o q)
    BY <2>1, ConcatAssociative
  <2> QED  BY <2>2, Pair
<1>3. /\ w \in Seq(HandlerCall) /\ (Uncancelled(w) <=> Uncancelled(q))
      /\ \A s : Handlers!Dispatches(w, s) <=> Handlers!Dispatches(q, s)
  BY SavedStored, SavedDispatches
<1>4. /\ <<a>> \o w \in Seq(HandlerCall) /\ (Uncancelled(<<a>> \o w) <=> Uncancelled(w))
      /\ \A s : Handlers!Dispatches(<<a>> \o w, s) <=> Handlers!Dispatches(w, s)
  BY <1>3, SavedStored, SavedDispatches
<1>5. PICK b \in Rows :
         /\ b.project = p /\ b.outbox = d.outbox /\ b.step = d.step /\ b.cancel = d.cancel
         /\ Handlers!Through(d, <<a>> \o w) = Handlers!Through(b, w)
  BY <1>3, SavedStored
<1>6. PICK e \in Rows :
         /\ e.project = p /\ e.outbox = b.outbox /\ e.step = b.step /\ e.cancel = b.cancel
         /\ Handlers!Through(b, w) = Handlers!Through(e, q)
  BY SavedStored
<1> QED  BY <1>2, <1>3, <1>4, <1>5, <1>6

\* The script is validated: the step fails for missing beats, the project waits for
\* its review, or goes on.
LEMMA ScriptValidatedSeen ==
    ASSUME NEW u, Threads = {u}, HandlersKept, Smooth, NEW q, Decides(u, q),
           NEW e, e = job[u].msg, e.step = "validate_script",
           q \in Handlers!handleSuccess(e, shared.project),
           retries' = IF e.step = "synthesize_speech" \/ Handlers!Dispatches(q, "synthesize_speech")
                      THEN [retries EXCEPT ![e.saga] = 0] ELSE retries
    PROVE  Smooth' /\ Handlers!Saga!Next
<1>1. /\ e.saga \in Handlers!Sagas /\ e.saga \in 1 .. sagas /\ e.saga \in Nat
      /\ e.step \in Handlers!Steps /\ sagas \in Nat \ {0} /\ second \in Nat
      /\ shared \in Rows /\ Leaves(shared, sagas) /\ e \in Delivery
      /\ Handlers!Done.project = shared.project /\ Handlers!Done.outbox = shared.outbox
      /\ Handlers!Done.cancel = shared.cancel /\ Handlers!Done \in Rows
      /\ Handlers!Done = Reopened(shared, e)
      /\ Handlers!Saga!Mark(Handlers!Done.step, e.saga, e.step, "completed") = shared.step
  BY BeforeDecision DEF Decides
<1>2. shared.project.saga = sagas /\ \A c \in shared.outbox : c.saga \in 1 .. sagas
  BY <1>1 DEF Leaves
<1>3. shared.project \in ProjectRow /\ e.script \in Nat
  BY <1>1, RowsAre DEF Delivery
<1> PICK p : p = [shared.project EXCEPT !.outline = e.script]
  OBVIOUS
<1>4. /\ p \in ProjectRow /\ p.saga = shared.project.saga /\ p.config = shared.project.config
      /\ p.script = shared.project.script /\ p.outline = e.script
  BY <1>3 DEF ProjectRow
<1> PICK x : x = Seen(e)
  OBVIOUS
<1>5. x.saga = e.saga /\ x.step = e.step /\ x.script = e.script
  BY DEF Seen
<1>6. Handlers!Saga!Completed(x) = shared.step
  BY <1>1, <1>5 DEF Handlers!Saga!Completed, Handlers!Saga!Mark
<1>7. ASSUME q \in Seq(HandlerCall)
      PROVE  /\ Handlers!Gone' = Handlers!Gone /\ x \in SeenEvents
             /\ Handlers!Saga!Accepted(x, "validate_script", "ok")
             /\ Handlers!Done' = Handlers!Through(shared, q)
  BY <1>7, DecidedStored DEF Handlers!Saga!Accepted, Handlers!Saga!Current, Handlers!Saga!Take
<1>8. retries' = IF Handlers!Dispatches(q, "synthesize_speech")
                 THEN [retries EXCEPT ![e.saga] = 0] ELSE retries
  OBVIOUS
\* What is the same in all three cases.
<1>9. ASSUME NEW d, d.project = p, d.cancel = shared.cancel, Like(Handlers!Done', d)
      PROVE  /\ Handlers!Done'.project.outline = x.script
             /\ UNCHANGED <<Handlers!Done.project.saga, Handlers!Done.project.config,
                            Handlers!Done.project.script, second, Handlers!Done.cancel, asked>>
  BY <1>1, <1>4, <1>5, <1>9 DEF Decides, Like
<1>10. ASSUME q \in Seq(HandlerCall), Uncancelled(q), Leaves(Handlers!Done', sagas),
              Handlers!Saga!onScriptValidated(x)
       PROVE  Smooth' /\ Handlers!Saga!Next
  <2>1. Smooth'
    BY <1>10, DecidedIsSmooth
  <2> QED  BY <1>7, <1>10, <2>1
           DEF Handlers!Saga!Next, Handlers!Saga!Orchestrator, SeenEvents, Seen
<1>11. CASE q = <<Handlers!Save(p)>> \o Handlers!Failing(e.saga, "validate_script")
  <2> PICK o : o = Handlers!Failing(e.saga, "validate_script")
    OBVIOUS
  <2>1. o \in Seq(HandlerCall) /\ Uncancelled(o) /\ ~Handlers!Dispatches(o, "synthesize_speech")
    BY <1>1, FailingStored, FailingDispatches
  <2>2. /\ q \in Seq(HandlerCall) /\ Uncancelled(q) /\ ~Handlers!Dispatches(q, "synthesize_speech")
    BY <1>1, <1>4, <1>11, <2>1, SavedStored, SavedDispatches
  <2>3. PICK d \in Rows :
           /\ d.project = p /\ d.outbox = shared.outbox /\ d.step = shared.step
           /\ d.cancel = shared.cancel
           /\ Handlers!Through(shared, q) = Handlers!Through(d, o)
    BY <1>1, <1>4, <1>11, <2>1, SavedStored
  <2>4. HasFailed(d, Handlers!Done', e.saga, e.step)
    <3>1. HasFailed(d, Handlers!Through(d, o), e.saga, e.step)
      BY <1>1, FailingStored
    <3> QED  BY <1>7, <2>2, <2>3, <3>1
  <2> PICK f : f = Handlers!Done'
    OBVIOUS
  <2>5. Leaves(f, sagas) /\ Like(f, d)
    BY <1>1, <1>2, <1>4, <2>3, <2>4, FailedLeaves
  <2> PICK r : r = Reopened(d, e)
    OBVIOUS
  <2>6. r \in Rows /\ HasFailed(r, Handlers!Done', e.saga, e.step)
    BY <1>1, <2>4, ReopenedIs, FailedAgain
  <2>7. r.step = Handlers!Done.step
    <3>1. r.step = Handlers!Saga!Mark(d.step, e.saga, e.step, "in_progress")
      BY <1>1, ReopenedIs
    <3>2. Handlers!Done.step = Handlers!Saga!Mark(shared.step, e.saga, e.step, "in_progress")
      BY <1>1, ReopenedIs
    <3> QED  BY <2>3, <3>1, <3>2
  <2>8. Handlers!Saga!Fail(Handlers!Done.step, x.saga, "validate_script")
    <3>1. Handlers!Saga!Fail(r.step, e.saga, e.step)
      BY <1>1, <2>6, FailIsSeen
    <3>2. Handlers!Saga!Fail(Handlers!Done.step, e.saga, e.step)
      BY <2>7, <3>1, FailsAlike
    <3> QED  BY <1>5, <3>2 DEF Handlers!Saga!Fail
  <2>9. Handlers!Saga!NothingSent
    BY <1>1, <1>7, <2>2, <2>3, <2>4, NothingIsSent DEF HasFailed
  <2>10. retries' = retries
    BY <1>8, <2>2
  <2>11. /\ Handlers!Done'.project.outline = x.script
         /\ UNCHANGED <<Handlers!Done.project.saga, Handlers!Done.project.config,
                        Handlers!Done.project.script, second, Handlers!Done.cancel, asked>>
    BY <1>9, <2>3, <2>5
  <2>12. Handlers!Saga!onScriptValidated(x)
    BY <1>7, <2>2, <2>8, <2>9, <2>10, <2>11 DEF Handlers!Saga!onScriptValidated
  <2> QED  BY <1>10, <2>2, <2>5, <2>12
<1>12. ASSUME NEW o \in Seq(HandlerCall), Uncancelled(o),
              q = <<Handlers!Save(p), Handlers!Save(p)>> \o o
       PROVE  /\ q \in Seq(HandlerCall) /\ Uncancelled(q)
              /\ \A s : Handlers!Dispatches(q, s) <=> Handlers!Dispatches(o, s)
              /\ \E d \in Rows :
                    /\ d.project = p /\ d.outbox = shared.outbox /\ d.step = shared.step
                    /\ d.cancel = shared.cancel
                    /\ Handlers!Done' = Handlers!Through(d, o)
  <2> PICK w : w = <<Handlers!Save(p), Handlers!Save(p)>> \o o
    OBVIOUS
  <2>3. shared \in Rows /\ p \in ProjectRow /\ o \in Seq(HandlerCall)
    BY <1>1, <1>4
  <2>4. /\ w \in Seq(HandlerCall) /\ (Uncancelled(w) <=> Uncancelled(o))
        /\ \A s : Handlers!Dispatches(w, s) <=> Handlers!Dispatches(o, s)
        /\ \E d \in Rows :
              /\ d.project = p /\ d.outbox = shared.outbox /\ d.step = shared.step
              /\ d.cancel = shared.cancel
              /\ Handlers!Through(shared, w) = Handlers!Through(d, o)
    <3>1. TwiceIsOnce(shared, p, o, w)
      BY <2>3, SavedTwice
    <3> QED  BY <3>1 DEF TwiceIsOnce
  <2>1. /\ q \in Seq(HandlerCall) /\ Uncancelled(q)
        /\ \A s : Handlers!Dispatches(q, s) <=> Handlers!Dispatches(o, s)
    BY <1>12, <2>4
  <2>2. \E d \in Rows :
           /\ d.project = p /\ d.outbox = shared.outbox /\ d.step = shared.step
           /\ d.cancel = shared.cancel
           /\ Handlers!Through(shared, q) = Handlers!Through(d, o)
    BY <1>12, <2>4
  <2> QED  BY <1>7, <2>1, <2>2
<1>13. CASE /\ shared.project.config.review
            /\ q = <<Handlers!Save(p), Handlers!Save(p)>>
                      \o <<Handlers!UpdateStatus("awaiting_review")>>
  <2> PICK a, o : a = Handlers!UpdateStatus("awaiting_review") /\ o = <<a>>
    OBVIOUS
  <2>1. "awaiting_review" \in Handlers!Statuses
    BY DEF Handlers!Statuses, Handlers!Resting
  <2>2. a \in HandlerCall /\ a.op = "UpdateStatus"
    BY <2>1, CallsAre DEF Handlers!UpdateStatus
  <2>3. /\ o \in Seq(HandlerCall) /\ Uncancelled(o)
        /\ ~Handlers!Dispatches(o, "synthesize_speech")
    BY <2>2 DEF Uncancelled, Handlers!Dispatches
  <2>4. /\ q \in Seq(HandlerCall) /\ Uncancelled(q)
        /\ ~Handlers!Dispatches(q, "synthesize_speech")
    BY <1>12, <1>13, <2>3
  <2>5. PICK d \in Rows :
           /\ d.project = p /\ d.outbox = shared.outbox /\ d.step = shared.step
           /\ d.cancel = shared.cancel /\ Handlers!Done' = Handlers!Through(d, o)
    BY <1>12, <1>13, <2>3
  <2> PICK f : f = Handlers!Do(d, a)
    OBVIOUS
  <2>6. /\ f \in Rows /\ f.project = [d.project EXCEPT !.status = "awaiting_review"]
        /\ f.outbox = d.outbox /\ f.step = d.step /\ f.cancel = d.cancel
    BY <2>1, StatusWritten
  <2>7. Handlers!Done' = f
    BY <2>2, <2>5, OneStored
  <2>8. Leaves(f, sagas) /\ Like(f, d) /\ f.project.status = "awaiting_review"
    <3>1. /\ f.project.saga = p.saga /\ f.project.config = p.config
          /\ f.project.script = p.script /\ f.project.outline = p.outline
          /\ f.project.status = "awaiting_review"
      BY <1>4, <2>5, <2>6 DEF ProjectRow
    <3> QED  BY <1>1, <1>2, <1>4, <2>5, <2>6, <3>1 DEF Leaves, Like
  <2>9. Handlers!Done'.step = Handlers!Saga!Completed(x)
    BY <1>6, <2>5, <2>6, <2>7
  <2>10. Handlers!Saga!NothingSent
    BY <1>1, <1>7, <2>4, <2>5, <2>6, <2>7, NothingIsSent
  <2>11. retries' = retries
    BY <1>8, <2>4
  <2>12. /\ Handlers!Done'.project.outline = x.script
         /\ UNCHANGED <<Handlers!Done.project.saga, Handlers!Done.project.config,
                        Handlers!Done.project.script, second, Handlers!Done.cancel, asked>>
    BY <1>9, <2>5, <2>7, <2>8
  <2>13. Handlers!Saga!onScriptValidated(x)
    BY <1>1, <1>7, <1>13, <2>4, <2>7, <2>8, <2>9, <2>10, <2>11, <2>12
       DEF Handlers!Saga!onScriptValidated
  <2> QED  BY <1>10, <2>4, <2>7, <2>8, <2>13
<1>14. ASSUME ~shared.project.config.review, NEW o \in Handlers!AfterValidation(e.saga, p),
              q = <<Handlers!Save(p), Handlers!Save(p)>> \o o
       PROVE  Smooth' /\ Handlers!Saga!Next
  <2> PICK h : h = [shared EXCEPT !.project = p]
    OBVIOUS
  <2>1. h \in Rows /\ h.project = p
    <3>1. h = Handlers!Do(shared, Handlers!Save(p))
      BY DEF Handlers!Do, Handlers!Save
    <3> QED  BY <1>1, <1>4, <3>1, RowSaved
  <2>2. /\ o \in Seq(HandlerCall) /\ Uncancelled(o)
        /\ Handlers!Dispatches(o, "synthesize_speech") <=> p.config.tts
    <3>1. o \in Handlers!AfterValidation(e.saga, h.project)
      BY <1>14, <2>1
    <3> QED  BY <1>1, <2>1, <3>1, ValidatedNext
  <2>3. /\ q \in Seq(HandlerCall) /\ Uncancelled(q)
        /\ Handlers!Dispatches(q, "synthesize_speech") <=> p.config.tts
    BY <1>12, <1>14, <2>2
  <2>4. PICK d \in Rows :
           /\ d.project = p /\ d.outbox = shared.outbox /\ d.step = shared.step
           /\ d.cancel = shared.cancel /\ Handlers!Done' = Handlers!Through(d, o)
    BY <1>12, <1>14, <2>2
  <2>5. Validated(d, Handlers!Done', e.saga)
    <3>1. o \in Handlers!AfterValidation(e.saga, d.project)
      BY <1>14, <2>4
    <3>2. Validated(d, Handlers!Through(d, o), e.saga)
      BY <1>1, <3>1, ValidatedNext
    <3> QED  BY <2>4, <3>2
  <2>6. /\ Handlers!Saga!AfterValidation(d.step, e.saga)
        /\ Leaves(Handlers!Done', sagas) /\ Like(Handlers!Done', d)
    <3>1. retries' = IF d.project.config.tts THEN [retries EXCEPT ![e.saga] = 0] ELSE retries
      BY <1>8, <2>3, <2>4
    <3>2. /\ d.project.saga = sagas /\ d.project.config = Handlers!Done.project.config
          /\ d.outbox = Handlers!Done.outbox /\ \A c \in d.outbox : c.saga \in 1 .. sagas
          /\ Handlers!Gone' = Handlers!Gone
      BY <1>1, <1>2, <1>4, <1>7, <2>3, <2>4
    <3> QED  BY <1>1, <2>5, <3>1, <3>2, ValidatedSeen
  <2>7. Handlers!Saga!AfterValidation(Handlers!Saga!Completed(x), x.saga)
    <3>1. d.step = Handlers!Saga!Completed(x)
      BY <1>6, <2>4
    <3> PICK rows : rows = Handlers!Saga!Completed(x)
      OBVIOUS
    <3>3. Handlers!Saga!AfterValidation(rows, e.saga)
      BY <2>6, <3>1, ValidatedAlike
    <3>2. Handlers!Saga!AfterValidation(Handlers!Saga!Completed(x), e.saga)
      BY <3>3
         DEF Handlers!Saga!AfterValidation, Handlers!Saga!startSynthesizeSpeech,
             Handlers!Saga!skipSynthesizeSpeech, Handlers!Saga!startRenderScenes,
             Handlers!Saga!Open, Handlers!Saga!Fail, Handlers!Saga!Mark
    <3> QED  BY <1>5, <3>2
             DEF Handlers!Saga!AfterValidation, Handlers!Saga!startSynthesizeSpeech,
                 Handlers!Saga!skipSynthesizeSpeech, Handlers!Saga!startRenderScenes,
                 Handlers!Saga!Open, Handlers!Saga!Fail, Handlers!Saga!Mark
  <2>8. /\ Handlers!Done'.project.outline = x.script
        /\ UNCHANGED <<Handlers!Done.project.saga, Handlers!Done.project.config,
                       Handlers!Done.project.script, second, Handlers!Done.cancel, asked>>
    BY <1>9, <2>4, <2>6
  <2>9. Handlers!Saga!onScriptValidated(x)
    BY <1>1, <1>7, <1>14, <2>3, <2>7, <2>8 DEF Handlers!Saga!onScriptValidated
  <2> QED  BY <1>10, <2>3, <2>6, <2>9
<1>15. p.config.review = shared.project.config.review
  BY <1>4
<1> QED
  <2>1. q \in Handlers!onScriptValidated(e, shared.project)
    BY DEF Handlers!handleSuccess
  <2>2. \/ q = <<Handlers!Save(p)>> \o Handlers!Failing(e.saga, "validate_script")
        \/ \E o \in IF shared.project.config.review
                    THEN {<<Handlers!UpdateStatus("awaiting_review")>>}
                    ELSE Handlers!AfterValidation(e.saga, p) :
              q = <<Handlers!Save(p), Handlers!Save(p)>> \o o
    BY <2>1 DEF Handlers!onScriptValidated
  <2> QED  BY <1>11, <1>13, <1>14, <2>2

\* Whatever step succeeded, its handler's decision is the action of RenderSaga.
LEMMA DecideSeen ==
    ASSUME NEW u, Threads = {u}, HandlersKept, Smooth, Handlers!Decide(u)
    PROVE  Smooth' /\ Handlers!Saga!Next
<1> PICK e : e = job[u].msg
  OBVIOUS
<1>1. PICK q \in Handlers!handleSuccess(e, shared.project) :
         /\ job' = [job EXCEPT ![u].todo = q, ![u].deciding = FALSE]
         /\ retries' = IF e.step = "synthesize_speech"
                             \/ Handlers!Dispatches(q, "synthesize_speech")
                       THEN [retries EXCEPT ![e.saga] = 0] ELSE retries
  BY DEF Handlers!Decide, Handlers!project
<1>2. Decides(u, q)
  BY <1>1 DEF Handlers!Decide, Decides
<1>3. e.step \in Handlers!Steps
  BY <1>2, BeforeDecision DEF Decides
<1>4. CASE e.step = "validate_script"
  BY <1>1, <1>2, <1>4, ScriptValidatedSeen
<1>5. CASE e.step = "synthesize_speech"
  BY <1>1, <1>2, <1>5, SynthesizedSeen
<1>6. CASE e.step = "render_scenes"
  BY <1>1, <1>2, <1>6, RenderedSeen
<1>7. CASE e.step \in {"assemble_video", "publish_video"}
  BY <1>1, <1>2, <1>7, EndSeen
<1> QED  BY <1>3, <1>4, <1>5, <1>6, <1>7 DEF Handlers!Steps, Handlers!RenderSteps

\* The clock moves past a cancel while no handler is at work.
LEMMA TickSeen ==
    ASSUME NEW u, Threads = {u}, HandlersKept, Smooth, Handlers!Tick
    PROVE  Smooth' /\ Handlers!Saga!Next
<1>1. /\ second = shared.cancel.second /\ second' = second + 1 /\ second \in Nat
      /\ job[u] = Handlers!Idle
      /\ UNCHANGED <<shared, disposed, dead, deliveries, retries, job, sagas, asked>>
  BY DEF Handlers!Tick, Handlers!AtRest, HandlersKept, SharedKept
<1>2. Handlers!Done = shared /\ Handlers!Done' = shared
  BY <1>1, NothingStored, StoredIs DEF Handlers!Idle, Smooth, DoneKept
<1>3. Handlers!Gone' = Handlers!Gone /\ Handlers!Heard' = Handlers!Heard
  BY <1>1, HeardIs
<1>4. SeenEvents' = SeenEvents
  BY <1>1, <1>3 DEF SeenEvents
<1>5. MessagesKept'
  BY <1>1 DEF Smooth, MessagesKept, Known
<1>6. DoneKept'
  BY <1>1, <1>2 DEF Smooth, DoneKept
<1>7. JobFits(job[u])'
  <2> PICK j : j = job[u]
    OBVIOUS
  <2>1. JobFits(j) /\ j.for = "nobody" /\ j.msg = Handlers!NoMessage /\ j.todo = <<>>
        /\ ~j.deciding /\ job'[u] = j
    BY <1>1 DEF Smooth, Handlers!Idle
  <2>2. Handlers!Outstanding' = Handlers!Outstanding
    BY <1>1 DEF Handlers!Outstanding
  <2>3. JobFits(j)'
    BY <1>1, <2>1, <2>2 DEF JobFits, Uncancelled
  <2> QED  BY <2>1, <2>3
<1>8. Smooth'
  BY <1>5, <1>6, <1>7 DEF Smooth
<1>9. Handlers!Saga!Tick
  BY <1>1, <1>2, <1>3, <1>4
     DEF Handlers!Saga!Tick, Handlers!Saga!row, SeenEvents, Seen
<1> QED  BY <1>8, <1>9 DEF Handlers!Saga!Next

\* A step that changes nothing.
LEMMA StillSeen ==
    ASSUME NEW u, Threads = {u}, Smooth, UNCHANGED Handlers!vars
    PROVE  Smooth' /\ UNCHANGED Handlers!Saga!vars
<1>1. UNCHANGED <<shared, disposed, dead, deliveries, retries, job, sagas, second, asked>>
  BY DEF Handlers!vars
<1>2. /\ Handlers!Done' = Handlers!Done /\ Handlers!Heard' = Handlers!Heard
      /\ Handlers!Gone' = Handlers!Gone
  BY <1>1 DEF Handlers!Done, Handlers!Heard, Handlers!Gone, Handlers!Undecided,
              Handlers!Through, Handlers!Do
<1>3. SeenEvents' = SeenEvents
  BY <1>1, <1>2 DEF SeenEvents
<1>4. Handlers!Outstanding' = Handlers!Outstanding
  BY <1>1 DEF Handlers!Outstanding
<1>5. MessagesKept' /\ DoneKept'
  BY <1>1, <1>2 DEF Smooth, MessagesKept, Known, DoneKept
<1>6. \A t \in Threads : JobFits(job[t])'
  BY <1>1, <1>4 DEF Smooth, JobFits
<1> QED  BY <1>1, <1>2, <1>3, <1>5, <1>6, SameSeen DEF Smooth

\* What there is at the start.
LEMMA SeenBegins ==
    ASSUME NEW u, Threads = {u}, Handlers!Init
    PROVE  HandlersKept /\ faults \in Nat /\ Smooth /\ Handlers!Saga!Init
<1>1. HandlersKept
  BY HandlersBegin
<1>2. /\ shared = [project |-> [status |-> "draft", saga |-> 0, script |-> 0, outline |-> 0,
                                config |-> [review |-> TRUE, tts |-> TRUE]],
                   step    |-> [g \in Handlers!Sagas |-> [s \in Handlers!Steps |-> "none"]],
                   outbox  |-> {},
                   cancel  |-> [second |-> 0, sent |-> 0]]
      /\ disposed = {} /\ dead = {} /\ deliveries = {}
      /\ retries = [g \in Handlers!Sagas |-> 0]
      /\ job[u] = Handlers!Idle
      /\ sagas = 0 /\ second = 1 /\ asked = 0 /\ faults = 0
  BY DEF Handlers!Init, Handlers!NoStamp
<1>3. /\ shared.project.status = "draft" /\ shared.project.saga = 0
      /\ shared.project.script = 0 /\ shared.project.outline = 0
      /\ shared.project.config = [review |-> TRUE, tts |-> TRUE]
      /\ shared.step = [g \in Handlers!Sagas |-> [s \in Handlers!Steps |-> "none"]]
      /\ shared.outbox = {} /\ shared.cancel = [second |-> 0, sent |-> 0]
  BY <1>2
<1>4. shared \in Rows
  BY <1>1, <1>3 DEF HandlersKept, SharedKept, Rows
<1>5. ~Handlers!Idle.deciding /\ Handlers!Idle.todo = <<>> /\ Handlers!Idle.for = "nobody"
      /\ Handlers!Idle.msg = Handlers!NoMessage
  BY DEF Handlers!Idle
<1>6. Handlers!Done = shared
  BY <1>2, <1>4, <1>5, StoredIs, NothingStored
<1>7. Handlers!Gone = {} /\ Handlers!Heard = {}
  BY <1>2, <1>5, HeardIs DEF GoneOf, HeardOf
<1>8. MessagesKept
  BY <1>2 DEF MessagesKept
<1>9. MaxHandled \in Nat
  BY HandlersAssumption DEF Handlers!CountsAssumption
<1>10. DoneKept
  BY <1>2, <1>3, <1>4, <1>6, <1>9 DEF DoneKept
<1>11. JobFits(Handlers!Idle)
  BY <1>2, <1>5 DEF JobFits, Uncancelled
<1>12. Smooth
  BY <1>2, <1>8, <1>10, <1>11 DEF Smooth
<1>13. Handlers!Cardinality({}) = 0
  BY FS_EmptySet, HandlersCount
<1>14. Handlers!Saga!Init
  BY <1>2, <1>3, <1>6, <1>7, <1>13, SameTables DEF Handlers!Saga!Init, Handlers!Saga!NoStamp
<1> QED  BY <1>1, <1>2, <1>12, <1>14

\* The invariant: until the first fault, what is said of a goroutine on its own.
InStep == HandlersKept /\ faults \in Nat /\ (faults = 0 => Smooth)

\* Every step is a fault, which is counted, or a step of RenderSaga or of nothing.
LEMMA StepSeen ==
    ASSUME NEW u, Threads = {u}, InStep, [Handlers!Next]_(Handlers!vars)
    PROVE  /\ InStep'
           /\ (faults' = 0 => Handlers!Saga!Next) \/ UNCHANGED Handlers!Saga!vars
<1>1. HandlersKept'
  BY HandlersStep DEF InStep
<1>2. CASE Handlers!CallFails(u) \/ Handlers!Crash
  <2>1. faults' = faults + 1
    BY <1>2 DEF Handlers!CallFails, Handlers!Crash, Handlers!Fault
  <2> QED  BY <1>1, <2>1 DEF InStep
<1>3. CASE ~(Handlers!CallFails(u) \/ Handlers!Crash)
  <2>1. faults' = faults
    <3>1. ASSUME Handlers!Creator(u) PROVE faults' = faults
      <4>1. \E q : Handlers!Request(u, q)
        BY <3>1 DEF Handlers!Creator, Handlers!StartRender, Handlers!StartPublish,
                    Handlers!RetryStep, Handlers!CancelStep, Handlers!Approve,
                    Handlers!EditNarration, Handlers!Reject
      <4> QED  BY <4>1 DEF Handlers!Request
    <3>2. ASSUME Handlers!Delivery(u) PROVE faults' = faults
      <4>1. ASSUME NEW who, NEW m, Handlers!DeadLetter(u, who, m) PROVE faults' = faults
        BY <4>1 DEF Handlers!DeadLetter
      <4>2. ASSUME NEW m, NEW q, NEW d, Handlers!Delivered(u, m, q, d) PROVE faults' = faults
        BY <4>2 DEF Handlers!Delivered
      <4> QED  BY <3>2, <4>1, <4>2
                  DEF Handlers!Delivery, Handlers!handleDLQDelivery,
                      Handlers!handleEventsDLQDelivery, Handlers!SkipEvent,
                      Handlers!handleFailure, Handlers!retryTransientSynthesisFailure,
                      Handlers!CompleteStep
    <3>3. Handlers!AtWork(u) \/ Handlers!Worker \/ Handlers!Tick => faults' = faults
      BY DEF Handlers!AtWork, Handlers!Call, Handlers!Decide, Handlers!Finish,
             Handlers!Worker, Handlers!Answer, Handlers!DropCancelled, Handlers!Tick
    <3> QED  BY <1>3, <3>1, <3>2, <3>3 DEF Handlers!Next, Handlers!vars
  <2>2. ASSUME faults = 0
        PROVE  Smooth' /\ (Handlers!Saga!Next \/ UNCHANGED Handlers!Saga!vars)
    <3>1. HandlersKept /\ Smooth /\ faults \in Nat
      BY <2>2 DEF InStep
    <3>2. \/ Handlers!Creator(u) \/ Handlers!Delivery(u) \/ Handlers!AtWork(u)
          \/ Handlers!Worker \/ Handlers!Tick \/ UNCHANGED Handlers!vars
      BY <1>3 DEF Handlers!Next
    <3>3. CASE Handlers!AtWork(u)
      BY <3>1, <3>3, CallSeen, DecideSeen, FinishSeen DEF Handlers!AtWork
    <3> QED  BY <3>1, <3>2, <3>3, CreatorSeen, DeliverySeen, WorkerSeen, TickSeen, StillSeen
  <2> QED  BY <1>1, <2>1, <2>2 DEF InStep
<1> QED  BY <1>2, <1>3

\* As long as handlers do not overlap and nothing has failed yet, what they do call by
\* call is what RenderSaga says of a handler at once, whatever the workers answer in
\* between (ImplementsRenderSaga; handle_step_event.go, start_render_saga.go and the
\* other handlers of the application package).
THEOREM ImplementsRenderSagaAlways ==
    ASSUME \E u : Threads = {u}
    PROVE  Handlers!Spec => ImplementsRenderSaga
<1> PICK u : Threads = {u}
  OBVIOUS
<1>1. Handlers!Init => InStep /\ Handlers!Saga!Init
  BY SeenBegins DEF InStep
<1>2. InStep /\ [Handlers!Next]_(Handlers!vars)
         => InStep' /\ [faults' = 0 => Handlers!Saga!Next]_(Handlers!Saga!vars)
  BY StepSeen
<1> QED  BY <1>1, <1>2, PTL DEF Handlers!Spec, ImplementsRenderSaga, Handlers!ImplementsRenderSaga
=============================================================================
