---------------------------- MODULE CaptureProofs ----------------------------
(***************************************************************************)
(* Proofs about packet capture, for any number of connections, any size of *)
(* the channel and any limit of requests per file, with and without file   *)
(* errors: what is on file is in the order it was sent in, and a file ends *)
(* only with a response, after its requests.                               *)
(***************************************************************************)
EXTENDS Capture, SequenceLemmas, FiniteSetTheorems

Event == [dir : {"req", "resp"}, n : Nat]

CaptureType ==
  /\ sent \in Nat /\ request_count \in Nat
  /\ queue \in Seq(Event) /\ buffer \in Seq(Event) /\ files \in Seq(Seq(Event))
  /\ writer \in BOOLEAN /\ fault \in BOOLEAN

\* There is something in the BufWriter only while there is a file for it.
WriterHasFile == IF writer THEN files # <<>> ELSE buffer = <<>>

\* Events are numbered in the order they come in, up to n.
UpTo(s, n) == \A i \in 1..Len(s) : s[i].n <= n
Increasing(s) == \A i, j \in 1..Len(s) : i < j => s[i].n < s[j].n
Precedes(s, t) == \A i \in 1..Len(s), j \in 1..Len(t) : s[i].n < t[j].n

\* What is recorded, then what is on its way.
InOrder ==
  /\ Increasing(Recorded) /\ Increasing(queue) /\ Precedes(Recorded, queue)
  /\ UpTo(Recorded, sent) /\ UpTo(queue, sent)
  /\ ~fault => Len(Recorded) + Len(queue) = sent

\* What the file that is open will hold when the BufWriter is flushed.
Current == IF writer THEN files[Len(files)] \o buffer ELSE <<>>

CaptureInv ==
  /\ CaptureType /\ WriterHasFile /\ InOrder
  /\ RotationBoundary /\ request_count <= Requests(Current)

-----------------------------------------------------------------------------
(* Adding an event at the end *)

\* A sequence of events and one more.
LEMMA AddEvent ==
  ASSUME NEW s \in Seq(Event), NEW e \in Event
  PROVE  /\ s \o <<e>> \in Seq(Event) /\ Len(s \o <<e>>) = Len(s) + 1
         /\ \A i \in 1..Len(s) : (s \o <<e>>)[i] = s[i]
         /\ (s \o <<e>>)[Len(s) + 1] = e
OBVIOUS

\* The order of what is recorded when an event is added.
LEMMA OrderAdd ==
  ASSUME NEW s \in Seq(Event), NEW e \in Event, NEW n \in Nat, Increasing(s), UpTo(s, n),
         \A i \in 1..Len(s) : s[i].n < e.n, e.n <= n
  PROVE  Increasing(s \o <<e>>) /\ UpTo(s \o <<e>>, n)
<1> DEFINE t == s \o <<e>>
<1>1. /\ Len(t) = Len(s) + 1 /\ Len(s) \in Nat
      /\ \A i \in 1..Len(s) : t[i] = s[i]
      /\ t[Len(s) + 1] = e
  BY AddEvent
<1> HIDE DEF t
<1>2. \A i \in 1..Len(t) : i \in 1..Len(s) \/ i = Len(s) + 1 BY <1>1
<1>3. UpTo(t, n) BY <1>1, <1>2 DEF UpTo
<1>4. Increasing(t)
  <2> SUFFICES ASSUME NEW i \in 1..Len(t), NEW j \in 1..Len(t), i < j PROVE t[i].n < t[j].n
    BY DEF Increasing
  <2>1. i \in 1..Len(s) BY <1>1
  <2>2. CASE j \in 1..Len(s) BY <1>1, <2>1, <2>2 DEF Increasing
  <2>3. CASE j = Len(s) + 1 BY <1>1, <2>1, <2>3
  <2> QED BY <1>2, <2>2, <2>3
<1> QED BY <1>3, <1>4 DEF t

\* Where the requests of a sequence of events are.
RequestPlaces(s) == {i \in 1..Len(s) : s[i].dir = "req"}

\* They can be counted.
LEMMA RequestsType ==
  ASSUME NEW s \in Seq(Event)
  PROVE  IsFiniteSet(RequestPlaces(s)) /\ Requests(s) = Cardinality(RequestPlaces(s)) /\ Requests(s) \in Nat
<1>1. Len(s) \in Nat OBVIOUS
<1>2. 1 \in Int /\ Len(s) \in Int BY <1>1
<1>3. IsFiniteSet(1..Len(s)) BY <1>2, FS_Interval
<1>4. RequestPlaces(s) \in SUBSET (1..Len(s)) BY DEF RequestPlaces
<1>5. IsFiniteSet(RequestPlaces(s)) BY <1>3, <1>4, FS_Subset
<1>6. Requests(s) = Cardinality(RequestPlaces(s)) BY DEF Requests, RequestPlaces
<1> QED BY <1>5, <1>6, FS_CardinalityType

\* They are counted one by one.
LEMMA RequestsAdd ==
  ASSUME NEW s \in Seq(Event), NEW e \in Event
  PROVE  Requests(s \o <<e>>) = Requests(s) + (IF e.dir = "req" THEN 1 ELSE 0)
<1> DEFINE t == s \o <<e>>
<1>1. /\ t \in Seq(Event) /\ Len(t) = Len(s) + 1 /\ Len(s) \in Nat
      /\ \A i \in 1..Len(s) : t[i] = s[i]
      /\ t[Len(s) + 1] = e
  BY AddEvent
<1> HIDE DEF t
<1>2. Requests(t) = Cardinality(RequestPlaces(t)) BY <1>1, RequestsType
<1>3. /\ Requests(s) = Cardinality(RequestPlaces(s)) /\ Requests(s) \in Nat
      /\ IsFiniteSet(RequestPlaces(s))
  BY RequestsType
<1>6. CASE e.dir = "req"
  <2>1. \A i : i \in RequestPlaces(t) <=> i \in RequestPlaces(s) \/ i = Len(s) + 1
    BY <1>1, <1>6 DEF RequestPlaces
  <2>2. RequestPlaces(t) = RequestPlaces(s) \cup {Len(s) + 1} BY <2>1
  <2>3. Len(s) + 1 \notin RequestPlaces(s) BY <1>1 DEF RequestPlaces
  <2>4. Cardinality(RequestPlaces(s) \cup {Len(s) + 1}) = Cardinality(RequestPlaces(s)) + 1
    BY <1>3, <2>3, FS_AddElement
  <2>5. Requests(t) = Requests(s) + 1 BY <1>2, <1>3, <2>2, <2>4
  <2> QED BY <1>6, <2>5 DEF t
<1>7. CASE e.dir # "req"
  <2>1. \A i : i \in RequestPlaces(t) <=> i \in RequestPlaces(s)
    BY <1>1, <1>7 DEF RequestPlaces
  <2>2. RequestPlaces(t) = RequestPlaces(s) BY <2>1
  <2>3. Requests(t) = Requests(s) BY <1>2, <1>3, <2>2
  <2>4. Requests(t) = Requests(s) + 0 BY <1>3, <2>3
  <2> QED BY <1>7, <2>4 DEF t
<1> QED BY <1>6, <1>7

\* There are none in an empty sequence.
LEMMA RequestsEmpty == Requests(<<>>) = 0
<1>1. {i \in 1..Len(<<>>) : <<>>[i].dir = "req"} = {} OBVIOUS
<1> QED BY <1>1, FS_EmptySet DEF Requests

-----------------------------------------------------------------------------
(* The file that is written to *)

\* The file for the next event: what was in the files is still in them, and the
\* files before it were ended.
LEMMA OpenedFacts ==
  ASSUME CaptureType, WriterHasFile
  PROVE  /\ Opened \in Seq(Seq(Event)) /\ Len(Opened) \in Nat \ {0}
         /\ FlattenSeq(Opened) = FlattenSeq(files)
         /\ Opened[Len(Opened)] \in Seq(Event)
         /\ Current \in Seq(Event)
         /\ Opened[Len(Opened)] \o buffer = Current
         /\ ~writer => Opened[Len(Opened)] = <<>> /\ buffer = <<>>
         /\ \A i \in 1..(Len(Opened) - 1) :
               i \in 1..Len(files) /\ Opened[i] = files[i] /\ (i < Len(files) \/ ~writer)
<1>1. CASE writer
  <2>1. Opened = files /\ files # <<>> /\ files \in Seq(Seq(Event)) /\ buffer \in Seq(Event)
    BY <1>1 DEF Opened, WriterHasFile, CaptureType
  <2>2. Len(files) \in Nat \ {0} /\ files[Len(files)] \in Seq(Event) BY <2>1
  <2>3. Current = files[Len(files)] \o buffer BY <1>1 DEF Current
  <2>4. Current \in Seq(Event) BY <2>1, <2>2, <2>3
  <2>5. \A i \in 1..(Len(files) - 1) : i \in 1..Len(files) /\ i < Len(files) BY <2>2
  <2> QED BY <1>1, <2>1, <2>2, <2>3, <2>4, <2>5
<1>2. CASE ~writer
  <2>1. Opened = Append(files, <<>>) /\ buffer = <<>> /\ files \in Seq(Seq(Event)) /\ Current = <<>>
    BY <1>2 DEF Opened, WriterHasFile, CaptureType, Current
  <2>2. <<>> \in Seq(Event) OBVIOUS
  <2>3. /\ Opened \in Seq(Seq(Event)) /\ Len(Opened) = Len(files) + 1 /\ Len(files) \in Nat
        /\ Opened[Len(files) + 1] = <<>>
        /\ \A i \in 1..Len(files) : Opened[i] = files[i]
    BY <2>1, <2>2
  <2>4. FlattenSeq(Opened) = FlattenSeq(files) \o <<>> BY <2>1, <2>2, FlattenAppend
  <2>5. FlattenSeq(files) \in Seq(Event) BY <2>1, FlattenType
  <2>6. FlattenSeq(Opened) = FlattenSeq(files) BY <2>4, <2>5
  <2>7. <<>> \o <<>> = <<>> OBVIOUS
  <2>8. \A i \in 1..(Len(Opened) - 1) : i \in 1..Len(files) BY <2>3
  <2>9. Len(Opened) \in Nat \ {0} /\ Opened[Len(Opened)] = <<>> BY <2>3
  <2> QED BY <1>2, <2>1, <2>2, <2>3, <2>6, <2>7, <2>8, <2>9
<1> QED BY <1>1, <1>2

\* What is recorded is a sequence of events.
LEMMA RecordedType ==
  ASSUME CaptureType
  PROVE  FlattenSeq(files) \in Seq(Event) /\ Recorded \in Seq(Event)
<1>1. FlattenSeq(files) \in Seq(Event) BY FlattenType DEF CaptureType
<1> QED BY <1>1 DEF Recorded, CaptureType

\* A flush puts what is buffered and x at the end of what is recorded, and at
\* the end of the current file.
LEMMA AddToFacts ==
  ASSUME CaptureType, WriterHasFile, NEW x \in Seq(Event)
  PROVE  /\ AddTo(x) \in Seq(Seq(Event)) /\ Len(AddTo(x)) = Len(Opened)
         /\ FlattenSeq(AddTo(x)) = Recorded \o x
         /\ AddTo(x)[Len(Opened)] = Current \o x
         /\ \A i \in 1..(Len(Opened) - 1) : AddTo(x)[i] = Opened[i]
<1> DEFINE o == Opened
           n == Len(o)
           y == o[n]
           z == buffer \o x
<1>1. o \in Seq(Seq(Event)) /\ n \in Nat \ {0} /\ y \in Seq(Event) /\ FlattenSeq(o) = FlattenSeq(files)
  BY OpenedFacts
<1>2. y \o buffer = Current BY OpenedFacts
<1>3. buffer \in Seq(Event) BY DEF CaptureType
<1>4. z \in Seq(Event) BY <1>3
<1>5. (y \o buffer) \o x = y \o z
  <2>1. \A r, s, t \in Seq(Event) : r \o (s \o t) = (r \o s) \o t BY CatAssociative, SMTT(30)
  <2>2. y \in Seq(Event) BY <1>1
  <2> HIDE DEF y
  <2>3. y \o (buffer \o x) = (y \o buffer) \o x BY <1>3, <2>1, <2>2, Zenon
  <2> QED BY <2>3, Zenon
<1>6. AddTo(x) = [o EXCEPT ![n] = (y \o buffer) \o x] BY DEF AddTo
<1>7. AddTo(x) = [o EXCEPT ![n] = y \o z] BY <1>5, <1>6
<1>8. [o EXCEPT ![n] = y \o z] = [o EXCEPT ![n] = @ \o z] OBVIOUS
<1>9. y \o z \in Seq(Event) BY <1>1, <1>4
<1> HIDE DEF o, z
<1>10. o # <<>> BY <1>1
<1>11. FlattenSeq(AddTo(x)) = FlattenSeq(o) \o z
  BY <1>1, <1>4, <1>7, <1>8, <1>10, FlattenExtend
<1>12. FlattenSeq(files) \in Seq(Event) BY RecordedType
<1>13. FlattenSeq(files) \o z = (FlattenSeq(files) \o buffer) \o x
  BY <1>3, <1>12, CatAssociative DEF z
<1>14. FlattenSeq(AddTo(x)) = Recorded \o x BY <1>1, <1>11, <1>13 DEF Recorded
<1>15. y \o z = Current \o x BY <1>2, <1>5
<1> DEFINE w == y \o z
<1>16. w \in Seq(Event) /\ AddTo(x) = [o EXCEPT ![n] = w] /\ w = Current \o x BY <1>7, <1>9, <1>15
<1> HIDE DEF w, y
<1>17. /\ AddTo(x) \in Seq(Seq(Event)) /\ Len(AddTo(x)) = n
       /\ AddTo(x)[n] = w
       /\ \A i \in 1..(n - 1) : AddTo(x)[i] = o[i]
  BY <1>1, <1>16
<1> QED BY <1>14, <1>16, <1>17 DEF o

-----------------------------------------------------------------------------
(* Steps and the parts of the invariant *)

\* Ended files stay as they are; the one that is written to is open after the
\* step, or empty, or full and ended by a response.
LEMMA BoundaryStep ==
  ASSUME CaptureInv, Len(files') = Len(Opened),
         \A i \in 1..(Len(Opened) - 1) : files'[i] = Opened[i],
         \/ writer'
         \/ files'[Len(Opened)] = <<>>
         \/ Requests(files'[Len(Opened)]) >= RotateAt /\ Last(files'[Len(Opened)]).dir = "resp"
  PROVE  RotationBoundary'
<1>1. /\ Len(Opened) \in Nat \ {0}
      /\ \A i \in 1..(Len(Opened) - 1) :
            i \in 1..Len(files) /\ Opened[i] = files[i] /\ (i < Len(files) \/ ~writer)
  BY OpenedFacts DEF CaptureInv
<1>2. SUFFICES ASSUME NEW i \in 1..Len(files'), files'[i] # <<>>, i < Len(files') \/ ~writer'
               PROVE  Requests(files'[i]) >= RotateAt /\ Last(files'[i]).dir = "resp"
  BY DEF RotationBoundary
<1>3. CASE i < Len(Opened)
  <2>1. i \in 1..(Len(Opened) - 1) BY <1>1, <1>2, <1>3
  <2>2. i \in 1..Len(files) /\ files'[i] = files[i] /\ (i < Len(files) \/ ~writer) BY <1>1, <2>1
  <2> QED BY <1>2, <2>2 DEF CaptureInv, RotationBoundary
<1>4. CASE i = Len(Opened) BY <1>1, <1>2, <1>4
<1> QED BY <1>1, <1>2, <1>3, <1>4

\* The next event of the channel is recorded.
LEMMA OrderRecord ==
  ASSUME CaptureType, InOrder, queue # <<>>, queue' = Tail(queue), sent' = sent,
         Recorded' = Recorded \o <<Head(queue)>>, fault' = fault \/ fault'
  PROVE  InOrder'
<1> DEFINE s == Recorded
           e == Head(queue)
           r == Tail(queue)
<1>1. s \in Seq(Event) /\ queue \in Seq(Event) /\ sent \in Nat BY RecordedType DEF CaptureType
<1>2. /\ e \in Event /\ e = queue[1] /\ 1 \in 1..Len(queue)
      /\ r \in Seq(Event) /\ Len(queue) \in Nat \ {0} /\ Len(r) = Len(queue) - 1
      /\ \A i \in 1..Len(r) : r[i] = queue[i + 1] /\ i + 1 \in 1..Len(queue)
  BY <1>1
<1>3. /\ Increasing(s) /\ Increasing(queue) /\ Precedes(s, queue) /\ UpTo(s, sent) /\ UpTo(queue, sent)
      /\ ~fault => Len(s) + Len(queue) = sent
  BY DEF InOrder
<1>4. /\ Len(s \o <<e>>) = Len(s) + 1 /\ Len(s) \in Nat
      /\ \A i \in 1..Len(s) : (s \o <<e>>)[i] = s[i]
      /\ (s \o <<e>>)[Len(s) + 1] = e
  BY <1>1, <1>2, AddEvent
<1> DEFINE t == s \o <<e>>
<1> HIDE DEF s, e, r
<1>5. (\A i \in 1..Len(s) : s[i].n < e.n) /\ e.n <= sent
  BY <1>2, <1>3 DEF Precedes, UpTo
<1>6. Increasing(t) /\ UpTo(t, sent) BY <1>1, <1>2, <1>3, <1>5, OrderAdd
<1> HIDE DEF t
<1>7. Increasing(r)
  <2> SUFFICES ASSUME NEW i \in 1..Len(r), NEW j \in 1..Len(r), i < j PROVE r[i].n < r[j].n
    BY DEF Increasing
  <2>1. i + 1 < j + 1 BY <1>2
  <2> QED BY <1>2, <1>3, <2>1 DEF Increasing
<1>8. UpTo(r, sent) BY <1>2, <1>3 DEF UpTo
<1>9. Precedes(t, r)
  <2> SUFFICES ASSUME NEW i \in 1..Len(t), NEW j \in 1..Len(r) PROVE t[i].n < r[j].n
    BY DEF Precedes
  <2>1. r[j] = queue[j + 1] /\ j + 1 \in 1..Len(queue) /\ 1 < j + 1 BY <1>2
  <2>2. CASE i \in 1..Len(s)
    <3>1. t[i] = s[i] BY <1>4, <2>2 DEF t
    <3> QED BY <1>3, <2>1, <2>2, <3>1 DEF Precedes
  <2>3. CASE i = Len(s) + 1
    <3>1. t[i] = queue[1] BY <1>2, <1>4, <2>3 DEF t
    <3> QED BY <1>2, <1>3, <2>1, <3>1 DEF Increasing
  <2>4. i \in 1..Len(s) \/ i = Len(s) + 1 BY <1>4 DEF t
  <2> QED BY <2>2, <2>3, <2>4
<1>10. ~fault' => Len(t) + Len(r) = sent BY <1>2, <1>3, <1>4 DEF t
<1>11. Recorded' = t /\ queue' = r /\ sent' = sent BY DEF s, e, r, t
<1> QED BY <1>6, <1>7, <1>8, <1>9, <1>10, <1>11 DEF InOrder

\* The next event of the channel is lost.
LEMMA OrderLose ==
  ASSUME CaptureType, InOrder, queue # <<>>, queue' = Tail(queue), sent' = sent,
         Recorded' = Recorded, fault'
  PROVE  InOrder'
<1> DEFINE r == Tail(queue)
<1>1. queue \in Seq(Event) BY DEF CaptureType
<1>2. /\ r \in Seq(Event) /\ Len(queue) \in Nat \ {0} /\ Len(r) = Len(queue) - 1
      /\ \A i \in 1..Len(r) : r[i] = queue[i + 1] /\ i + 1 \in 1..Len(queue)
  BY <1>1
<1>3. queue' = r OBVIOUS
<1> HIDE DEF r
<1>4. Increasing(r)
  <2> SUFFICES ASSUME NEW i \in 1..Len(r), NEW j \in 1..Len(r), i < j PROVE r[i].n < r[j].n
    BY DEF Increasing
  <2>1. i + 1 < j + 1 BY <1>2
  <2> QED BY <1>2, <2>1 DEF Increasing, InOrder
<1>5. UpTo(r, sent) /\ Precedes(Recorded, r) BY <1>2 DEF UpTo, Precedes, InOrder
<1> QED BY <1>3, <1>4, <1>5 DEF InOrder

\* An event is sent: it is the last in the channel, or a fault is recorded.
LEMMA OrderSend ==
  ASSUME CaptureType, InOrder, NEW dir \in {"req", "resp"}, Send(dir), Recorded' = Recorded
  PROVE  InOrder' /\ sent' \in Nat /\ queue' \in Seq(Event) /\ fault' \in BOOLEAN
<1>1. /\ sent \in Nat /\ queue \in Seq(Event) /\ sent' = sent + 1 /\ fault \in BOOLEAN
      /\ Recorded \in Seq(Event)
  BY RecordedType DEF CaptureType, Send
<1>2. \A s \in Seq(Event) : UpTo(s, sent) => UpTo(s, sent + 1) /\ \A i \in 1..Len(s) : s[i].n < sent + 1
  <2> SUFFICES ASSUME NEW s \in Seq(Event), UpTo(s, sent)
               PROVE  UpTo(s, sent + 1) /\ \A i \in 1..Len(s) : s[i].n < sent + 1
    OBVIOUS
  <2>1. \A i \in 1..Len(s) : s[i] \in Event OBVIOUS
  <2>2. \A i \in 1..Len(s) : s[i].n \in Nat BY <2>1 DEF Event
  <2> QED BY <1>1, <2>2 DEF UpTo
<1>3. /\ UpTo(Recorded, sent + 1) /\ UpTo(queue, sent + 1)
      /\ \A i \in 1..Len(Recorded) : Recorded[i].n < sent + 1
      /\ \A i \in 1..Len(queue) : queue[i].n < sent + 1
  BY <1>1, <1>2 DEF InOrder
<1>4. CASE queue' = queue /\ fault' = TRUE
  BY <1>1, <1>3, <1>4 DEF InOrder
<1>5. CASE queue' = Append(queue, [dir |-> dir, n |-> sent']) /\ fault' = fault
  <2> DEFINE e == [dir |-> dir, n |-> sent + 1]
  <2>1. e \in Event /\ e.n = sent + 1 BY <1>1 DEF Event
  <2>2. queue' = queue \o <<e>> BY <1>1, <1>5
  <2> HIDE DEF e
  <2>3. /\ queue \o <<e>> \in Seq(Event) /\ Len(queue \o <<e>>) = Len(queue) + 1 /\ Len(queue) \in Nat
        /\ \A i \in 1..Len(queue) : (queue \o <<e>>)[i] = queue[i]
        /\ (queue \o <<e>>)[Len(queue) + 1] = e
    BY <1>1, <2>1, AddEvent
  <2>4. Increasing(queue) BY DEF InOrder
  <2>5. sent + 1 \in Nat /\ (\A i \in 1..Len(queue) : queue[i].n < e.n) /\ e.n <= sent + 1
    BY <1>1, <1>3, <2>1
  <2>6. Increasing(queue \o <<e>>) /\ UpTo(queue \o <<e>>, sent + 1)
    BY <1>1, <1>3, <2>1, <2>4, <2>5, OrderAdd
  <2>7. Precedes(Recorded, queue')
    <3> SUFFICES ASSUME NEW i \in 1..Len(Recorded), NEW j \in 1..Len(queue')
                 PROVE  Recorded[i].n < queue'[j].n
      BY DEF Precedes
    <3>1. j \in 1..Len(queue) \/ j = Len(queue) + 1 BY <2>2, <2>3
    <3>2. CASE j \in 1..Len(queue)
      <4>1. queue'[j] = queue[j] BY <2>2, <2>3, <3>2
      <4> QED BY <3>2, <4>1 DEF InOrder, Precedes
    <3>3. CASE j = Len(queue) + 1
      <4>1. queue'[j] = e BY <2>2, <2>3, <3>3
      <4> QED BY <1>3, <2>1, <4>1
    <3> QED BY <3>1, <3>2, <3>3
  <2>8. ~fault' => Len(Recorded) + Len(queue') = sent + 1
    <3>1. Len(Recorded) \in Nat BY <1>1
    <3> QED BY <1>1, <1>5, <2>2, <2>3, <3>1 DEF InOrder
  <2>9. queue' \in Seq(Event) /\ Increasing(queue') /\ UpTo(queue', sent + 1) BY <2>2, <2>3, <2>6
  <2> QED BY <1>1, <1>3, <1>5, <2>7, <2>8, <2>9 DEF InOrder
<1> QED BY <1>4, <1>5 DEF Send

-----------------------------------------------------------------------------
(* The invariant *)

\* Nothing was sent.
LEMMA CaptureStarts == Init => CaptureInv
<1> SUFFICES ASSUME Init PROVE CaptureInv OBVIOUS
<1>0. <<>> \in Seq(Event) /\ <<>> \in Seq(Seq(Event)) OBVIOUS
<1>1. CaptureType /\ WriterHasFile
  <2>1. CaptureType BY <1>0 DEF Init, CaptureType
  <2>2. WriterHasFile BY DEF Init, WriterHasFile
  <2> QED BY <2>1, <2>2
<1>2. Recorded = <<>> /\ Current = <<>> BY FlattenEmpty DEF Init, Recorded, Current
<1>3. \A n : UpTo(<<>>, n) /\ Increasing(<<>>) /\ Precedes(<<>>, <<>>) BY DEF UpTo, Increasing, Precedes
<1>4. queue = <<>> /\ sent = 0 BY DEF Init
<1>5. InOrder BY <1>2, <1>3, <1>4 DEF InOrder
<1>6. RotationBoundary BY DEF Init, RotationBoundary
<1>7. request_count <= Requests(Current) BY <1>2, RequestsEmpty DEF Init
<1> QED BY <1>1, <1>5, <1>6, <1>7 DEF CaptureInv

\* The steps of the senders leave the files alone.
LEMMA SendersStep ==
  ASSUME CaptureInv, UNCHANGED pcap, InOrder', sent' \in Nat, queue' \in Seq(Event), fault' \in BOOLEAN
  PROVE  CaptureInv'
<1>1. CaptureType' /\ WriterHasFile' BY DEF CaptureInv, CaptureType, WriterHasFile, pcap
<1>2. RotationBoundary' /\ (request_count <= Requests(Current))'
  BY DEF CaptureInv, RotationBoundary, Requests, Current, pcap
<1> QED BY <1>1, <1>2 DEF CaptureInv

\* WriteEvent: the file ends only when it is full and the event is a response.
LEMMA WriteEventStep ==
  ASSUME CaptureInv, WriteEvent
  PROVE  CaptureInv'
<1> DEFINE e == Head(queue)
           x == <<e>>
           n == Len(Opened)
           full == e.dir = "resp" /\ request_count >= RotateAt
<1>1. CaptureType /\ WriterHasFile /\ InOrder BY DEF CaptureInv
<1>2. /\ queue # <<>> /\ queue' = Tail(queue) /\ files' = AddTo(x) /\ buffer' = <<>>
      /\ writer' = ~full /\ request_count' = (IF full THEN 0 ELSE Counted(e))
      /\ sent' = sent /\ fault' = fault
  BY DEF WriteEvent, senders
<1>3. e \in Event /\ queue' \in Seq(Event) BY <1>1, <1>2 DEF CaptureType
<1>4. x \in Seq(Event) BY <1>3
<1>5. /\ files' \in Seq(Seq(Event)) /\ Len(files') = n /\ FlattenSeq(files') = Recorded \o x
      /\ files'[n] = Current \o x
      /\ \A i \in 1..(n - 1) : files'[i] = Opened[i]
  BY <1>1, <1>2, <1>4, AddToFacts
<1>6. n \in Nat \ {0} /\ Current \in Seq(Event) BY <1>1, OpenedFacts
<1>7. Recorded \in Seq(Event) BY <1>1, RecordedType
<1>8. /\ Requests(Current) \in Nat
      /\ Requests(Current \o x) = Requests(Current) + (IF e.dir = "req" THEN 1 ELSE 0)
  BY <1>3, <1>6, RequestsType, RequestsAdd
<1>9. request_count \in Nat /\ RotateAt \in Nat /\ request_count <= Requests(Current)
  BY CaptureAssumption DEF CaptureInv, CaptureType
<1>10. Counted(e) \in Nat /\ Counted(e) <= Requests(Current \o x) BY <1>8, <1>9 DEF Counted
<1> HIDE DEF n
<1>11. CaptureType'
  <2>1. sent' \in Nat /\ fault' \in BOOLEAN /\ writer' \in BOOLEAN BY <1>1, <1>2 DEF CaptureType
  <2>2. request_count' \in Nat BY <1>2, <1>10
  <2>3. buffer' \in Seq(Event) BY <1>2
  <2> QED BY <1>3, <1>5, <2>1, <2>2, <2>3 DEF CaptureType
<1>12. WriterHasFile' BY <1>2, <1>5, <1>6 DEF WriterHasFile
<1>13. Recorded' = Recorded \o <<e>>
  <2>1. Recorded \o x \in Seq(Event) BY <1>4, <1>7
  <2>2. Recorded' = FlattenSeq(files') \o <<>> BY <1>2 DEF Recorded
  <2> QED BY <1>5, <2>1, <2>2
<1>14. InOrder' BY <1>1, <1>2, <1>13, OrderRecord
<1>15. RotationBoundary'
  <2>1. CASE writer' BY <1>5, <2>1, BoundaryStep DEF n
  <2>2. CASE ~writer'
    <3>1. e.dir = "resp" /\ request_count >= RotateAt BY <1>2, <2>2
    <3>2. Requests(files'[n]) >= RotateAt BY <1>5, <1>8, <1>9, <3>1
    <3>3. Last(files'[n]) = e BY <1>3, <1>5, <1>6, AddEvent DEF Last
    <3> QED BY <1>5, <3>1, <3>2, <3>3, BoundaryStep DEF n
  <2> QED BY <2>1, <2>2
<1>16. (request_count <= Requests(Current))'
  <2>1. CASE writer'
    <3>1. Current \o x \in Seq(Event) BY <1>4, <1>6
    <3>2. Current' = files'[Len(files')] \o <<>> BY <1>2, <2>1 DEF Current
    <3>3. (Current \o x) \o <<>> = Current \o x
      <4> DEFINE z == Current \o x
      <4> HIDE DEF z
      <4>1. z \in Seq(Event) => z \o <<>> = z OBVIOUS
      <4> QED BY <3>1, <4>1 DEF z
    <3>4. Current' = Current \o x BY <1>5, <3>2, <3>3
    <3>5. request_count' = Counted(e) BY <1>2, <2>1
    <3> QED BY <1>10, <3>4, <3>5
  <2>2. CASE ~writer'
    <3>1. Current' = <<>> /\ request_count' = 0 BY <1>2, <2>2 DEF Current
    <3> QED BY <3>1, RequestsEmpty
  <2> QED BY <2>1, <2>2
<1> QED BY <1>11, <1>12, <1>14, <1>15, <1>16 DEF CaptureInv

\* FlushFails: the event waits behind the others in the BufWriter.
LEMMA FlushFailsStep ==
  ASSUME CaptureInv, FlushFails
  PROVE  CaptureInv'
<1> DEFINE e == Head(queue)
           x == <<e>>
           o == Opened
           n == Len(o)
           y == o[n]
           f == FlattenSeq(files)
<1>1. CaptureType /\ WriterHasFile /\ InOrder BY DEF CaptureInv
<1>2. /\ queue # <<>> /\ queue' = Tail(queue) /\ files' = o /\ buffer' = Append(buffer, e)
      /\ writer' = TRUE /\ request_count' = Counted(e)
      /\ sent' = sent /\ fault' = TRUE
  BY DEF FlushFails, senders
<1>3. /\ e \in Event /\ queue' \in Seq(Event) /\ buffer \in Seq(Event) /\ sent \in Nat
      /\ request_count \in Nat
  BY <1>1, <1>2 DEF CaptureType
<1>4. x \in Seq(Event) /\ buffer' = buffer \o x /\ buffer' \in Seq(Event) BY <1>2, <1>3
<1>5. /\ o \in Seq(Seq(Event)) /\ n \in Nat \ {0} /\ y \in Seq(Event) /\ Current \in Seq(Event)
      /\ y \o buffer = Current /\ FlattenSeq(o) = f
  BY <1>1, OpenedFacts
<1>6. f \in Seq(Event) /\ Recorded = f \o buffer BY <1>1, RecordedType DEF Recorded
<1>7. RotationBoundary' BY <1>2, BoundaryStep
<1> HIDE DEF e, x, o, y, f
<1>8. Recorded' = Recorded \o x
  <2>1. Recorded' = f \o (buffer \o x) BY <1>2, <1>4, <1>5 DEF Recorded
  <2>2. f \in Seq(Event) /\ buffer \in Seq(Event) /\ x \in Seq(Event) BY <1>3, <1>4, <1>6
  <2>3. f \o (buffer \o x) = (f \o buffer) \o x BY <2>2, CatAssociative
  <2> QED BY <1>6, <2>1, <2>3
<1>9. Current' = Current \o x
  <2>1. Current' = y \o (buffer \o x) BY <1>2, <1>4 DEF Current, y
  <2>2. y \in Seq(Event) /\ buffer \in Seq(Event) /\ x \in Seq(Event) BY <1>3, <1>4, <1>5
  <2>3. y \o (buffer \o x) = (y \o buffer) \o x BY <2>2, CatAssociative
  <2> QED BY <1>5, <2>1, <2>3
<1>10. InOrder' BY <1>1, <1>2, <1>8, OrderRecord DEF e, x
<1>11. /\ Requests(Current) \in Nat
       /\ Requests(Current \o x) = Requests(Current) + (IF e.dir = "req" THEN 1 ELSE 0)
  BY <1>3, <1>5, RequestsType, RequestsAdd DEF x
<1>12. request_count' \in Nat /\ request_count' <= Requests(Current')
  BY <1>2, <1>3, <1>9, <1>11 DEF Counted, CaptureInv
<1>13. CaptureType' BY <1>2, <1>3, <1>4, <1>5, <1>12 DEF CaptureType
<1>14. WriterHasFile' BY <1>2, <1>5 DEF WriterHasFile
<1> QED BY <1>7, <1>10, <1>12, <1>13, <1>14 DEF CaptureInv

\* OpenFails and WriteFails: the event is lost, what is recorded stays.
LEMMA LostEventStep ==
  ASSUME CaptureInv, OpenFails \/ WriteFails
  PROVE  CaptureInv'
<1>1. CaptureType /\ WriterHasFile /\ InOrder BY DEF CaptureInv
<1>2. /\ queue # <<>> /\ queue' = Tail(queue) /\ files' = Opened /\ buffer' = buffer
      /\ writer' = TRUE \/ (~writer /\ writer' = writer)
      /\ request_count' = request_count /\ sent' = sent /\ fault' = TRUE
  BY DEF OpenFails, WriteFails, senders
<1>3. queue' \in Seq(Event) /\ buffer \in Seq(Event) /\ sent \in Nat /\ request_count \in Nat /\ writer \in BOOLEAN
  BY <1>1, <1>2 DEF CaptureType
<1>4. /\ Opened \in Seq(Seq(Event)) /\ Len(Opened) \in Nat \ {0}
      /\ Opened[Len(Opened)] \o buffer = Current /\ FlattenSeq(Opened) = FlattenSeq(files)
      /\ ~writer => Opened[Len(Opened)] = <<>> /\ buffer = <<>>
  BY <1>1, OpenedFacts
<1>5. CaptureType' BY <1>2, <1>3, <1>4 DEF CaptureType
<1>6. WriterHasFile' BY <1>2, <1>4 DEF WriterHasFile
<1>7. Recorded' = Recorded BY <1>2, <1>4 DEF Recorded
<1>8. InOrder' BY <1>1, <1>2, <1>7, OrderLose
<1>9. RotationBoundary' BY <1>2, <1>4, BoundaryStep
<1>10. Current' = Current
  <2>1. CASE writer' BY <1>2, <1>4, <2>1 DEF Current
  <2>2. CASE ~writer' BY <1>2, <2>2 DEF Current
  <2> QED BY <2>1, <2>2
<1>11. (request_count <= Requests(Current))' BY <1>2, <1>10 DEF CaptureInv
<1> QED BY <1>5, <1>6, <1>8, <1>9, <1>11 DEF CaptureInv

\* The last flush moves what is buffered into the file.
LEMMA LastFlushStep ==
  ASSUME CaptureInv, LastFlush, UNCHANGED <<senders, queue, writer, request_count, fault>>
  PROVE  CaptureInv'
<1>1. CaptureType /\ WriterHasFile /\ InOrder BY DEF CaptureInv
<1>2. /\ sent' = sent /\ queue' = queue /\ writer' = writer /\ request_count' = request_count
      /\ fault' = fault
  BY DEF senders
<1>3. CASE files' = files /\ buffer' = buffer
  <2>1. UNCHANGED pcap BY <1>2, <1>3 DEF pcap
  <2>2. InOrder' BY <1>1, <1>2, <1>3 DEF InOrder, Recorded
  <2>3. sent' \in Nat /\ queue' \in Seq(Event) /\ fault' \in BOOLEAN BY <1>1, <1>2 DEF CaptureType
  <2> QED BY <2>1, <2>2, <2>3, SendersStep
<1>4. CASE writer /\ files' = AddTo(<<>>) /\ buffer' = <<>>
  <2>1. <<>> \in Seq(Event) OBVIOUS
  <2>2. /\ files' \in Seq(Seq(Event)) /\ Len(files') = Len(Opened)
        /\ FlattenSeq(files') = Recorded \o <<>>
        /\ files'[Len(Opened)] = Current \o <<>>
        /\ \A i \in 1..(Len(Opened) - 1) : files'[i] = Opened[i]
    BY <1>1, <1>4, <2>1, AddToFacts
  <2>3. Len(Opened) \in Nat \ {0} /\ Current \in Seq(Event) BY <1>1, OpenedFacts
  <2>4. Recorded \in Seq(Event) BY <1>1, RecordedType
  <2>5. \A s \in Seq(Event) : s \o <<>> = s OBVIOUS
  <2>6. Recorded' = Recorded BY <1>4, <2>2, <2>4, <2>5 DEF Recorded
  <2>7. Current' = Current BY <1>2, <1>4, <2>2, <2>3, <2>5 DEF Current
  <2>8. InOrder' BY <1>1, <1>2, <2>6 DEF InOrder
  <2>9. CaptureType' BY <1>1, <1>2, <1>4, <2>1, <2>2 DEF CaptureType
  <2>10. WriterHasFile' BY <1>2, <1>4, <2>2, <2>3 DEF WriterHasFile
  <2>11. RotationBoundary' BY <1>2, <1>4, <2>2, BoundaryStep
  <2>12. (request_count <= Requests(Current))' BY <1>2, <2>7 DEF CaptureInv
  <2> QED BY <2>8, <2>9, <2>10, <2>11, <2>12 DEF CaptureInv
<1>5. CASE ~writer /\ files' = files /\ buffer' = <<>>
  BY <1>1, <1>3, <1>5 DEF WriterHasFile
<1> QED BY <1>3, <1>4, <1>5 DEF LastFlush

\* Every step keeps the invariant.
LEMMA CaptureSteps ==
  ASSUME CaptureInv, [Next]_vars
  PROVE  CaptureInv'
<1>1. CaptureType /\ InOrder BY DEF CaptureInv
<1>2. ASSUME UNCHANGED <<sent, queue, pcap, fault>> PROVE CaptureInv'
  <2>1. InOrder' BY <1>1, <1>2 DEF InOrder, Recorded, pcap
  <2>2. sent' \in Nat /\ queue' \in Seq(Event) /\ fault' \in BOOLEAN BY <1>1, <1>2 DEF CaptureType
  <2> QED BY <1>2, <2>1, <2>2, SendersStep
<1>3. ASSUME NEW c \in Conn, Accept(c) \/ End(c) PROVE CaptureInv'
  BY <1>2, <1>3 DEF Accept, End
<1>4. ASSUME NEW c \in Conn, SendRequest(c) \/ SendResponse(c) PROVE CaptureInv'
  <2>1. \E dir \in {"req", "resp"} : Send(dir) BY <1>4 DEF SendRequest, SendResponse
  <2>2. UNCHANGED pcap BY <1>4 DEF SendRequest, SendResponse
  <2>3. Recorded' = Recorded BY <2>2 DEF Recorded, pcap
  <2> QED BY <1>1, <2>1, <2>2, <2>3, OrderSend, SendersStep
<1>5. CASE Return BY <1>2, <1>5 DEF Return
<1>6. CASE WriteEvent BY <1>6, WriteEventStep
<1>7. CASE OpenFails \/ WriteFails BY <1>7, LostEventStep
<1>8. CASE FlushFails BY <1>8, FlushFailsStep
<1>9. CASE Finish \/ RuntimeDrop BY <1>9, LastFlushStep DEF Finish, RuntimeDrop
<1>10. CASE UNCHANGED vars BY <1>2, <1>10 DEF vars, pcap
<1> QED BY <1>3, <1>4, <1>5, <1>6, <1>7, <1>8, <1>9, <1>10 DEF Next

\* What is recorded and then what is on its way is one increasing sequence.
LEMMA OrderOfAll == CaptureInv => CapturedInOrder
<1> SUFFICES ASSUME CaptureInv PROVE CapturedInOrder OBVIOUS
<1> DEFINE r == Recorded
           a == r \o queue
<1>1. r \in Seq(Event) /\ queue \in Seq(Event) BY RecordedType DEF CaptureInv, CaptureType
<1>2. /\ Increasing(r) /\ Increasing(queue) /\ Precedes(r, queue)
      /\ ~fault => Len(r) + Len(queue) = sent
  BY DEF CaptureInv, InOrder
<1> HIDE DEF r
<1>3. /\ Len(a) = Len(r) + Len(queue) /\ Len(r) \in Nat /\ Len(queue) \in Nat
      /\ \A i \in 1..Len(r) : a[i] = r[i]
      /\ \A i \in 1..Len(queue) : a[Len(r) + i] = queue[i]
  BY <1>1
<1> HIDE DEF a
<1>4. ASSUME NEW i \in 1..(Len(a) - 1) PROVE a[i].n < a[i + 1].n
  <2>1. CASE i < Len(r)
    <3>1. i \in 1..Len(r) /\ i + 1 \in 1..Len(r) /\ i < i + 1 BY <1>3, <2>1
    <3>2. a[i] = r[i] /\ a[i + 1] = r[i + 1] BY <1>3, <3>1
    <3> QED BY <1>2, <3>1, <3>2 DEF Increasing
  <2>2. CASE i = Len(r)
    <3>1. i \in 1..Len(r) /\ 1 \in 1..Len(queue) BY <1>3, <2>2
    <3>2. a[i] = r[i] /\ a[i + 1] = queue[1] BY <1>3, <2>2, <3>1
    <3> QED BY <1>2, <3>1, <3>2 DEF Precedes
  <2>3. CASE i > Len(r)
    <3> DEFINE k == i - Len(r)
    <3>1. k \in 1..Len(queue) /\ k + 1 \in 1..Len(queue) /\ k < k + 1 /\ i = Len(r) + k
          /\ i + 1 = Len(r) + (k + 1)
      BY <1>3, <2>3
    <3> HIDE DEF k
    <3>2. a[i] = queue[k] /\ a[i + 1] = queue[k + 1] BY <1>3, <3>1
    <3> QED BY <1>2, <3>1, <3>2 DEF Increasing
  <2> QED BY <1>3, <2>1, <2>2, <2>3
<1>5. ~fault => Len(a) = sent BY <1>2, <1>3
<1> QED BY <1>4, <1>5 DEF CapturedInOrder, a, r

\* For every size of the channel and whatever file operations fail: the files,
\* read in their order, have the events in the order CaptureHandle::send was
\* called in, none twice, and none is missing as long as nothing failed.
THEOREM CapturedStaysInOrder == Spec => []CapturedInOrder
<1>1. Init => CaptureInv BY CaptureStarts
<1>2. CaptureInv /\ [Next]_vars => CaptureInv' BY CaptureSteps
<1>3. CaptureInv => CapturedInOrder BY OrderOfAll
<1> QED BY <1>1, <1>2, <1>3, PTL DEF Spec

\* For every limit: PcapDestination ends a file only after a response, when the
\* file has all the requests the limit asks for, whatever failed before.
THEOREM FilesEndWithResponses == Spec => []RotationBoundary
<1>1. Init => CaptureInv BY CaptureStarts
<1>2. CaptureInv /\ [Next]_vars => CaptureInv' BY CaptureSteps
<1>3. CaptureInv => RotationBoundary BY DEF CaptureInv
<1> QED BY <1>1, <1>2, <1>3, PTL DEF Spec
==============================================================================
