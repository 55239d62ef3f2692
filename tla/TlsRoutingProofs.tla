--------------------------- MODULE TlsRoutingProofs ---------------------------
(***************************************************************************)
(* Proofs about TLS passthrough and routing, for any client streams, any   *)
(* cut of them into reads, any request line and any router.                *)
(***************************************************************************)
EXTENDS TlsRouting, SequenceLemmas

\* A cell of a stream or of a text is a number.
Cell == Nat

-----------------------------------------------------------------------------
(* The client's records *)

Records == [i \in DOMAIN script |-> script[i].cells]

\* header_buf and payload_buf hold one record at most.
BuffersHold ==
  /\ Len(header) <= HeaderLen
  /\ payload # <<>> => HeaderDone /\ ~BadHeader /\ Len(payload) <= header[3]

ParserType ==
  /\ script \in Scripts \/ script = <<>>
  /\ taken \in Nat /\ sent \in Nat /\ taken <= sent /\ sent <= Len(wire)
  /\ header \in Seq(Cell) /\ payload \in Seq(Cell) /\ frames \in Seq(Seq(Cell))
  /\ Len(frames) <= Len(script)

ParserInv == ParserType /\ BuffersHold /\ RecordsConserved

\* The cells of the records.
LEMMA RecordsType ==
  ASSUME script \in Scripts \/ script = <<>>
  PROVE  /\ Records \in Seq(Seq(Cell)) /\ Len(Records) = Len(script) /\ Len(script) \in Nat
         /\ DOMAIN script = 1..Len(script)
         /\ \A i \in 1..Len(script) : Records[i] = script[i].cells
         /\ wire = FlattenSeq(Records) /\ wire \in Seq(Cell)
<1>1. script \in Seq([cells : Seq(Cell), host : SUBSET Seq(Cell)])
  <2>1. CASE script \in Scripts BY <2>1, RoutingAssumption DEF Cell
  <2>2. CASE script = <<>> BY <2>2
  <2> QED BY <2>1, <2>2
<1>2. Len(script) \in Nat /\ DOMAIN script = 1..Len(script) BY <1>1
<1>3. \A i \in 1..Len(script) : script[i] \in [cells : Seq(Cell), host : SUBSET Seq(Cell)]
  <2> DEFINE R == [cells : Seq(Cell), host : SUBSET Seq(Cell)]
  <2> HIDE DEF R
  <2>1. script \in Seq(R) => \A i \in 1..Len(script) : script[i] \in R OBVIOUS
  <2> QED BY <1>1, <2>1 DEF R
<1>4. \A i \in 1..Len(script) : script[i].cells \in Seq(Cell) BY <1>3
<1>5. Records = [i \in 1..Len(script) |-> script[i].cells] BY <1>2 DEF Records
<1>6. Records \in Seq(Seq(Cell)) /\ Len(Records) = Len(script) BY <1>2, <1>4, <1>5
<1>7. \A i \in 1..Len(script) : Records[i] = script[i].cells BY <1>5
<1>8. wire = FlattenSeq(Records) BY DEF wire, Records
<1>9. wire \in Seq(Cell) BY <1>6, <1>8, FlattenType
<1> QED BY <1>2, <1>6, <1>7, <1>8, <1>9

\* A record has a header, and ends where its header says if the parser takes it.
LEMMA RecordShape ==
  ASSUME script \in Scripts \/ script = <<>>, NEW i \in 1..Len(script)
  PROVE  LET c == script[i].cells
         IN /\ Len(c) >= HeaderLen
            /\ c[3] = Len(c) - HeaderLen \/ c[1] \notin RecordType \/ c[3] > MaxPayload
<1>1. i \in DOMAIN script BY RecordsType
<1>2. CASE script \in Scripts BY <1>1, <1>2, RoutingAssumption
<1>3. CASE script = <<>> BY <1>3
<1> QED BY <1>2, <1>3

\* Behind the records that came out is the next one.
LEMMA NextRecord ==
  ASSUME ParserInv
  PROVE  /\ Len(frames) = Len(script) => wire = FlattenSeq(frames)
         /\ Len(frames) < Len(script) =>
              \E rest \in Seq(Cell) :
                wire = FlattenSeq(frames) \o (script[Len(frames) + 1].cells \o rest)
<1> DEFINE k == Len(frames)
           F == FlattenSeq(frames)
<1>1. script \in Scripts \/ script = <<>> BY DEF ParserInv, ParserType
<1>2. /\ Records \in Seq(Seq(Cell)) /\ Len(Records) = Len(script) /\ Len(script) \in Nat
      /\ \A i \in 1..Len(script) : Records[i] = script[i].cells
      /\ wire = FlattenSeq(Records)
  BY <1>1, RecordsType
<1>3. frames \in Seq(Seq(Cell)) /\ k \in Nat /\ k <= Len(script) BY DEF ParserInv, ParserType
<1>4. F \in Seq(Cell) BY <1>3, FlattenType
<1>5. \A i \in 1..k : frames[i] = script[i].cells BY <1>3 DEF ParserInv, RecordsConserved
<1>6. \A i \in 1..k : frames[i] = Records[i] BY <1>2, <1>3, <1>5
<1>7. ASSUME k = Len(script) PROVE wire = F
  <2>1. frames = Records BY <1>2, <1>3, <1>6, <1>7, SameSequence
  <2> QED BY <1>2, <2>1
<1>8. ASSUME k < Len(script)
      PROVE  \E rest \in Seq(Cell) : wire = F \o (script[k + 1].cells \o rest)
  <2> DEFINE p == SubSeq(Records, 1, k + 1)
             c == script[k + 1].cells
  <2>1. k + 1 \in 0..Len(Records) /\ k + 1 \in 1..Len(script) BY <1>2, <1>3, <1>8
  <2>2. /\ p \in Seq(Seq(Cell)) /\ Len(p) = k + 1 /\ \A i \in 1..(k + 1) : p[i] = Records[i]
    BY <1>2, <2>1, CutAt
  <2>3. c = Records[k + 1] /\ c \in Seq(Cell) BY <1>2, <2>1
  <2> HIDE DEF p, c
  <2>4. p = Append(frames, c)
    <3> DEFINE q == Append(frames, c)
    <3>1. q \in Seq(Seq(Cell)) /\ Len(q) = k + 1 /\ q[k + 1] = c /\ \A i \in 1..k : q[i] = frames[i]
      BY <1>3, <2>3
    <3> HIDE DEF q
    <3>2. ASSUME NEW i \in 1..(k + 1) PROVE p[i] = q[i]
      <4>1. i \in 1..k \/ i = k + 1 BY <1>3
      <4> QED BY <1>6, <2>2, <2>3, <3>1, <4>1
    <3>3. p = q BY <2>2, <3>1, <3>2, SameSequence
    <3> QED BY <3>3 DEF q
  <2>5. FlattenSeq(p) = F \o c BY <1>3, <2>3, <2>4, FlattenAppend
  <2>6. PICK rest \in Seq(Cell) : FlattenSeq(Records) = FlattenSeq(p) \o rest
    BY <1>2, <2>1, FlattenPrefix DEF p
  <2> HIDE DEF F
  <2>7. F \o (c \o rest) = (F \o c) \o rest
    <3>1. F \in Seq(Cell) /\ c \in Seq(Cell) /\ rest \in Seq(Cell) BY <1>4, <2>3
    <3> QED BY <3>1, CatAssociative
  <2>8. wire = F \o (c \o rest) BY <1>2, <2>5, <2>6, <2>7
  <2> QED BY <2>8 DEF c
<1> QED BY <1>7, <1>8

-----------------------------------------------------------------------------
(* The parser *)

\* A record is complete: it is the client's next one.
LEMMA WholeRecord ==
  ASSUME ParserInv, HeaderDone, ~BadHeader, PayloadWanted = 0
  PROVE  Len(frames) < Len(script) /\ header \o payload = script[Len(frames) + 1].cells
<1> DEFINE k == Len(frames)
           F == FlattenSeq(frames)
           f == header \o payload
           c == script[k + 1].cells
<1>1. /\ header \in Seq(Cell) /\ payload \in Seq(Cell) /\ frames \in Seq(Seq(Cell)) /\ taken \in Nat
      /\ taken <= Len(wire) /\ k \in Nat /\ k <= Len(script)
      /\ script \in Scripts \/ script = <<>>
  BY DEF ParserInv, ParserType
<1>2. F \in Seq(Cell) BY <1>1, FlattenType
<1>3. Len(header) = 3 /\ header[3] \in Nat /\ header[1] \in RecordType /\ header[3] <= MaxPayload
  <2>1. Len(header) = 3 BY DEF HeaderDone, HeaderLen
  <2>2. header[3] \in Nat
    <3>1. header \in Seq(Cell) /\ 3 \in 1..Len(header) BY <1>1, <2>1
    <3>2. header[3] \in Cell BY <3>1
    <3> QED BY <3>2 DEF Cell
  <2>3. header[1] \in RecordType /\ ~(header[3] > MaxPayload) BY DEF BadHeader
  <2> QED BY <2>1, <2>2, <2>3 DEF MaxPayload
<1>4. Len(payload) = header[3] BY <1>1, <1>3 DEF PayloadWanted
<1>5. /\ f \in Seq(Cell) /\ Len(f) = 3 + header[3] /\ f[1] = header[1] /\ f[3] = header[3]
  <2>1. /\ f \in Seq(Cell) /\ Len(f) = Len(header) + Len(payload)
        /\ \A i \in 1..Len(header) : f[i] = header[i]
    <3>1. header \in Seq(Cell) /\ payload \in Seq(Cell) BY <1>1
    <3> QED BY <3>1
  <2>2. 1 \in 1..Len(header) /\ 3 \in 1..Len(header) BY <1>3
  <2> QED BY <1>3, <1>4, <2>1, <2>2
<1>6. wire \in Seq(Cell) /\ Len(script) \in Nat BY <1>1, RecordsType
<1>7. F \o f = SubSeq(wire, 1, taken)
  <2> HIDE DEF F
  <2>1. F \o (header \o payload) = (F \o header) \o payload
    <3>1. F \in Seq(Cell) /\ header \in Seq(Cell) /\ payload \in Seq(Cell) BY <1>1, <1>2
    <3> QED BY <3>1, CatAssociative
  <2>2. (F \o header) \o payload = SubSeq(wire, 1, taken) BY DEF ParserInv, RecordsConserved, F
  <2> QED BY <2>1, <2>2
<1> HIDE DEF F, f
<1>8. /\ Len(F) + Len(f) = taken
      /\ \A i \in 1..Len(f) : Len(F) + i \in 1..taken /\ f[i] = wire[Len(F) + i]
  <2> DEFINE s == SubSeq(wire, 1, taken)
  <2>1. Len(wire) \in Nat /\ taken \in 0..Len(wire) BY <1>1, <1>6
  <2>2. s \in Seq(Cell) /\ Len(s) = taken /\ \A i \in 1..taken : s[i] = wire[i] BY <1>6, <2>1, CutAt
  <2>3. /\ Len(F) \in Nat /\ Len(f) \in Nat /\ Len(F \o f) = Len(F) + Len(f)
        /\ \A i \in 1..Len(f) : (F \o f)[Len(F) + i] = f[i]
    <3>1. F \in Seq(Cell) /\ f \in Seq(Cell) BY <1>2, <1>5
    <3> QED BY <3>1
  <2> HIDE DEF s
  <2>4. F \o f = s BY <1>7 DEF s
  <2>5. Len(F) + Len(f) = taken BY <2>2, <2>3, <2>4
  <2>6. \A i \in 1..Len(f) : Len(F) + i \in 1..taken BY <2>3, <2>5
  <2> QED BY <2>2, <2>3, <2>4, <2>5, <2>6
<1>9. Len(F) \in Nat /\ Len(f) \in Nat /\ Len(f) >= 3 BY <1>2, <1>3, <1>5
<1>10. k < Len(script)
  <2>1. CASE k = Len(script)
    <3>1. wire = F BY <2>1, NextRecord DEF F
    <3> QED BY <1>1, <1>8, <1>9, <3>1
  <2> QED BY <1>1, <1>6, <2>1
<1>11. PICK rest \in Seq(Cell) : wire = F \o (c \o rest) BY <1>10, NextRecord DEF F
<1>12. c \in Seq(Cell)
  <2>1. k + 1 \in 1..Len(script) BY <1>1, <1>6, <1>10
  <2>2. Records \in Seq(Seq(Cell)) /\ Len(Records) = Len(script) /\ Records[k + 1] = c BY <1>1, <2>1, RecordsType
  <2> QED BY <2>1, <2>2
<1>13. /\ Len(c) >= 3 /\ Len(c) \in Nat
       /\ c[3] = Len(c) - 3 \/ c[1] \notin RecordType \/ c[3] > MaxPayload
  <2>1. k + 1 \in 1..Len(script) BY <1>1, <1>6, <1>10
  <2> QED BY <1>1, <1>12, <2>1, RecordShape DEF HeaderLen
<1> HIDE DEF c
<1>14. \A i \in 1..Len(c) : wire[Len(F) + i] = c[i]
  <2> DEFINE g == c \o rest
  <2>1. g \in Seq(Cell) /\ Len(g) = Len(c) + Len(rest) /\ Len(rest) \in Nat /\ \A i \in 1..Len(c) : g[i] = c[i]
    <3>1. c \in Seq(Cell) /\ rest \in Seq(Cell) BY <1>12
    <3> QED BY <3>1
  <2> HIDE DEF g
  <2>2. \A i \in 1..Len(g) : (F \o g)[Len(F) + i] = g[i]
    <3>1. F \in Seq(Cell) /\ g \in Seq(Cell) BY <1>2, <2>1
    <3> QED BY <3>1
  <2>3. \A i \in 1..Len(c) : i \in 1..Len(g) BY <1>13, <2>1
  <2> QED BY <1>11, <2>1, <2>2, <2>3 DEF g
<1>15. \A i \in 1..Len(c) : i \in 1..Len(f) => f[i] = c[i] BY <1>8, <1>14
<1>16. f[1] = c[1] /\ f[3] = c[3]
  <2>1. 1 \in 1..Len(c) /\ 3 \in 1..Len(c) /\ 1 \in 1..Len(f) /\ 3 \in 1..Len(f) BY <1>9, <1>13
  <2> QED BY <1>15, <2>1
<1>17. Len(f) = Len(c) BY <1>3, <1>5, <1>13, <1>16 DEF MaxPayload
<1>18. f = c BY <1>5, <1>12, <1>15, <1>17, SameSequence
<1> QED BY <1>10, <1>18 DEF f, c

\* A read adds the next n cells of the stream at the end.
LEMMA ReadMore ==
  ASSUME ParserInv, NEW n \in 1..Available
  PROVE  LET x == SubSeq(wire, taken + 1, taken + n)
         IN /\ x \in Seq(Cell) /\ Len(x) = n
            /\ taken + n \in Nat /\ taken + n <= sent
            /\ (FlattenSeq(frames) \o header \o payload) \o x = SubSeq(wire, 1, taken + n)
<1>1. taken \in Nat /\ sent \in Nat /\ taken <= sent /\ sent <= Len(wire) /\ (script \in Scripts \/ script = <<>>)
  BY DEF ParserInv, ParserType
<1>2. wire \in Seq(Cell) BY <1>1, RecordsType
<1>3. n \in Nat /\ taken + n \in Nat /\ taken + n <= sent BY <1>1 DEF Available
<1>4. Len(wire) \in Nat BY <1>2
<1>5. taken + n <= Len(wire) BY <1>1, <1>3, <1>4
<1>6. /\ SubSeq(wire, taken + 1, taken + n) \in Seq(Cell)
      /\ SubSeq(wire, 1, taken) \o SubSeq(wire, taken + 1, taken + n) = SubSeq(wire, 1, taken + n)
  BY <1>1, <1>2, <1>3, <1>5, JoinPieces
<1>7. Len(SubSeq(wire, taken + 1, taken + n)) = n BY <1>1, <1>2, <1>3, <1>5
<1> QED BY <1>3, <1>6, <1>7 DEF ParserInv, RecordsConserved

\* The two reads.
LEMMA ReadKeeps ==
  ASSUME ParserInv, NEW n \in Nat, ReadHeader(n) \/ ReadPayload(n)
  PROVE  ParserInv'
<1> DEFINE x == SubSeq(wire, taken + 1, taken + n)
           F == FlattenSeq(frames)
<1>1. /\ n \in 1..Available /\ taken' = taken + n
      /\ UNCHANGED <<frames, script, sent>>
  BY DEF ReadHeader, ReadPayload, client, flow
<1>2. /\ x \in Seq(Cell) /\ Len(x) = n /\ taken + n \in Nat /\ taken + n <= sent
      /\ ((F \o header) \o payload) \o x = SubSeq(wire, 1, taken + n)
  BY <1>1, ReadMore
<1>3. /\ header \in Seq(Cell) /\ payload \in Seq(Cell) /\ frames \in Seq(Seq(Cell))
      /\ Len(header) \in Nat /\ Len(payload) \in Nat
  BY DEF ParserInv, ParserType
<1>4. F \in Seq(Cell) BY <1>3, FlattenType
<1>5. wire' = wire BY <1>1 DEF wire
<1>6. \A i \in DOMAIN frames : frames[i] = script[i].cells BY DEF ParserInv, RecordsConserved
<1>7. CASE ReadHeader(n)
  <2>1. header' = header \o x /\ payload' = payload /\ ~HeaderDone /\ Len(header) + n <= HeaderLen
    BY <1>7 DEF ReadHeader
  <2>2. payload = <<>> BY <2>1 DEF ParserInv, BuffersHold
  <2> HIDE DEF x, F
  <2>3. header' \in Seq(Cell) /\ Len(header') = Len(header) + n
    <3>1. header \in Seq(Cell) /\ x \in Seq(Cell) BY <1>2, <1>3
    <3>2. header \o x \in Seq(Cell) /\ Len(header \o x) = Len(header) + Len(x) BY <3>1
    <3> QED BY <1>2, <2>1, <3>2
  <2>4. (F \o header') \o payload' = SubSeq(wire, 1, taken + n)
    <3>1. F \in Seq(Cell) /\ header \in Seq(Cell) /\ x \in Seq(Cell) BY <1>2, <1>3, <1>4
    <3>2. F \o (header \o x) = (F \o header) \o x BY <3>1, CatAssociative
    <3>3. F \o header \in Seq(Cell) BY <3>1
    <3>4. \A s \in Seq(Cell) : s \o <<>> = s OBVIOUS
    <3>5. (F \o header) \o payload = F \o header BY <2>2, <3>3, <3>4
    <3>6. F \o header' = SubSeq(wire, 1, taken + n) BY <1>2, <2>1, <3>2, <3>5
    <3>7. F \o header' \in Seq(Cell)
      <4>1. F \in Seq(Cell) /\ header' \in Seq(Cell) BY <1>4, <2>3
      <4> QED BY <4>1
    <3>8. (F \o header') \o payload' = F \o header' BY <2>1, <2>2, <3>4, <3>7
    <3> QED BY <3>6, <3>8
  <2>5. ParserType' BY <1>1, <1>2, <1>3, <1>5, <2>1, <2>3 DEF ParserInv, ParserType
  <2>6. BuffersHold' BY <2>1, <2>2, <2>3 DEF BuffersHold
  <2>7. RecordsConserved' BY <1>1, <1>5, <1>6, <2>4 DEF RecordsConserved, F
  <2> QED BY <2>5, <2>6, <2>7 DEF ParserInv
<1>8. CASE ReadPayload(n)
  <2>1. header' = header /\ payload' = payload \o x /\ HeaderDone /\ ~BadHeader /\ n <= PayloadWanted
    BY <1>8 DEF ReadPayload
  <2> HIDE DEF x, F
  <2>2. payload' \in Seq(Cell) /\ Len(payload') = Len(payload) + n
    <3>1. payload \in Seq(Cell) /\ x \in Seq(Cell) BY <1>2, <1>3
    <3> QED BY <1>2, <2>1, <3>1
  <2>3. (F \o header') \o payload' = SubSeq(wire, 1, taken + n)
    <3> DEFINE g == F \o header
    <3>1. g \in Seq(Cell)
      <4>1. F \in Seq(Cell) /\ header \in Seq(Cell) BY <1>3, <1>4
      <4> QED BY <4>1
    <3>2. (g \o payload) \o x = SubSeq(wire, 1, taken + n) BY <1>2
    <3>3. (F \o header') \o payload' = g \o (payload \o x) BY <2>1
    <3> HIDE DEF g
    <3>4. g \in Seq(Cell) /\ payload \in Seq(Cell) /\ x \in Seq(Cell) BY <1>2, <1>3, <3>1
    <3>5. g \o (payload \o x) = (g \o payload) \o x BY <3>4, CatAssociative
    <3> QED BY <3>2, <3>3, <3>5
  <2>4. ParserType' BY <1>1, <1>2, <1>3, <1>5, <2>1, <2>2 DEF ParserInv, ParserType
  <2>5. BuffersHold'
    <3>1. Len(header) <= HeaderLen BY DEF ParserInv, BuffersHold
    <3>2. header[3] \in Nat
      <4>1. header \in Seq(Cell) /\ 3 \in 1..Len(header) BY <1>3, <2>1 DEF HeaderDone, HeaderLen
      <4>2. header[3] \in Cell BY <4>1
      <4> QED BY <4>2 DEF Cell
    <3>3. Len(payload') <= header[3] BY <1>3, <2>1, <2>2, <3>2 DEF PayloadWanted
    <3>4. HeaderDone' /\ ~BadHeader' BY <2>1 DEF HeaderDone, BadHeader
    <3> QED BY <2>1, <3>1, <3>3, <3>4 DEF BuffersHold
  <2>6. RecordsConserved' BY <1>1, <1>5, <1>6, <2>3 DEF RecordsConserved, F
  <2> QED BY <2>4, <2>5, <2>6 DEF ParserInv
<1> QED BY <1>7, <1>8

\* A frame comes out.
LEMMA YieldKeeps ==
  ASSUME ParserInv, YieldFrame
  PROVE  ParserInv'
<1> DEFINE f == header \o payload
           F == FlattenSeq(frames)
<1>1. /\ HeaderDone /\ ~BadHeader /\ PayloadWanted = 0
      /\ frames' = Append(frames, f) /\ header' = <<>> /\ payload' = <<>>
      /\ UNCHANGED <<taken, script, sent>>
  BY DEF YieldFrame, client
<1>2. Len(frames) < Len(script) /\ f = script[Len(frames) + 1].cells BY <1>1, WholeRecord
<1>3. header \in Seq(Cell) /\ payload \in Seq(Cell) /\ frames \in Seq(Seq(Cell)) /\ Len(frames) \in Nat
  BY DEF ParserInv, ParserType
<1>4. F \in Seq(Cell) BY <1>3, FlattenType
<1>5. wire' = wire BY <1>1 DEF wire
<1>6. f \in Seq(Cell) BY <1>3
<1>7. (F \o header) \o payload = SubSeq(wire, 1, taken) BY DEF ParserInv, RecordsConserved
<1>8. F \o f = (F \o header) \o payload
  <2> HIDE DEF F
  <2>1. F \in Seq(Cell) /\ header \in Seq(Cell) /\ payload \in Seq(Cell) BY <1>3, <1>4
  <2> QED BY <2>1, CatAssociative
<1> HIDE DEF f, F
<1>9. FlattenSeq(frames') = F \o f BY <1>1, <1>3, <1>6, FlattenAppend DEF F
<1>10. FlattenSeq(frames') \o header' \o payload' = SubSeq(wire', 1, taken')
  <2>1. F \o f \in Seq(Cell)
    <3>1. F \in Seq(Cell) /\ f \in Seq(Cell) BY <1>4, <1>6
    <3> QED BY <3>1
  <2>2. \A s \in Seq(Cell) : (s \o <<>>) \o <<>> = s OBVIOUS
  <2>3. FlattenSeq(frames') \o header' \o payload' = F \o f BY <1>1, <1>9, <2>1, <2>2
  <2> QED BY <1>1, <1>5, <1>7, <1>8, <2>3
<1>11. /\ frames' \in Seq(Seq(Cell)) /\ Len(frames') = Len(frames) + 1 /\ DOMAIN frames' = 1..(Len(frames) + 1)
       /\ frames'[Len(frames) + 1] = f /\ \A i \in 1..Len(frames) : frames'[i] = frames[i]
  <2> DEFINE S == Seq(Cell)
  <2> HIDE DEF S
  <2>1. frames \in Seq(S) /\ f \in S BY <1>3, <1>6 DEF S
  <2>2. /\ frames' \in Seq(S) /\ Len(frames') = Len(frames) + 1 /\ DOMAIN frames' = 1..(Len(frames) + 1)
        /\ frames'[Len(frames) + 1] = f /\ \A i \in 1..Len(frames) : frames'[i] = frames[i]
    BY <1>1, <2>1
  <2> QED BY <2>2 DEF S
<1>12. \A i \in DOMAIN frames' : frames'[i] = script'[i].cells
  <2> SUFFICES ASSUME NEW i \in 1..(Len(frames) + 1) PROVE frames'[i] = script[i].cells
    BY <1>1, <1>11
  <2>1. CASE i \in 1..Len(frames)
    <3>1. i \in DOMAIN frames BY <1>3, <2>1
    <3>2. frames[i] = script[i].cells BY <3>1 DEF ParserInv, RecordsConserved
    <3> QED BY <1>11, <2>1, <3>2
  <2>2. CASE i = Len(frames) + 1 BY <1>2, <1>11, <2>2
  <2> QED BY <1>3, <2>1, <2>2
<1>13. RecordsConserved' BY <1>10, <1>12 DEF RecordsConserved
<1>14. ParserType'
  <2>1. Len(script) \in Nat BY RecordsType DEF ParserInv, ParserType
  <2>2. Len(frames') <= Len(script) BY <1>2, <1>3, <1>11, <2>1
  <2>3. header' \in Seq(Cell) /\ payload' \in Seq(Cell) BY <1>1
  <2> QED BY <1>1, <1>5, <1>11, <2>2, <2>3 DEF ParserInv, ParserType
<1>15. BuffersHold' BY <1>1 DEF BuffersHold, HeaderLen
<1> QED BY <1>13, <1>14, <1>15 DEF ParserInv

\* The steps that leave the parser alone.
LEMMA ParserStays ==
  ASSUME ParserInv, UNCHANGED parser, script' = script, sent' \in Nat, sent <= sent', sent' <= Len(wire)
  PROVE  ParserInv'
<1>1. wire' = wire BY DEF wire
<1>2. taken' <= sent' BY DEF ParserInv, ParserType, parser
<1>3. ParserType' BY <1>1, <1>2 DEF ParserInv, ParserType, parser
<1>4. BuffersHold' BY DEF ParserInv, BuffersHold, HeaderDone, BadHeader, parser
<1>5. RecordsConserved' BY <1>1 DEF ParserInv, RecordsConserved, parser
<1> QED BY <1>3, <1>4, <1>5 DEF ParserInv

\* Nothing is read yet.
LEMMA ParserStarts == Init => ParserInv
<1> SUFFICES ASSUME Init PROVE ParserInv OBVIOUS
<1>1. /\ script \in Scripts \/ script = <<>>
      /\ taken = 0 /\ sent = 0 /\ header = <<>> /\ payload = <<>> /\ frames = <<>>
  BY DEF Init
<1>2. wire \in Seq(Cell) /\ Len(script) \in Nat BY <1>1, RecordsType
<1>3. Len(wire) \in Nat /\ SubSeq(wire, 1, 0) = <<>> BY <1>2
<1>4. <<>> \in Seq(Cell) /\ <<>> \in Seq(Seq(Cell)) /\ Len(<<>>) = 0 /\ DOMAIN <<>> = {} OBVIOUS
<1>5. ParserType BY <1>1, <1>2, <1>3, <1>4 DEF ParserType
<1>6. BuffersHold BY <1>1, <1>4 DEF BuffersHold, HeaderLen
<1>7. (<<>> \o <<>>) \o <<>> = <<>> OBVIOUS
<1>8. RecordsConserved BY <1>1, <1>3, <1>4, <1>7, FlattenEmpty DEF RecordsConserved
<1> QED BY <1>5, <1>6, <1>8 DEF ParserInv

\* Every step keeps the invariant.
LEMMA ParserSteps ==
  ASSUME ParserInv, [Next]_vars
  PROVE  ParserInv'
<1>1. sent \in Nat /\ sent <= Len(wire) /\ Len(wire) \in Nat
  <2>1. wire \in Seq(Cell) BY RecordsType DEF ParserInv, ParserType
  <2> QED BY <2>1 DEF ParserInv, ParserType
<1>2. ASSUME UNCHANGED <<parser, script, sent>> PROVE ParserInv' BY <1>1, <1>2, ParserStays
<1>3. CASE Send BY <1>1, <1>3, ParserStays DEF Send
<1>4. CASE Close BY <1>2, <1>4 DEF Close
<1>5. CASE RejectHeader \/ ReadEof \/ ReadError
  BY <1>2, <1>5 DEF RejectHeader, ReadEof, ReadError, Fruitless, client
<1>6. ASSUME NEW n \in 1..Len(wire), ReadHeader(n) \/ ReadPayload(n) PROVE ParserInv'
  BY <1>6, ReadKeeps
<1>7. CASE YieldFrame BY <1>7, YieldKeeps
<1>8. ASSUME NEW r \in Configs, Route(r) PROVE ParserInv' BY <1>2, <1>8 DEF Route, client
<1>9. CASE Join BY <1>2, <1>9 DEF Join, client
<1>10. CASE UNCHANGED vars BY <1>2, <1>10 DEF vars, client
<1> QED BY <1>3, <1>4, <1>5, <1>6, <1>7, <1>8, <1>9, <1>10 DEF Next, Read

\* For every stream of records and every cut of it into reads: TlsParser yields
\* the records as they are, and no byte is lost between its two buffers.
THEOREM RecordsComeOutWhole == Spec => []RecordsConserved
<1>1. ParserInv => RecordsConserved BY DEF ParserInv
<1>2. ParserInv /\ [Next]_vars => ParserInv' BY ParserSteps
<1> QED BY <1>1, <1>2, ParserStarts, PTL DEF Spec

-----------------------------------------------------------------------------
(* Loops that run forward over a text: a step ends the loop with a result or *)
(* goes on at a later position.                                              *)

Loops(g, from, end, stop, result, next) ==
  g = [p \in from..end |-> IF stop[p] THEN result[p] ELSE g[next[p]]]

\* Such a function exists.
LEMMA LoopExists ==
  ASSUME NEW from \in Int, NEW end \in Int, NEW stop, NEW result, NEW next,
         \A p \in from..end : ~stop[p] => next[p] \in Int /\ p < next[p] /\ next[p] <= end
  PROVE  \E g : Loops(g, from, end, stop, result, next)
<1> DEFINE P(m) == \E g : Loops(g, end - m + 1, end, stop, result, next)
           Bad == {m \in Nat : m <= end - from + 1 /\ ~P(m)}
<1>1. P(0)
  <2>1. Loops([p \in (end - 0 + 1)..end |-> {}], end - 0 + 1, end, stop, result, next) BY DEF Loops
  <2> QED BY <2>1
<1>2. ASSUME NEW m \in Nat, m + 1 <= end - from + 1, P(m) PROVE P(m + 1)
  <2>1. PICK f : Loops(f, end - m + 1, end, stop, result, next) BY <1>2
  <2> DEFINE q == end - m
             g == [p \in q..end |-> IF stop[p] THEN result[p] ELSE f[next[p]]]
  <2>2. q \in Int /\ from <= q /\ end - m + 1 = q + 1 /\ end - (m + 1) + 1 = q BY <1>2
  <2>3. f = [p \in (q + 1)..end |-> IF stop[p] THEN result[p] ELSE f[next[p]]] BY <2>1, <2>2 DEF Loops
  <2> HIDE DEF q
  <2>4. \A p \in (q + 1)..end : f[p] = IF stop[p] THEN result[p] ELSE f[next[p]] BY <2>3
  <2>5. \A p \in (q + 1)..end : g[p] = f[p]
    <3>1. \A p \in (q + 1)..end : p \in q..end BY <2>2
    <3> QED BY <2>4, <3>1
  <2>6. \A p \in q..end : (IF stop[p] THEN result[p] ELSE f[next[p]]) = (IF stop[p] THEN result[p] ELSE g[next[p]])
    <3> SUFFICES ASSUME NEW p \in q..end, ~stop[p] PROVE f[next[p]] = g[next[p]]
      OBVIOUS
    <3>1. p \in from..end BY <2>2
    <3>2. next[p] \in (q + 1)..end BY <2>2, <3>1
    <3> QED BY <2>5, <3>2
  <2>7. g = [p \in q..end |-> IF stop[p] THEN result[p] ELSE g[next[p]]] BY <2>6
  <2>8. Loops(g, q, end, stop, result, next) BY <2>7 DEF Loops
  <2> QED BY <2>2, <2>8
<1> HIDE DEF P
<1>3. Bad \in SUBSET Nat /\ 0 \notin Bad BY <1>1
<1>4. ASSUME Bad # {} PROVE FALSE
  <2>1. PICK m \in Bad : \A k \in Bad : m <= k BY <1>3, <1>4, Least
  <2>2. m \in Nat /\ m # 0 /\ m <= end - from + 1 /\ ~P(m) BY <1>3, <2>1
  <2>3. m - 1 \in Nat /\ m - 1 \notin Bad /\ m - 1 <= end - from + 1
    <3> HIDE DEF Bad
    <3> QED BY <2>1, <2>2
  <2>4. P(m - 1) BY <2>3
  <2>5. m - 1 + 1 = m BY <2>2
  <2>6. P(m) BY <1>2, <2>2, <2>3, <2>4, <2>5
  <2> QED BY <2>2, <2>6
<1>5. CASE from <= end
  <2>1. end - from + 1 \in Nat /\ end - (end - from + 1) + 1 = from BY <1>5
  <2>2. P(end - from + 1) BY <1>4, <2>1
  <2> QED BY <2>1, <2>2 DEF P
<1>6. CASE from > end
  <2>1. Loops([p \in from..end |-> {}], from, end, stop, result, next) BY <1>6 DEF Loops
  <2> QED BY <2>1
<1>7. from <= end \/ from > end OBVIOUS
<1> QED BY <1>5, <1>6, <1>7

\* What all results have in common the loop has too.
LEMMA LoopType ==
  ASSUME NEW from \in Int, NEW end \in Int, NEW stop, NEW result, NEW next, NEW g, NEW T,
         Loops(g, from, end, stop, result, next),
         \A p \in from..end : IF stop[p] THEN result[p] \in T
                              ELSE next[p] \in Int /\ p < next[p] /\ next[p] <= end,
         NEW q \in from..end
  PROVE  g[q] \in T
<1> DEFINE Bad == {m \in Nat : end - m \in from..end /\ g[end - m] \notin T}
<1>1. \A p \in from..end : g[p] = IF stop[p] THEN result[p] ELSE g[next[p]] BY DEF Loops
<1>2. Bad \in SUBSET Nat OBVIOUS
<1>3. ASSUME Bad # {} PROVE FALSE
  <2>1. PICK m \in Bad : \A k \in Bad : m <= k BY <1>2, <1>3, Least
  <2> DEFINE p == end - m
  <2>2. m \in Nat /\ p \in from..end /\ g[p] \notin T BY <2>1
  <2>3. ~stop[p] /\ g[p] = g[next[p]] /\ next[p] \in Int /\ p < next[p] /\ next[p] <= end BY <1>1, <2>2
  <2> DEFINE k == end - next[p]
  <2>4. k \in Nat /\ k < m /\ end - k = next[p] /\ next[p] \in from..end BY <2>2, <2>3
  <2>5. k \in Bad BY <2>2, <2>3, <2>4
  <2> HIDE DEF Bad, k
  <2> QED BY <2>1, <2>2, <2>4, <2>5
<1>4. end - q \in Nat /\ end - (end - q) = q OBVIOUS
<1> QED BY <1>3, <1>4

-----------------------------------------------------------------------------
(* Routing keys *)

Keys == {None} \cup {Some(s) : s \in Seq(Cell)}

\* The inner loop of extract_sni.
ListStep(g, d, p, end) ==
  LET next == p + 2 + d[p + 1]
  IN IF p + 2 > end THEN None
     ELSE IF next > end THEN None
     ELSE IF d[p] = HostName THEN Some(SubSeq(d, p + 2, next - 1))
     ELSE g[next]
IsNameInList(g, d, from, end) == g = [p \in from..end |-> ListStep(g, d, p, end)]

\* It is the loop it looks like, and yields a key or none.
LEMMA NameInListLoop ==
  ASSUME NEW d \in Seq(Cell), NEW from \in Nat, NEW end \in Nat, from >= 1, from <= end, end <= Len(d) + 1
  PROVE  /\ NameInList(d, from, end) \in Keys
         /\ \E g : IsNameInList(g, d, from, end) /\ NameInList(d, from, end) = g[from]
<1> DEFINE stop == [p \in from..end |-> p + 2 > end \/ p + 2 + d[p + 1] > end \/ d[p] = HostName]
           next == [p \in from..end |-> p + 2 + d[p + 1]]
           found(p) == IF p + 2 > end \/ p + 2 + d[p + 1] > end THEN None
                       ELSE Some(SubSeq(d, p + 2, (p + 2 + d[p + 1]) - 1))
           result == [p \in from..end |-> found(p)]
<1>1. ASSUME NEW p \in from..end, p + 2 <= end PROVE d[p + 1] \in Nat
  <2>1. p + 1 \in 1..Len(d) BY <1>1
  <2>2. d[p + 1] \in Cell BY <2>1
  <2> QED BY <2>2 DEF Cell
<1>2. ASSUME NEW p \in from..end
      PROVE  IF stop[p] THEN result[p] \in Keys ELSE next[p] \in Int /\ p < next[p] /\ next[p] <= end
  <2>1. CASE p + 2 > end BY <2>1 DEF Keys
  <2>2. CASE p + 2 <= end
    <3> DEFINE n == p + 2 + d[p + 1]
    <3>1. d[p + 1] \in Nat /\ n \in Nat /\ p < n BY <1>1, <2>2
    <3>2. CASE n > end BY <2>2, <3>1, <3>2 DEF Keys
    <3>3. CASE n <= end
      <4>1. SubSeq(d, p + 2, n - 1) \in Seq(Cell)
        <5>1. p + 2 >= 1 /\ n - 1 <= Len(d) /\ p + 2 \in Int /\ n - 1 \in Int BY <3>1, <3>3
        <5> QED BY <5>1
      <4>2. Some(SubSeq(d, p + 2, n - 1)) \in Keys BY <4>1 DEF Keys
      <4> QED BY <2>2, <3>1, <3>3, <4>2
    <3> QED BY <3>1, <3>2, <3>3
  <2> QED BY <2>1, <2>2
<1>3. ASSUME NEW g, NEW p \in from..end
      PROVE  ListStep(g, d, p, end) = IF stop[p] THEN result[p] ELSE g[next[p]]
  <2>1. stop[p] = (p + 2 > end \/ p + 2 + d[p + 1] > end \/ d[p] = HostName) BY Zenon
  <2>2. next[p] = p + 2 + d[p + 1] BY Zenon
  <2>3. result[p] = found(p)
    <3> HIDE DEF found
    <3> QED OBVIOUS
  <2>4. ListStep(g, d, p, end) = IF p + 2 > end \/ p + 2 + d[p + 1] > end \/ d[p] = HostName THEN found(p)
                                 ELSE g[p + 2 + d[p + 1]]
    <3>1. CASE p + 2 > end BY <3>1, Zenon DEF ListStep
    <3>2. CASE ~(p + 2 > end) /\ p + 2 + d[p + 1] > end BY <3>2, Zenon DEF ListStep
    <3>3. CASE ~(p + 2 > end) /\ ~(p + 2 + d[p + 1] > end) /\ d[p] = HostName
      BY <3>3, Zenon DEF ListStep
    <3>4. CASE ~(p + 2 > end) /\ ~(p + 2 + d[p + 1] > end) /\ d[p] # HostName
      BY <3>4, Zenon DEF ListStep
    <3> QED BY <3>1, <3>2, <3>3, <3>4, Zenon
  <2> HIDE DEF stop, result, next, found
  <2> QED BY <2>1, <2>2, <2>3, <2>4, Zenon
<1> HIDE DEF stop, result, next
<1>4. ASSUME NEW g PROVE IsNameInList(g, d, from, end) <=> Loops(g, from, end, stop, result, next)
  <2>1. [p \in from..end |-> ListStep(g, d, p, end)] =
          [p \in from..end |-> IF stop[p] THEN result[p] ELSE g[next[p]]]
    BY <1>3
  <2> QED BY <2>1 DEF IsNameInList, Loops
<1>5. \E g : Loops(g, from, end, stop, result, next)
  <2>1. \A p \in from..end : ~stop[p] => next[p] \in Int /\ p < next[p] /\ next[p] <= end BY <1>2
  <2>2. from \in Int /\ end \in Int OBVIOUS
  <2> QED BY <2>1, <2>2, LoopExists
<1>6. \E g : IsNameInList(g, d, from, end) BY <1>4, <1>5
<1> DEFINE name[p \in from..end] ==
             LET n == p + 2 + d[p + 1]
             IN IF p + 2 > end THEN None
                ELSE IF n > end THEN None
                ELSE IF d[p] = HostName THEN Some(SubSeq(d, p + 2, n - 1))
                ELSE name[n]
<1>7. NameInList(d, from, end) = name[from] BY DEF NameInList
<1>8. name = CHOOSE g : IsNameInList(g, d, from, end) BY DEF name, IsNameInList, ListStep
<1> HIDE DEF name
<1>9. IsNameInList(name, d, from, end) BY <1>6, <1>8
<1>10. Loops(name, from, end, stop, result, next) BY <1>4, <1>9
<1>11. from \in from..end OBVIOUS
<1>12. name[from] \in Keys
  <2>1. \A p \in from..end : IF stop[p] THEN result[p] \in Keys
                             ELSE next[p] \in Int /\ p < next[p] /\ next[p] <= end
    BY <1>2
  <2>2. from \in Int /\ end \in Int OBVIOUS
  <2> QED BY <1>10, <1>11, <2>1, <2>2, LoopType
<1> QED BY <1>7, <1>9, <1>12

\* The outer loop.
ExtensionStep(g, d, p, end) ==
  LET data == p + 2
      next == data + d[p + 1]
  IN IF data > end THEN None
     ELSE IF next > end THEN None
     ELSE IF d[p] # ServerNameExt THEN g[next]
     ELSE IF d[p + 1] < 1 \/ data + 1 + d[data] > next THEN None
     ELSE NameInList(d, data + 1, data + 1 + d[data])
IsNameInExtensions(g, d, from, end) == g = [p \in from..end |-> ExtensionStep(g, d, p, end)]

\* So it is here.
LEMMA NameInExtensionsLoop ==
  ASSUME NEW d \in Seq(Cell), NEW from \in Nat, NEW end \in Nat, from >= 1, from <= end, end <= Len(d) + 1
  PROVE  /\ NameInExtensions(d, from, end) \in Keys
         /\ \E g : IsNameInExtensions(g, d, from, end) /\ NameInExtensions(d, from, end) = g[from]
<1> DEFINE stop == [p \in from..end |-> p + 2 > end \/ p + 2 + d[p + 1] > end \/ d[p] = ServerNameExt]
           next == [p \in from..end |-> p + 2 + d[p + 1]]
           found(p) == IF p + 2 > end \/ p + 2 + d[p + 1] > end THEN None
                       ELSE IF d[p + 1] < 1 \/ p + 2 + 1 + d[p + 2] > p + 2 + d[p + 1] THEN None
                       ELSE NameInList(d, p + 2 + 1, p + 2 + 1 + d[p + 2])
           result == [p \in from..end |-> found(p)]
<1>0. \A i \in 1..Len(d) : d[i] \in Nat
  <2>1. \A i \in 1..Len(d) : d[i] \in Cell OBVIOUS
  <2> QED BY <2>1 DEF Cell
<1>1. ASSUME NEW p \in from..end, p + 2 <= end PROVE d[p + 1] \in Nat
  <2>1. p + 1 \in 1..Len(d) BY <1>1
  <2> QED BY <1>0, <2>1
<1>2. ASSUME NEW p \in from..end
      PROVE  IF stop[p] THEN result[p] \in Keys ELSE next[p] \in Int /\ p < next[p] /\ next[p] <= end
  <2>1. stop[p] = (p + 2 > end \/ p + 2 + d[p + 1] > end \/ d[p] = ServerNameExt) BY Zenon
  <2>2. next[p] = p + 2 + d[p + 1] BY Zenon
  <2>3. result[p] = found(p)
    <3> HIDE DEF found
    <3> QED OBVIOUS
  <2>4. found(p) \in Keys
    <3>1. None \in Keys BY DEF Keys
    <3>2. CASE p + 2 > end BY <3>1, <3>2
    <3>3. CASE p + 2 <= end /\ p + 2 + d[p + 1] > end BY <3>1, <3>3
    <3>4. CASE p + 2 <= end /\ ~(p + 2 + d[p + 1] > end)
      <4>1. d[p + 1] \in Nat BY <1>1, <3>4
      <4>2. CASE d[p + 1] < 1 BY <3>1, <3>4, <4>2
      <4>3. CASE d[p + 1] >= 1
        <5>1. p + 2 \in 1..Len(d) BY <3>4, <4>1, <4>3
        <5>2. d[p + 2] \in Nat BY <1>0, <5>1
        <5>3. CASE p + 2 + 1 + d[p + 2] > p + 2 + d[p + 1] BY <3>1, <3>4, <4>3, <5>3
        <5>4. CASE ~(p + 2 + 1 + d[p + 2] > p + 2 + d[p + 1])
          <6> DEFINE a == p + 2 + 1
                     b == p + 2 + 1 + d[p + 2]
          <6>1. a \in Nat /\ b \in Nat /\ a >= 1 /\ a <= b /\ b <= Len(d) + 1
            BY <3>4, <4>1, <5>1, <5>2, <5>4
          <6>2. found(p) = NameInList(d, a, b) BY <3>4, <4>1, <4>3, <5>4
          <6> HIDE DEF a, b, found
          <6>3. NameInList(d, a, b) \in Keys BY <6>1, NameInListLoop
          <6> QED BY <6>2, <6>3
        <5> QED BY <5>3, <5>4
      <4> QED BY <4>1, <4>2, <4>3
    <3> QED BY <3>2, <3>3, <3>4
  <2> HIDE DEF stop, result, next, found
  <2>5. CASE stop[p] BY <2>3, <2>4, <2>5
  <2>6. CASE ~stop[p]
    <3>1. ~(p + 2 > end) /\ ~(p + 2 + d[p + 1] > end) BY <2>1, <2>6
    <3>2. d[p + 1] \in Nat BY <1>1, <3>1
    <3>3. next[p] \in Int /\ p < next[p] /\ next[p] <= end BY <2>2, <3>1, <3>2
    <3> QED BY <2>6, <3>3
  <2> QED BY <2>5, <2>6
<1>3. ASSUME NEW g, NEW p \in from..end
      PROVE  ExtensionStep(g, d, p, end) = IF stop[p] THEN result[p] ELSE g[next[p]]
  <2>1. stop[p] = (p + 2 > end \/ p + 2 + d[p + 1] > end \/ d[p] = ServerNameExt) BY Zenon
  <2>2. next[p] = p + 2 + d[p + 1] BY Zenon
  <2>3. result[p] = found(p)
    <3> HIDE DEF found
    <3> QED OBVIOUS
  <2>4. ExtensionStep(g, d, p, end) =
           IF p + 2 > end \/ p + 2 + d[p + 1] > end \/ d[p] = ServerNameExt THEN found(p)
           ELSE g[p + 2 + d[p + 1]]
    <3>1. CASE p + 2 > end BY <3>1, Zenon DEF ExtensionStep
    <3>2. CASE ~(p + 2 > end) /\ p + 2 + d[p + 1] > end BY <3>2, Zenon DEF ExtensionStep
    <3>3. CASE ~(p + 2 > end) /\ ~(p + 2 + d[p + 1] > end) /\ d[p] = ServerNameExt
      BY <3>3, Zenon DEF ExtensionStep
    <3>4. CASE ~(p + 2 > end) /\ ~(p + 2 + d[p + 1] > end) /\ d[p] # ServerNameExt
      BY <3>4, Zenon DEF ExtensionStep
    <3> QED BY <3>1, <3>2, <3>3, <3>4, Zenon
  <2> HIDE DEF stop, result, next, found
  <2> QED BY <2>1, <2>2, <2>3, <2>4, Zenon
<1> HIDE DEF stop, result, next
<1>4. ASSUME NEW g PROVE IsNameInExtensions(g, d, from, end) <=> Loops(g, from, end, stop, result, next)
  <2>1. [p \in from..end |-> ExtensionStep(g, d, p, end)] =
          [p \in from..end |-> IF stop[p] THEN result[p] ELSE g[next[p]]]
    BY <1>3
  <2> QED BY <2>1 DEF IsNameInExtensions, Loops
<1>5. \E g : Loops(g, from, end, stop, result, next)
  <2>1. \A p \in from..end : ~stop[p] => next[p] \in Int /\ p < next[p] /\ next[p] <= end BY <1>2
  <2>2. from \in Int /\ end \in Int OBVIOUS
  <2> QED BY <2>1, <2>2, LoopExists
<1>6. \E g : IsNameInExtensions(g, d, from, end) BY <1>4, <1>5
<1> DEFINE name[p \in from..end] ==
             LET data == p + 2
                 n == data + d[p + 1]
             IN IF data > end THEN None
                ELSE IF n > end THEN None
                ELSE IF d[p] # ServerNameExt THEN name[n]
                ELSE IF d[p + 1] < 1 \/ data + 1 + d[data] > n THEN None
                ELSE NameInList(d, data + 1, data + 1 + d[data])
<1>7. NameInExtensions(d, from, end) = name[from] BY DEF NameInExtensions
<1>8. name = CHOOSE g : IsNameInExtensions(g, d, from, end)
  BY DEF name, IsNameInExtensions, ExtensionStep
<1> HIDE DEF name
<1>9. IsNameInExtensions(name, d, from, end) BY <1>6, <1>8
<1>10. Loops(name, from, end, stop, result, next) BY <1>4, <1>9
<1>11. from \in from..end OBVIOUS
<1>12. name[from] \in Keys
  <2>1. \A p \in from..end : IF stop[p] THEN result[p] \in Keys
                             ELSE next[p] \in Int /\ p < next[p] /\ next[p] <= end
    BY <1>2
  <2>2. from \in Int /\ end \in Int OBVIOUS
  <2> QED BY <1>10, <1>11, <2>1, <2>2, LoopType
<1> QED BY <1>7, <1>9, <1>12

\* extract_sni yields a key or none, whatever is in the record.
LEMMA ExtractSniType ==
  ASSUME NEW frame \in Seq(Cell)
  PROVE  ExtractSni(frame) \in Keys
<1> DEFINE d == HandshakePayload(frame)
           x == SkipField(d, SkipField(d, SkipField(d, 4)))
           end == SkipField(d, x)
<1>1. d \in Seq(Cell)
  <2>1. CASE Len(frame) > HeaderLen /\ frame[1] \in RecordType
    <3>1. d = SubSeq(frame, HeaderLen + 1, Len(frame)) BY <2>1 DEF HandshakePayload
    <3>2. HeaderLen \in 0..Len(frame) BY <2>1 DEF HeaderLen
    <3> QED BY <3>1, <3>2, CutAt
  <2>2. CASE ~(Len(frame) > HeaderLen /\ frame[1] \in RecordType) BY <2>2 DEF HandshakePayload
  <2> QED BY <2>1, <2>2
<1>2. None \in Keys BY DEF Keys
<1>3. ExtractSni(frame) = None \/ (end # 0 /\ ExtractSni(frame) = NameInExtensions(d, x + 1, end))
  BY Zenon DEF ExtractSni
<1> HIDE DEF d, x
<1>4. ASSUME end # 0
      PROVE  /\ x + 1 \in Nat /\ end \in Nat /\ x + 1 >= 1 /\ x + 1 <= end /\ end <= Len(d) + 1
  <2>1. x \in DOMAIN d /\ x + d[x] <= Len(d) /\ end = x + d[x] + 1 BY <1>4 DEF SkipField
  <2>2. x \in 1..Len(d) /\ Len(d) \in Nat BY <1>1, <2>1
  <2>3. d[x] \in Cell BY <1>1, <2>2
  <2>4. d[x] \in Nat BY <2>3 DEF Cell
  <2> QED BY <2>1, <2>2, <2>4
<1> HIDE DEF end
<1>5. ASSUME end # 0 PROVE NameInExtensions(d, x + 1, end) \in Keys
  BY <1>1, <1>4, <1>5, NameInExtensionsLoop
<1> QED BY <1>2, <1>3, <1>5

-----------------------------------------------------------------------------
(* MatchStrategy *)

\* pat is in s, behind its first j cells.
At(s, pat, j) == j + Len(pat) <= Len(s) /\ SubSeq(s, j + 1, j + Len(pat)) = pat

\* What a strategy asks of the place where the pattern is.
AtIts(how, s, pat, j) ==
  /\ At(s, pat, j)
  /\ how \in {"Exact", "Prefix"} => j = 0
  /\ how \in {"Exact", "Suffix"} => j + Len(pat) = Len(s)

\* The pattern and what is around it make up the text.
LEMMA CutAround ==
  ASSUME NEW S, NEW s \in Seq(S), NEW pat \in Seq(S), NEW j \in Nat, At(s, pat, j)
  PROVE  s = SubSeq(s, 1, j) \o pat \o SubSeq(s, j + Len(pat) + 1, Len(s))
<1> DEFINE n == Len(pat)
<1>1. n \in Nat /\ j + n \in 0..Len(s) /\ SubSeq(s, j + 1, j + n) = pat BY DEF At
<1>2. SubSeq(s, 1, j) \o pat = SubSeq(s, 1, j + n) BY <1>1, JoinPieces
<1>3. SubSeq(s, 1, j + n) \o SubSeq(s, j + n + 1, Len(s)) = s BY <1>1, CutAt
<1> QED BY <1>2, <1>3

\* What stands between two texts is found there.
LEMMA FoundBetween ==
  ASSUME NEW S, NEW f \in Seq(S), NEW pat \in Seq(S), NEW b \in Seq(S)
  PROVE  /\ Len(f \o pat \o b) = Len(f) + Len(pat) + Len(b)
         /\ At(f \o pat \o b, pat, Len(f))
<1> DEFINE s == f \o pat \o b
           j == Len(f)
           n == Len(pat)
           x == SubSeq(s, j + 1, j + n)
           g == f \o pat
<1>1. j \in Nat /\ n \in Nat /\ Len(b) \in Nat OBVIOUS
<1>2. g \in Seq(S) /\ Len(g) = j + n /\ \A i \in 1..n : g[j + i] = pat[i] OBVIOUS
<1> HIDE DEF g
<1>3. s = g \o b BY DEF g
<1>3a. s \in Seq(S) BY <1>2, <1>3
<1> HIDE DEF s
<1>4. Len(s) = j + n + Len(b) /\ \A i \in 1..(j + n) : s[i] = g[i]
  <2>1. g \in Seq(S) => Len(g \o b) = Len(g) + Len(b) /\ \A i \in 1..Len(g) : (g \o b)[i] = g[i] OBVIOUS
  <2> HIDE DEF j, n
  <2> QED BY <1>1, <1>2, <1>3, <2>1
<1> HIDE DEF j, n
<1>5. x \in Seq(S) /\ Len(x) = n /\ \A i \in 1..n : x[i] = s[j + i]
  <2>1. j + n <= Len(s) BY <1>1, <1>4
  <2>2. x \in Seq(S) BY <1>1, <1>3a, <2>1, JoinPieces
  <2>3. j + 1 \in Nat /\ j + n \in Nat /\ j + 1 >= 1 /\ Len(s) \in Nat BY <1>1, <1>3a
  <2>4. Len(x) = n /\ \A i \in 1..n : x[i] = s[(j + 1) + i - 1] BY <1>1, <1>3a, <2>1, <2>3
  <2>5. \A i \in 1..n : (j + 1) + i - 1 = j + i BY <1>1
  <2> QED BY <2>2, <2>4, <2>5
<1> HIDE DEF x
<1>6. \A i \in 1..n : x[i] = pat[i]
  <2> SUFFICES ASSUME NEW i \in 1..n PROVE x[i] = pat[i] OBVIOUS
  <2>1. j + i \in 1..(j + n) BY <1>1
  <2> QED BY <2>1, <1>2, <1>4, <1>5
<1>7. x = pat BY <1>5, <1>6, SameSequence DEF n
<1>8. Len(s) = Len(f) + Len(pat) + Len(b) /\ At(s, pat, Len(f)) BY <1>1, <1>4, <1>7 DEF At, x, j, n
<1> QED BY <1>8 DEF s

\* Fits is having the pattern at the place that the strategy asks for.
LEMMA FitsAt ==
  ASSUME NEW S, NEW k \in Seq(S), NEW pat \in Seq(S), NEW how
  PROVE  Fits(how, pat, k) <=> \E j \in Nat : AtIts(how, k, pat, j)
<1>0. Len(k) \in Nat /\ Len(pat) \in Nat OBVIOUS
<1>1. ASSUME Fits(how, pat, k) PROVE \E j \in Nat : AtIts(how, k, pat, j)
  <2>1. PICK a \in 0..Len(k), b \in 0..Len(k) :
          LET front == SubSeq(k, 1, a)
              back == SubSeq(k, b + 1, Len(k))
          IN /\ k = front \o pat \o back
             /\ how \in {"Exact", "Prefix"} => front = <<>>
             /\ how \in {"Exact", "Suffix"} => back = <<>>
    BY <1>1 DEF Fits
  <2> DEFINE f == SubSeq(k, 1, a)
             c == SubSeq(k, b + 1, Len(k))
  <2>2. f \in Seq(S) /\ Len(f) = a /\ c \in Seq(S) BY CutAt
  <2>3. k = f \o pat \o c BY <2>1
  <2>4. how \in {"Exact", "Prefix"} => f = <<>> BY <2>1
  <2>5. how \in {"Exact", "Suffix"} => c = <<>> BY <2>1
  <2> HIDE DEF f, c
  <2>6. Len(k) = Len(f) + Len(pat) + Len(c) /\ At(k, pat, Len(f))
    <3>1. /\ Len(f \o pat \o c) = Len(f) + Len(pat) + Len(c)
          /\ At(f \o pat \o c, pat, Len(f))
      BY <2>2, FoundBetween
    <3> QED BY <2>3, <3>1
  <2>7. Len(f) \in Nat /\ Len(c) \in Nat /\ Len(<<>>) = 0 BY <2>2
  <2>8. AtIts(how, k, pat, Len(f))
    <3>1. how \in {"Exact", "Prefix"} => Len(f) = 0 BY <2>4, <2>7, Zenon
    <3>2. how \in {"Exact", "Suffix"} => Len(c) = 0 BY <2>5, <2>7, Zenon
    <3>3. Len(c) = 0 => Len(f) + Len(pat) = Len(k) BY <1>0, <2>6, <2>7
    <3> QED BY <2>6, <3>1, <3>2, <3>3, Zenon DEF AtIts
  <2> QED BY <2>7, <2>8
<1>2. ASSUME NEW j \in Nat, AtIts(how, k, pat, j) PROVE Fits(how, pat, k)
  <2> DEFINE b == j + Len(pat)
             f == SubSeq(k, 1, j)
             c == SubSeq(k, b + 1, Len(k))
  <2>1. b \in 0..Len(k) /\ j \in 0..Len(k) BY <1>0, <1>2 DEF AtIts, At
  <2>2. k = f \o pat \o c BY <1>2, CutAround DEF AtIts
  <2>3. f \in Seq(S) /\ Len(f) = j /\ c \in Seq(S) /\ Len(c) = Len(k) - b BY <2>1, CutAt
  <2>4. (j = 0 => f = <<>>) /\ (b = Len(k) => c = <<>>) BY <1>0, <2>1, <2>3
  <2>5. /\ how \in {"Exact", "Prefix"} => f = <<>>
        /\ how \in {"Exact", "Suffix"} => c = <<>>
    BY <1>2, <2>4 DEF AtIts
  <2> HIDE DEF b
  <2> QED BY <2>1, <2>2, <2>5 DEF Fits
<1> QED BY <1>1, <1>2

\* Occurs counts from 1.
LEMMA OccursAt ==
  ASSUME NEW S, NEW k \in Seq(S), NEW pat \in Seq(S)
  PROVE  /\ \A j \in Nat : At(k, pat, j) <=> j + 1 \in Occurs(k, pat)
         /\ \A i \in Occurs(k, pat) : i - 1 \in Nat /\ At(k, pat, i - 1)
<1>1. Len(k) \in Nat /\ Len(pat) \in Nat OBVIOUS
<1>2. \A j \in Nat : j + 1 + (Len(pat) - 1) = j + Len(pat) BY <1>1
<1>3. \A j \in Nat : j + 1 \in 1..(Len(k) - Len(pat) + 1) <=> j + Len(pat) <= Len(k) BY <1>1
<1>4. ASSUME NEW j \in Nat PROVE At(k, pat, j) <=> j + 1 \in Occurs(k, pat)
  BY <1>2, <1>3 DEF At, Occurs
<1>5. ASSUME NEW i \in Occurs(k, pat) PROVE i - 1 \in Nat /\ At(k, pat, i - 1)
  <2>1. i \in 1..(Len(k) - Len(pat) + 1) BY DEF Occurs
  <2>2. i - 1 \in Nat /\ (i - 1) + 1 = i BY <1>1, <2>1
  <2> QED BY <1>4, <2>2
<1> QED BY <1>4, <1>5

\* is_match finds the pattern where the strategy asks for it.
LEMMA MatchIsFit ==
  ASSUME NEW S, NEW k \in Seq(S), NEW pat \in Seq(S), NEW how \in {"Exact", "Suffix", "Prefix", "Contains"}
  PROVE  IsMatch([how |-> how, pat |-> pat], k) <=> Fits(how, pat, k)
<1> DEFINE s == [how |-> how, pat |-> pat]
           n == Len(k) - Len(pat)
<1>0. Len(k) \in Nat /\ Len(pat) \in Nat /\ s.how = how /\ s.pat = pat OBVIOUS
<1>1. Fits(how, pat, k) <=> \E j \in Nat : AtIts(how, k, pat, j) BY FitsAt
<1>2. Occurs(k, pat) # {} <=> \E j \in Nat : At(k, pat, j) BY OccursAt
<1>3. CASE how = "Exact"
  <2>1. IsMatch(s, k) <=> n = 0 /\ Occurs(k, pat) # {} BY <1>0, <1>3 DEF IsMatch
  <2>2. \A j \in Nat : AtIts(how, k, pat, j) <=> At(k, pat, j) /\ n = 0 BY <1>0, <1>3 DEF AtIts, At
  <2> QED BY <1>1, <1>2, <2>1, <2>2
<1>4. CASE how = "Suffix"
  <2>1. IsMatch(s, k) <=> n >= 0 /\ SubSeq(k, n + 1, Len(k)) = pat BY <1>0, <1>4 DEF IsMatch
  <2>2. \A j \in Nat : AtIts(how, k, pat, j) <=> j = n /\ SubSeq(k, n + 1, Len(k)) = pat
    <3> SUFFICES ASSUME NEW j \in Nat
                 PROVE  AtIts(how, k, pat, j) <=> j = n /\ SubSeq(k, n + 1, Len(k)) = pat
      OBVIOUS
    <3>1. AtIts(how, k, pat, j) <=> At(k, pat, j) /\ j + Len(pat) = Len(k) BY <1>4 DEF AtIts
    <3>2. j + Len(pat) = Len(k) <=> j = n BY <1>0
    <3>3. j = n => j + Len(pat) <= Len(k) /\ j + 1 = n + 1 BY <1>0
    <3>4. j = n => (At(k, pat, j) <=> SubSeq(k, n + 1, Len(k)) = pat) BY <3>2, <3>3, Zenon DEF At
    <3> HIDE DEF n
    <3> QED BY <3>1, <3>2, <3>4, Zenon
  <2>3. n >= 0 <=> n \in Nat BY <1>0
  <2> HIDE DEF n
  <2> QED BY <1>1, <2>1, <2>2, <2>3
<1>5. CASE how = "Prefix"
  <2>1. IsMatch(s, k) <=> n >= 0 /\ SubSeq(k, 1, Len(pat)) = pat BY <1>0, <1>5 DEF IsMatch
  <2>2. \A j \in Nat : AtIts(how, k, pat, j) <=> j = 0 /\ n >= 0 /\ SubSeq(k, 1, Len(pat)) = pat
    BY <1>0, <1>5 DEF AtIts, At
  <2> HIDE DEF n
  <2> QED BY <1>1, <2>1, <2>2
<1>6. CASE how = "Contains"
  <2>1. IsMatch(s, k) <=> Occurs(k, pat) # {} BY <1>0, <1>6 DEF IsMatch
  <2>2. \A j \in Nat : AtIts(how, k, pat, j) <=> At(k, pat, j) BY <1>6 DEF AtIts
  <2> QED BY <1>1, <1>2, <2>1, <2>2
<1> QED BY <1>3, <1>4, <1>5, <1>6

\* The constructors of MatchStrategy make text of text.
LEMMA LowercaseType ==
  ASSUME NEW s \in Seq(Cell)
  PROVE  Lowercase(s) \in Seq(Cell)
<1>1. DOMAIN s = 1..Len(s) /\ Len(s) \in Nat /\ \A i \in 1..Len(s) : s[i] \in Cell OBVIOUS
<1>2. \A i \in 1..Len(s) : (IF s[i] \in 65..90 THEN s[i] + 32 ELSE s[i]) \in Cell BY <1>1 DEF Cell
<1>3. Lowercase(s) = [i \in 1..Len(s) |-> IF s[i] \in 65..90 THEN s[i] + 32 ELSE s[i]]
  BY <1>1 DEF Lowercase
<1> QED BY <1>1, <1>2, <1>3

\* MatchingRouter::route takes the first route that fits the key.
LEMMA MatchingTakesFirst ==
  ASSUME NEW r \in Configs, r.kind = "Matching", NEW k \in Seq(Cell), NEW t \in MatchingRoute(r, k)
  PROVE  \E i \in DOMAIN r.routes :
           /\ t.addr = r.routes[i].addr
           /\ Fits(r.routes[i].how, Lowercase(r.routes[i].domain), k)
           /\ \A j \in 1..(i - 1) : ~Fits(r.routes[j].how, Lowercase(r.routes[j].domain), k)
<1> DEFINE Hows == {"Exact", "Suffix", "Prefix", "Contains"}
           R == [how : Hows, domain : Seq(Cell), addr : Seq(Cell)]
           q == r.routes
           match(i) == IsMatch(Strategy(q[i].how, q[i].domain), k)
           fits(i) == Fits(q[i].how, Lowercase(q[i].domain), k)
           hits == {i \in DOMAIN q : match(i)}
<1>1. q \in Seq(R) BY RoutingAssumption DEF Cell
<1>2. DOMAIN q = 1..Len(q) /\ Len(q) \in Nat /\ \A i \in 1..Len(q) : q[i] \in R
  <2> HIDE DEF R, q
  <2> QED BY <1>1
<1>3. \A i \in 1..Len(q) : match(i) <=> fits(i)
  <2> SUFFICES ASSUME NEW i \in 1..Len(q) PROVE match(i) <=> fits(i) OBVIOUS
  <2>1. q[i].how \in Hows /\ q[i].domain \in Seq(Cell) BY <1>2
  <2>2. Lowercase(q[i].domain) \in Seq(Cell) BY <2>1, LowercaseType
  <2> HIDE DEF q
  <2>3. Strategy(q[i].how, q[i].domain) = [how |-> q[i].how, pat |-> Lowercase(q[i].domain)] BY DEF Strategy
  <2>4. IsMatch([how |-> q[i].how, pat |-> Lowercase(q[i].domain)], k) <=> fits(i)
    BY <2>1, <2>2, MatchIsFit
  <2> QED BY <2>3, <2>4
<1>4. hits # {} /\ t = Plain(q[Min(hits)].addr)
  <2>1. MatchingRoute(r, k) = IF hits = {} THEN None ELSE Some(Plain(q[Min(hits)].addr))
    BY Zenon DEF MatchingRoute
  <2> HIDE DEF hits, q
  <2> QED BY <2>1 DEF None, Some
<1>5. Min(hits) \in hits /\ \A j \in hits : Min(hits) <= j
  <2>1. hits \in SUBSET Nat BY <1>2
  <2> HIDE DEF hits
  <2>2. \E m \in hits : \A j \in hits : m <= j BY <1>4, <2>1, Least
  <2> QED BY <2>2 DEF Min
<1> DEFINE m == Min(hits)
<1> HIDE DEF m
<1>6. m \in 1..Len(q) /\ match(m) BY <1>2, <1>5 DEF m
<1>7. \A j \in 1..(m - 1) : j \in 1..Len(q) /\ ~match(j)
  <2> SUFFICES ASSUME NEW j \in 1..(m - 1) PROVE j \in 1..Len(q) /\ ~match(j) OBVIOUS
  <2>1. m \in Nat /\ j \in Nat /\ j < m /\ j \in 1..Len(q) BY <1>2, <1>6
  <2>2. j \in hits => m <= j BY <1>5 DEF m
  <2>3. j \notin hits BY <2>1, <2>2
  <2> QED BY <1>2, <2>1, <2>3
<1>8. t.addr = q[m].addr BY <1>4 DEF Plain, m
<1>9. fits(m) /\ \A j \in 1..(m - 1) : ~fits(j) BY <1>3, <1>6, <1>7
<1> HIDE DEF fits, match
<1>10. m \in DOMAIN q BY <1>2, <1>6
<1> QED BY <1>8, <1>9, <1>10 DEF fits

-----------------------------------------------------------------------------
(* The join *)

\* A route is taken once, after the key is known.
FlowInv ==
  /\ key \in Keys
  /\ router \subseteq Configs
  /\ route = "pending" => target = None
  /\ stage = "pre" => route = "pending"
  /\ FirstRouteThatFits

\* A key is text.
LEMMA FlowStarts == Init => FlowInv
<1> SUFFICES ASSUME Init PROVE FlowInv OBVIOUS
<1>1. router = None /\ route = "pending" /\ target = None BY DEF Init
<1>2. key \in Keys
  <2>1. CASE key = None BY <2>1 DEF Keys
  <2>2. ASSUME NEW line \in Lines, key = Some(line.text) PROVE key \in Keys
    BY <2>2, RoutingAssumption DEF Keys, Cell, IsKey
  <2> QED BY <2>1, <2>2 DEF Init
<1>3. FirstRouteThatFits BY <1>1 DEF FirstRouteThatFits, None
<1> QED BY <1>1, <1>2, <1>3 DEF FlowInv, None

\* The steps that route nothing.
LEMMA FlowStays ==
  ASSUME FlowInv, UNCHANGED <<key, router, route, target>>, stage' = "pre" => stage = "pre"
  PROVE  FlowInv'
BY DEF FlowInv, FirstRouteThatFits

\* The first loop sets the key before there is a route.
LEMMA FlowYields ==
  ASSUME ParserInv, FlowInv, YieldFrame
  PROVE  FlowInv'
<1>1. UNCHANGED <<router, route, target>> /\ (stage' = "pre" => stage = "pre") BY DEF YieldFrame
<1>2. CASE stage = "pre"
  <2>1. key' = ExtractSni(header \o payload) BY <1>2 DEF YieldFrame
  <2>2. header \o payload \in Seq(Cell) BY DEF ParserInv, ParserType
  <2>3. key' \in Keys BY <2>1, <2>2, ExtractSniType
  <2>4. target' = None BY <1>1, <1>2 DEF FlowInv
  <2>5. FirstRouteThatFits' BY <2>4 DEF FirstRouteThatFits, None
  <2> QED BY <1>1, <2>3, <2>4, <2>5 DEF FlowInv
<1>3. CASE stage # "pre"
  <2>1. key' = key BY <1>3 DEF YieldFrame
  <2> QED BY <1>1, <2>1, FlowStays
<1> QED BY <1>2, <1>3

\* The router takes the first route that fits.
LEMMA FlowRoutes ==
  ASSUME FlowInv, NEW r \in Configs, Route(r)
  PROVE  FlowInv'
<1>1. router' = Some(r) /\ key' = key /\ stage' = stage /\ stage # "pre" BY DEF Route
<1>2. router' \subseteq Configs BY <1>1 DEF Some
<1>3. CASE route' = "err" /\ target' = target
  <2>1. target' = None BY <1>3 DEF Route, FlowInv
  <2>2. FirstRouteThatFits' BY <2>1 DEF FirstRouteThatFits, None
  <2> QED BY <1>1, <1>2, <2>1, <2>2 DEF FlowInv
<1>4. ASSUME route' = "ok", NEW t \in UNION {Resolve(r, k) : k \in key}, target' = Some(t)
      PROVE  FlowInv'
  <2>1. ASSUME NEW q \in router', q.kind = "Matching", NEW k \in key', NEW u \in target'
        PROVE  \E i \in DOMAIN q.routes :
                 /\ u.addr = q.routes[i].addr
                 /\ Fits(q.routes[i].how, Lowercase(q.routes[i].domain), k)
                 /\ \A j \in 1..(i - 1) : ~Fits(q.routes[j].how, Lowercase(q.routes[j].domain), k)
    <3>1. q = r /\ u = t BY <1>1, <1>4, <2>1 DEF Some
    <3>2. k \in Seq(Cell) /\ key = {k} BY <1>1, <2>1 DEF FlowInv, Keys, None, Some
    <3>3. Resolve(r, k) = MatchingRoute(r, k) BY <2>1, <3>1 DEF Resolve
    <3>4. t \in MatchingRoute(r, k) BY <1>4, <3>2, <3>3
    <3> QED BY <2>1, <3>1, <3>2, <3>4, MatchingTakesFirst
  <2>2. FirstRouteThatFits' BY <2>1 DEF FirstRouteThatFits
  <2> QED BY <1>1, <1>2, <1>4, <2>2 DEF FlowInv
<1> QED BY <1>3, <1>4 DEF Route

\* Every step keeps the invariant.
LEMMA FlowSteps ==
  ASSUME ParserInv, FlowInv, [Next]_vars
  PROVE  FlowInv'
<1>1. CASE Send \/ Close BY <1>1, FlowStays DEF Send, Close, flow
<1>2. CASE RejectHeader \/ ReadEof \/ ReadError
  BY <1>2, FlowStays DEF RejectHeader, ReadEof, ReadError, Fruitless
<1>3. ASSUME NEW n \in 1..Len(wire), ReadHeader(n) \/ ReadPayload(n) PROVE FlowInv'
  BY <1>3, FlowStays DEF ReadHeader, ReadPayload, flow
<1>4. CASE YieldFrame BY <1>4, FlowYields
<1>5. ASSUME NEW r \in Configs, Route(r) PROVE FlowInv' BY <1>5, FlowRoutes
<1>6. CASE Join BY <1>6, FlowStays DEF Join
<1>7. CASE UNCHANGED vars BY <1>7, FlowStays DEF vars, flow
<1> QED BY <1>1, <1>2, <1>3, <1>4, <1>5, <1>6, <1>7 DEF Next, Read

\* For every list of routes and every key, out of a hello or a request line: a
\* MatchingRouter dials the first route that fits, and no route is left over from
\* an earlier key.
THEOREM FirstFittingRouteIsDialled == Spec => []FirstRouteThatFits
<1>1. ParserInv /\ [Next]_vars => ParserInv' BY ParserSteps
<1>2. ParserInv /\ FlowInv /\ [Next]_vars => FlowInv' BY FlowSteps
<1>3. FlowInv => FirstRouteThatFits BY DEF FlowInv
<1> QED BY <1>1, <1>2, <1>3, ParserStarts, FlowStarts, PTL DEF Spec

-----------------------------------------------------------------------------
(* The address in a text key *)

\* x is what s has behind a, up to b.
Part(x, s, a, b) ==
  /\ x \in Seq(Cell) /\ a \in Nat /\ b \in Nat /\ a <= b /\ b <= Len(s) /\ Len(x) = b - a
  /\ \A i \in 1..(b - a) : x[i] = s[a + i]

\* SubSeq cuts out a part.
LEMMA PartIs ==
  ASSUME NEW s \in Seq(Cell), NEW a \in Nat, NEW b \in Nat, a <= b, b <= Len(s)
  PROVE  Part(SubSeq(s, a + 1, b), s, a, b)
BY DEF Part

\* A text is its whole.
LEMMA WholePart ==
  ASSUME NEW s \in Seq(Cell)
  PROVE  Part(s, s, 0, Len(s))
BY DEF Part

\* There is one text between two places.
LEMMA PartIsOne ==
  ASSUME NEW s, NEW a, NEW b, NEW x, NEW y, Part(x, s, a, b), Part(y, s, a, b)
  PROVE  x = y
<1>1. x \in Seq(Cell) /\ y \in Seq(Cell) /\ Len(x) = Len(y) /\ Len(x) = b - a BY DEF Part
<1>2. \A i \in 1..Len(x) : x[i] = y[i] BY <1>1 DEF Part
<1> QED BY <1>1, <1>2, SameSequence

\* A part of a part.
LEMMA PartOfPart ==
  ASSUME NEW s \in Seq(Cell), NEW x, NEW y, NEW a, NEW b, NEW c, NEW d, Part(x, s, a, b), Part(y, x, c, d)
  PROVE  Part(y, s, a + c, a + d)
<1>1. /\ a \in Nat /\ b \in Nat /\ c \in Nat /\ d \in Nat /\ Len(x) = b - a /\ d <= Len(x) /\ c <= d
      /\ b <= Len(s) /\ y \in Seq(Cell) /\ Len(y) = d - c
  BY DEF Part
<1> QED BY <1>1 DEF Part

\* A cell of a part is where it was.
LEMMA CellOfPart ==
  ASSUME NEW s \in Seq(Cell), NEW x, NEW a, NEW b, Part(x, s, a, b), NEW i \in Nat, a < i, i <= b
  PROVE  i - a \in 1..Len(x) /\ x[i - a] = s[i]
<1>1. a \in Nat /\ b \in Nat /\ Len(x) = b - a BY DEF Part
<1>2. i - a \in 1..(b - a) /\ a + (i - a) = i BY <1>1
<1> QED BY <1>1, <1>2 DEF Part

\* The first of some numbers.
LEMMA MinIs ==
  ASSUME NEW T \in SUBSET Nat, T # {}
  PROVE  Min(T) \in T /\ \A k \in T : Min(T) <= k
<1>1. \E m \in T : \A k \in T : m <= k BY Least
<1> QED BY <1>1 DEF Min

\* It is the one that none is below.
LEMMA MinIsOne ==
  ASSUME NEW T \in SUBSET Nat, NEW m \in T, \A k \in T : m <= k
  PROVE  Min(T) = m
<1>1. Min(T) \in T /\ \A k \in T : Min(T) <= k BY MinIs
<1>2. Min(T) <= m /\ m <= Min(T) /\ Min(T) \in Nat /\ m \in Nat BY <1>1
<1> HIDE DEF Min
<1> QED BY <1>2

\* The pattern does not occur before k.
NoneBefore(s, pat, k) == \A j \in Nat : j < k => ~At(s, pat, j)

\* Where Occurs has its least member.
LEMMA MinOccurs ==
  ASSUME NEW s \in Seq(Cell), NEW pat \in Seq(Cell), Occurs(s, pat) # {}
  PROVE  \E k \in Nat : Min(Occurs(s, pat)) = k + 1 /\ At(s, pat, k) /\ NoneBefore(s, pat, k)
<1> DEFINE O == Occurs(s, pat)
           m == Min(O)
<1>1. \A i \in O : i - 1 \in Nat /\ At(s, pat, i - 1) BY OccursAt
<1>2. O \in SUBSET Nat
  <2>1. Len(s) \in Nat /\ Len(pat) \in Nat OBVIOUS
  <2> QED BY <2>1 DEF Occurs
<1> HIDE DEF O
<1>3. m \in O /\ \A k \in O : m <= k BY <1>2, MinIs DEF O
<1> HIDE DEF m
<1>4. m - 1 \in Nat /\ At(s, pat, m - 1) /\ m \in Nat BY <1>1, <1>2, <1>3
<1>5. ASSUME NEW j \in Nat, j < m - 1 PROVE ~At(s, pat, j)
  <2>1. At(s, pat, j) <=> j + 1 \in O BY OccursAt DEF O
  <2>2. j + 1 \in O => m <= j + 1 BY <1>3
  <2> QED BY <1>4, <1>5, <2>1, <2>2
<1>6. m = (m - 1) + 1 BY <1>4
<1>7. NoneBefore(s, pat, m - 1) BY <1>4, <1>5 DEF NoneBefore
<1> QED BY <1>4, <1>6, <1>7 DEF m, O

\* split(pat).next() is all of the text, or it ends before the pattern.
LEMMA BeforeIs ==
  ASSUME NEW s \in Seq(Cell), NEW pat \in Seq(Cell)
  PROVE  \E k \in Nat : /\ Part(Before(s, pat), s, 0, k) /\ NoneBefore(s, pat, k)
                        /\ k = Len(s) \/ At(s, pat, k)
<1>0. Len(s) \in Nat /\ Len(pat) \in Nat OBVIOUS
<1>1. CASE Occurs(s, pat) = {}
  <2>1. NoneBefore(s, pat, Len(s)) BY <1>1, OccursAt DEF NoneBefore
  <2>2. Before(s, pat) = s BY <1>1 DEF Before
  <2> QED BY <1>0, <2>1, <2>2, WholePart
<1>2. CASE Occurs(s, pat) # {}
  <2>1. PICK k \in Nat : Min(Occurs(s, pat)) = k + 1 /\ At(s, pat, k) /\ NoneBefore(s, pat, k)
    BY <1>2, MinOccurs
  <2>2. Before(s, pat) = SubSeq(s, 1, (k + 1) - 1) BY <1>2, <2>1, Zenon DEF Before
  <2>3. (k + 1) - 1 = k /\ 0 <= k /\ k <= Len(s) BY <1>0, <2>1 DEF At
  <2>4. Part(SubSeq(s, 0 + 1, k), s, 0, k) BY <2>3, PartIs
  <2> QED BY <2>1, <2>2, <2>3, <2>4
<1> QED BY <1>1, <1>2

\* What the split leaves is behind the pattern.
LEMMA AfterIs ==
  ASSUME NEW s \in Seq(Cell), NEW pat \in Seq(Cell), Occurs(s, pat) # {}
  PROVE  \E k \in Nat : /\ Part(After(s, pat), s, k + Len(pat), Len(s))
                        /\ NoneBefore(s, pat, k) /\ At(s, pat, k)
<1>0. Len(s) \in Nat /\ Len(pat) \in Nat OBVIOUS
<1>1. PICK k \in Nat : Min(Occurs(s, pat)) = k + 1 /\ At(s, pat, k) /\ NoneBefore(s, pat, k) BY MinOccurs
<1>2. After(s, pat) = SubSeq(s, k + 1 + Len(pat), Len(s)) BY <1>1, Zenon DEF After
<1>3. k + 1 + Len(pat) = (k + Len(pat)) + 1 /\ k + Len(pat) <= Len(s) /\ k + Len(pat) \in Nat
  BY <1>0, <1>1 DEF At
<1>4. Part(SubSeq(s, (k + Len(pat)) + 1, Len(s)), s, k + Len(pat), Len(s)) BY <1>0, <1>3, PartIs
<1> QED BY <1>1, <1>2, <1>3, <1>4

\* A single cell occurs where it is.
LEMMA CellAt ==
  ASSUME NEW s \in Seq(Cell), NEW c \in Cell, NEW j \in Nat
  PROVE  At(s, <<c>>, j) <=> j + 1 <= Len(s) /\ s[j + 1] = c
<1>1. Len(<<c>>) = 1 /\ <<c>>[1] = c /\ <<c>> \in Seq(Cell) /\ Len(s) \in Nat OBVIOUS
<1>2. CASE j + 1 <= Len(s)
  <2> DEFINE x == SubSeq(s, j + 1, j + 1)
  <2>1. Part(x, s, j, j + 1) BY <1>1, <1>2, PartIs
  <2>2. x \in Seq(Cell) /\ Len(x) = 1 /\ x[1] = s[j + 1] BY <2>1 DEF Part
  <2> HIDE DEF x
  <2>3. x = <<c>> <=> s[j + 1] = c
    <3>1. x = <<c>> => s[j + 1] = c BY <1>1, <2>2
    <3>2. ASSUME s[j + 1] = c PROVE x = <<c>>
      <4>1. \A i \in 1..Len(x) : x[i] = <<c>>[i] BY <1>1, <2>2, <3>2
      <4> QED BY <1>1, <2>2, <4>1, SameSequence
    <3> QED BY <3>1, <3>2
  <2> QED BY <1>1, <1>2, <2>3 DEF At, x
<1>3. CASE ~(j + 1 <= Len(s)) BY <1>1, <1>3 DEF At
<1> QED BY <1>2, <1>3

\* What is between a scheme and an authority.
Scheme == <<Colon, Slash, Slash>>

\* The separator of a scheme occurs where its three cells are.
LEMMA SchemeIsAt ==
  ASSUME NEW s \in Seq(Cell), NEW j \in Nat
  PROVE  At(s, Scheme, j) <=> j + 3 <= Len(s) /\ SchemeAt(s, j + 1)
<1>1. /\ Len(Scheme) = 3 /\ Scheme[1] = Colon /\ Scheme[2] = Slash /\ Scheme[3] = Slash
      /\ Scheme \in Seq(Cell) /\ Len(s) \in Nat
  BY DEF Scheme, Colon, Slash, Cell
<1>2. CASE j + 3 <= Len(s)
  <2> DEFINE x == SubSeq(s, j + 1, j + 3)
  <2>1. Part(x, s, j, j + 3) BY <1>1, <1>2, PartIs
  <2>2. x \in Seq(Cell) /\ Len(x) = 3 BY <2>1 DEF Part
  <2>3. x[1] = s[j + 1] /\ x[2] = s[j + 2] /\ x[3] = s[j + 3] BY <2>1 DEF Part
  <2> HIDE DEF x
  <2>4. x = Scheme <=> x[1] = Colon /\ x[2] = Slash /\ x[3] = Slash
    <3>1. x = Scheme => x[1] = Colon /\ x[2] = Slash /\ x[3] = Slash BY <1>1
    <3>2. ASSUME x[1] = Colon, x[2] = Slash, x[3] = Slash PROVE x = Scheme
      <4>1. \A i \in 1..Len(x) : x[i] = Scheme[i] BY <1>1, <2>2, <3>2
      <4> QED BY <1>1, <2>2, <4>1, SameSequence
    <3> QED BY <3>1, <3>2
  <2>5. (j + 1) + 1 = j + 2 /\ (j + 1) + 2 = j + 3 OBVIOUS
  <2>6. SchemeAt(s, j + 1) <=> s[j + 1] = Colon /\ s[j + 2] = Slash /\ s[j + 3] = Slash
    BY <2>5 DEF SchemeAt
  <2> QED BY <1>1, <1>2, <2>3, <2>4, <2>6 DEF At, x
<1>3. CASE ~(j + 3 <= Len(s)) BY <1>1, <1>3 DEF At
<1> QED BY <1>2, <1>3

\* s has no c behind a, up to k, and then there is one, or the part ends.
CellEnds(s, c, a, k, b) ==
  /\ k \in Nat /\ a <= k /\ k <= b
  /\ \A i \in Nat : a < i /\ i <= k => s[i] # c
  /\ k = b \/ s[k + 1] = c

\* What is before a cell, in a part.
LEMMA BeforeCell ==
  ASSUME NEW s \in Seq(Cell), NEW x, NEW a, NEW b, Part(x, s, a, b),
         NEW c \in Cell, NEW k, CellEnds(s, c, a, k, b)
  PROVE  Part(Before(x, <<c>>), s, a, k)
<1>1. a \in Nat /\ b \in Nat /\ k \in Nat /\ a <= k /\ k <= b /\ x \in Seq(Cell) /\ Len(x) = b - a
  BY DEF Part, CellEnds
<1>2. <<c>> \in Seq(Cell) OBVIOUS
<1>3. PICK m \in Nat : /\ Part(Before(x, <<c>>), x, 0, m) /\ NoneBefore(x, <<c>>, m)
                       /\ m = Len(x) \/ At(x, <<c>>, m)
  BY <1>1, <1>2, BeforeIs
<1>4. m <= Len(x) BY <1>3 DEF Part
<1>5. ASSUME m < k - a PROVE FALSE
  <2>1. At(x, <<c>>, m) BY <1>1, <1>3, <1>5
  <2>2. x[m + 1] = c BY <1>1, <2>1, CellAt
  <2>3. a + (m + 1) \in Nat /\ a < a + (m + 1) /\ a + (m + 1) <= k /\ m + 1 \in 1..(b - a) BY <1>1, <1>5
  <2>4. x[m + 1] = s[a + (m + 1)] BY <2>3 DEF Part
  <2>5. s[a + (m + 1)] # c BY <2>3 DEF CellEnds
  <2> QED BY <2>2, <2>4, <2>5
<1>6. ASSUME k - a < m PROVE FALSE
  <2>1. k < b /\ k - a \in Nat /\ (k - a) + 1 \in 1..(b - a) /\ a + ((k - a) + 1) = k + 1
    BY <1>1, <1>4, <1>6
  <2>2. s[k + 1] = c BY <1>1, <2>1 DEF CellEnds
  <2>3. x[(k - a) + 1] = s[a + ((k - a) + 1)] BY <2>1 DEF Part
  <2>4. At(x, <<c>>, k - a)
    <3>1. (k - a) + 1 <= Len(x) /\ x[(k - a) + 1] = c BY <1>1, <2>1, <2>2, <2>3
    <3> QED BY <1>1, <2>1, <3>1, CellAt
  <2> QED BY <1>3, <1>6, <2>1, <2>4 DEF NoneBefore
<1>7. m = k - a BY <1>1, <1>5, <1>6
<1>8. Part(Before(x, <<c>>), s, a + 0, a + m) BY <1>3, PartOfPart
<1>9. a + 0 = a /\ a + m = k BY <1>1, <1>7
<1> QED BY <1>8, <1>9

\* The scheme's separator of a part is in the text.
LEMMA SchemeOfPart ==
  ASSUME NEW s \in Seq(Cell), NEW x, NEW a, NEW b, Part(x, s, a, b), NEW j \in Nat
  PROVE  At(x, Scheme, j) <=> a + j + 3 <= b /\ SchemeAt(s, a + j + 1)
<1>1. a \in Nat /\ b \in Nat /\ x \in Seq(Cell) /\ Len(x) = b - a BY DEF Part
<1>2. At(x, Scheme, j) <=> j + 3 <= Len(x) /\ SchemeAt(x, j + 1) BY <1>1, SchemeIsAt
<1>3. j + 3 <= Len(x) <=> a + j + 3 <= b BY <1>1
<1>4. ASSUME j + 3 <= Len(x) PROVE SchemeAt(x, j + 1) <=> SchemeAt(s, a + j + 1)
  <2>1. j + 1 \in 1..(b - a) /\ (j + 1) + 1 \in 1..(b - a) /\ (j + 1) + 2 \in 1..(b - a) BY <1>1, <1>4
  <2>2. /\ x[j + 1] = s[a + (j + 1)] /\ x[(j + 1) + 1] = s[a + ((j + 1) + 1)]
        /\ x[(j + 1) + 2] = s[a + ((j + 1) + 2)]
    BY <2>1 DEF Part
  <2>3. /\ a + (j + 1) = a + j + 1 /\ a + ((j + 1) + 1) = (a + j + 1) + 1
        /\ a + ((j + 1) + 2) = (a + j + 1) + 2
    BY <1>1
  <2> QED BY <2>2, <2>3 DEF SchemeAt
<1> QED BY <1>2, <1>3, <1>4

-----------------------------------------------------------------------------
(* The second word *)

\* The second word of a line begins behind m: WordStarts has a member less.
LEMMA SecondWord ==
  ASSUME NEW s \in Seq(Cell), NEW m \in 1..Len(s), NEW e \in 1..(Len(s) + 1), UriAt(s, m, e)
  PROVE  LET starts == WordStarts(s)
         IN /\ starts # {} /\ Min(starts) = 1 /\ starts # {Min(starts)}
            /\ Min(starts \ {Min(starts)}) = m + 1
<1> DEFINE starts == WordStarts(s)
<1>1. Len(s) \in Nat /\ DOMAIN s = 1..Len(s) /\ m \in Nat /\ e \in Nat OBVIOUS
<1>2. /\ 1 < m /\ m + 1 < e /\ s[m] = Space
      /\ \A i \in 1..(m - 1) : s[i] # Space
      /\ \A i \in (m + 1)..(e - 1) : s[i] # Space
  BY DEF UriAt
<1>3. starts \in SUBSET Nat BY <1>1 DEF WordStarts
<1>4. 1 \in starts BY <1>1, <1>2 DEF WordStarts
<1>5. m + 1 \in starts /\ m + 1 # 1
  <2>1. m + 1 \in DOMAIN s /\ m + 1 \in (m + 1)..(e - 1) /\ (m + 1) - 1 = m BY <1>1, <1>2
  <2> QED BY <1>1, <1>2, <2>1 DEF WordStarts
<1>6. ASSUME NEW i \in starts, i # 1 PROVE m + 1 <= i
  <2>1. i \in 1..Len(s) /\ s[i] # Space /\ s[i - 1] = Space BY <1>1, <1>6 DEF WordStarts
  <2>2. i - 1 \in 1..(m - 1) => FALSE BY <1>2, <2>1
  <2>3. i # m BY <1>2, <2>1
  <2> QED BY <1>1, <1>6, <2>1, <2>2, <2>3
<1>7. \A i \in starts : 1 <= i BY <1>1 DEF WordStarts
<1> HIDE DEF starts
<1>8. Min(starts) = 1 BY <1>3, <1>4, <1>7, MinIsOne
<1> DEFINE rest == starts \ {1}
<1>9. rest \in SUBSET Nat /\ m + 1 \in rest /\ \A i \in rest : m + 1 <= i BY <1>3, <1>5, <1>6
<1> HIDE DEF rest
<1>10. Min(rest) = m + 1 BY <1>9, MinIsOne
<1>11. starts # {1} BY <1>5
<1> QED BY <1>4, <1>8, <1>10, <1>11 DEF rest, starts

\* extract_host looks at the second word.
LEMMA UriIsTaken ==
  ASSUME NEW s \in Seq(Cell), Utf8(s), NEW m \in 1..Len(s), NEW e \in 1..(Len(s) + 1), UriAt(s, m, e)
  PROVE  \E uri : /\ Part(uri, s, m, e - 1)
                  /\ ExtractHost(s) = IF Occurs(uri, Scheme) # {}
                                        THEN Some(Before(Before(After(uri, Scheme), Scheme), <<Slash>>))
                                        ELSE Some(TrimSlashes(uri))
<1> DEFINE starts == WordStarts(s)
           x == SubSeq(s, m + 1, Len(s))
           uri == Before(x, <<Space>>)
<1>1. starts # {} /\ starts # {Min(starts)} /\ Min(starts \ {Min(starts)}) = m + 1 BY SecondWord
<1>2. Len(s) \in Nat /\ m \in Nat /\ e \in Nat /\ m <= Len(s) /\ m + 1 < e /\ e <= Len(s) + 1 BY DEF UriAt
<1>3. Part(x, s, m, Len(s)) BY <1>2, PartIs
<1>4. CellEnds(s, Space, m, e - 1, Len(s))
  <2>1. e - 1 \in Nat /\ m <= e - 1 /\ e - 1 <= Len(s) /\ (e - 1) + 1 = e BY <1>2
  <2>2. \A i \in Nat : m < i /\ i <= e - 1 => i \in (m + 1)..(e - 1) BY <1>2
  <2>3. \A i \in (m + 1)..(e - 1) : s[i] # Space BY DEF UriAt
  <2>4. e = Len(s) + 1 \/ s[e] = Space BY DEF UriAt
  <2>5. e = Len(s) + 1 => e - 1 = Len(s) BY <1>2
  <2> QED BY <2>1, <2>2, <2>3, <2>4, <2>5 DEF CellEnds
<1>5. Space \in Cell BY DEF Space, Cell
<1> HIDE DEF x
<1>6. Part(uri, s, m, e - 1) BY <1>3, <1>4, <1>5, BeforeCell
<1>7. ExtractHost(s) = IF Occurs(uri, Scheme) # {}
                         THEN Some(Before(Before(After(uri, Scheme), Scheme), <<Slash>>))
                         ELSE Some(TrimSlashes(uri))
  <2> HIDE DEF starts
  <2> QED BY <1>1, Zenon DEF ExtractHost, Scheme, starts, x
<1> HIDE DEF uri
<1> QED BY <1>6, <1>7

-----------------------------------------------------------------------------
(* The authority *)

\* What an authority is made of.
Clean(at) ==
  /\ at \in Seq(Cell) /\ at # <<>> /\ at[Len(at)] # Colon
  /\ \A i \in 1..Len(at) : at[i] # Slash /\ at[i] # Space

\* The cells of the authority, in the text that names it.
LEMMA AuthorityIsThere ==
  ASSUME NEW s \in Seq(Cell), NEW at, Clean(at), NEW j \in Nat, NEW e \in Nat, e <= Len(s) + 1, NamesAt(s, at, j, e)
  PROVE  LET k == j + Len(at)
         IN /\ Part(at, s, j, k) /\ k \in Nat /\ j < k /\ k <= e - 1
            /\ s[k] # Colon /\ \A i \in Nat : j < i /\ i <= k => s[i] # Slash /\ s[i] # Space
            /\ k = e - 1 \/ s[k + 1] = Slash
<1> DEFINE k == j + Len(at)
<1>1. at \in Seq(Cell) /\ at # <<>> BY DEF Clean
<1>2. Len(at) \in Nat /\ Len(at) > 0 /\ Len(s) \in Nat BY <1>1
<1>3. k < e /\ SubSeq(s, j + 1, k) = at /\ (k + 1 = e \/ s[k + 1] = Slash) BY DEF NamesAt
<1>4. k \in Nat /\ j < k /\ k <= e - 1 /\ k <= Len(s) /\ j <= k /\ (k + 1 = e => k = e - 1) BY <1>2, <1>3
<1> HIDE DEF k
<1>5. Part(at, s, j, k) BY <1>3, <1>4, PartIs
<1>6. ASSUME NEW i \in Nat, j < i, i <= k PROVE s[i] # Slash /\ s[i] # Space
  <2>1. i - j \in 1..Len(at) /\ at[i - j] = s[i] BY <1>5, <1>6, CellOfPart
  <2> QED BY <2>1 DEF Clean
<1>7. s[k] # Colon
  <2>1. k - j \in 1..Len(at) /\ at[k - j] = s[k] BY <1>4, <1>5, CellOfPart
  <2>2. k - j = Len(at) BY <1>2 DEF k
  <2> QED BY <2>1, <2>2 DEF Clean
<1> QED BY <1>3, <1>4, <1>5, <1>6, <1>7 DEF k

\* What is between the scheme and the path.
LEMMA HostBehindScheme ==
  ASSUME NEW s \in Seq(Cell), NEW at, Clean(at), NEW j \in Nat, NEW e \in Nat, e <= Len(s) + 1,
         NamesAt(s, at, j, e), NEW v, Part(v, s, j, e - 1)
  PROVE  Before(Before(v, Scheme), <<Slash>>) = at
<1> DEFINE k == j + Len(at)
           w == Before(v, Scheme)
<1>1. /\ Part(at, s, j, k) /\ k \in Nat /\ j < k /\ k <= e - 1
      /\ s[k] # Colon /\ \A i \in Nat : j < i /\ i <= k => s[i] # Slash /\ s[i] # Space
      /\ k = e - 1 \/ s[k + 1] = Slash
  BY AuthorityIsThere
<1> HIDE DEF k
<1>2. v \in Seq(Cell) /\ Len(v) = (e - 1) - j BY DEF Part
<1>3. Scheme \in Seq(Cell) /\ Slash \in Cell BY DEF Scheme, Colon, Slash, Cell
<1>4. PICK n \in Nat : Part(w, v, 0, n) /\ NoneBefore(v, Scheme, n) /\ (n = Len(v) \/ At(v, Scheme, n))
  BY <1>2, <1>3, BeforeIs
<1> HIDE DEF w
<1>5. n <= Len(v) /\ (n = Len(v) \/ (j + n + 3 <= e - 1 /\ SchemeAt(s, j + n + 1)))
  BY <1>4, SchemeOfPart DEF Part
<1>6. Part(w, s, j, j + n)
  <2>1. Part(w, s, j + 0, j + n) BY <1>4, PartOfPart
  <2> QED BY <2>1
<1>7. k <= j + n /\ (k = j + n \/ s[k + 1] = Slash)
  <2>1. CASE n = Len(v) BY <1>1, <1>2, <2>1
  <2>2. CASE j + n + 3 <= e - 1 /\ SchemeAt(s, j + n + 1)
    <3> DEFINE q == j + n + 1
    <3>1. q \in Nat /\ q + 1 \in Nat /\ j < q /\ q + 2 <= e - 1 BY <2>2
    <3>2. s[q] = Colon /\ s[q + 1] = Slash BY <2>2 DEF SchemeAt
    <3> HIDE DEF q
    <3>3. ~(q + 1 <= k) BY <1>1, <3>1, <3>2
    <3>4. q # k BY <1>1, <3>2
    <3>5. q # k + 1 \/ s[k + 1] # Slash BY <3>2 DEF Colon, Slash
    <3>6. k < q BY <1>1, <3>1, <3>3, <3>4
    <3>7. k <= j + n BY <1>1, <3>6 DEF q
    <3>8. k # e - 1 BY <1>1, <3>1, <3>6
    <3> QED BY <1>1, <3>7, <3>8
  <2> QED BY <1>5, <2>1, <2>2
<1>8. CellEnds(s, Slash, j, k, j + n) BY <1>1, <1>7 DEF CellEnds
<1>9. Part(Before(w, <<Slash>>), s, j, k) BY <1>3, <1>6, <1>8, BeforeCell
<1> QED BY <1>1, <1>9, PartIsOne DEF w

\* Of an absolute URI, extract_host takes the authority.
LEMMA AbsoluteHost ==
  ASSUME NEW s \in Seq(Cell), Utf8(s), NEW m \in 1..Len(s), NEW e \in 1..(Len(s) + 1), UriAt(s, m, e),
         NEW at, Clean(at), NEW j \in 1..Len(s), NamesAt(s, at, j, e),
         m + 3 <= j, SchemeAt(s, j - 2), \A i \in (m + 1)..(j - 3) : s[i] # Colon
  PROVE  ExtractHost(s) = Some(at)
<1>1. PICK uri : /\ Part(uri, s, m, e - 1)
                 /\ ExtractHost(s) = IF Occurs(uri, Scheme) # {}
                                       THEN Some(Before(Before(After(uri, Scheme), Scheme), <<Slash>>))
                                       ELSE Some(TrimSlashes(uri))
  BY UriIsTaken
<1>2. m \in Nat /\ e \in Nat /\ j \in Nat /\ Len(s) \in Nat /\ e <= Len(s) + 1 OBVIOUS
<1>3. j < e
  <2>1. Len(at) \in Nat BY DEF Clean
  <2> QED BY <1>2, <2>1 DEF NamesAt
<1>4. uri \in Seq(Cell) /\ Len(uri) = (e - 1) - m BY <1>1 DEF Part
<1>5. Scheme \in Seq(Cell) /\ Len(Scheme) = 3 BY DEF Scheme, Colon, Slash, Cell
<1> DEFINE n == j - m - 3
<1>6. n \in Nat /\ m + n + 3 = j /\ m + n + 1 = j - 2 BY <1>2
<1> HIDE DEF n
<1>7. At(uri, Scheme, n)
  <2>1. m + n + 3 <= e - 1 /\ SchemeAt(s, m + n + 1) BY <1>2, <1>3, <1>6
  <2> QED BY <1>1, <1>6, <2>1, SchemeOfPart
<1>8. Occurs(uri, Scheme) # {} BY <1>4, <1>5, <1>6, <1>7, OccursAt
<1>9. PICK k \in Nat : /\ Part(After(uri, Scheme), uri, k + Len(Scheme), Len(uri))
                       /\ NoneBefore(uri, Scheme, k) /\ At(uri, Scheme, k)
  BY <1>4, <1>5, <1>8, AfterIs
<1>10. k = n
  <2>1. ~(n < k) BY <1>6, <1>7, <1>9 DEF NoneBefore
  <2>2. ASSUME k < n PROVE FALSE
    <3>1. m + k + 3 <= e - 1 /\ SchemeAt(s, m + k + 1) BY <1>1, <1>9, SchemeOfPart
    <3>2. s[m + k + 1] = Colon BY <3>1 DEF SchemeAt
    <3>3. m + k + 1 \in (m + 1)..(j - 3) BY <1>2, <1>6, <2>2
    <3> QED BY <3>2, <3>3
  <2> QED BY <1>6, <2>1, <2>2
<1> DEFINE v == After(uri, Scheme)
<1> HIDE DEF v
<1>11. Part(v, s, j, e - 1)
  <2>1. Part(v, s, m + (k + 3), m + Len(uri)) BY <1>1, <1>5, <1>9, PartOfPart DEF v
  <2>2. m + (k + 3) = j /\ m + Len(uri) = e - 1 BY <1>2, <1>4, <1>6, <1>10
  <2> QED BY <2>1, <2>2
<1>12. Before(Before(v, Scheme), <<Slash>>) = at BY <1>2, <1>11, HostBehindScheme
<1> QED BY <1>1, <1>8, <1>12 DEF v

\* trim_start_matches('/') goes up to the first cell that is no slash.
LEMMA TrimmedAt ==
  ASSUME NEW s \in Seq(Cell), NEW x, NEW a, NEW b, Part(x, s, a, b), NEW j \in Nat, a <= j, j < b,
         s[j + 1] # Slash, \A i \in Nat : a < i /\ i <= j => s[i] = Slash
  PROVE  Part(TrimSlashes(x), s, j, b)
<1> DEFINE rest == {i \in DOMAIN x : x[i] # Slash}
           n == (j - a) + 1
<1>1. x \in Seq(Cell) /\ Len(x) = b - a /\ a \in Nat /\ b \in Nat BY DEF Part
<1>2. DOMAIN x = 1..(b - a) BY <1>1
<1>3. n \in 1..(b - a) /\ a + n = j + 1 BY <1>1
<1>4. rest \in SUBSET Nat BY <1>1, <1>2
<1>5. n \in rest
  <2>1. x[n] = s[a + n] BY <1>3 DEF Part
  <2> QED BY <1>2, <1>3, <2>1
<1>6. ASSUME NEW i \in rest PROVE n <= i
  <2>1. i \in 1..(b - a) /\ x[i] # Slash /\ x[i] = s[a + i] BY <1>2 DEF Part
  <2>2. a + i \in Nat /\ a < a + i /\ (i < n => a + i <= j) BY <1>1, <2>1
  <2> QED BY <1>1, <2>1, <2>2
<1> HIDE DEF rest
<1>7. Min(rest) = n BY <1>4, <1>5, <1>6, MinIsOne
<1>8. TrimSlashes(x) = SubSeq(x, n, Len(x)) BY <1>5, <1>7 DEF TrimSlashes, rest
<1>9. (j - a) \in Nat /\ Len(x) \in Nat /\ (j - a) <= Len(x) /\ n = (j - a) + 1 BY <1>1
<1>10. Part(SubSeq(x, (j - a) + 1, Len(x)), x, j - a, Len(x)) BY <1>1, <1>9, PartIs
<1>11. Part(TrimSlashes(x), s, a + (j - a), a + Len(x)) BY <1>8, <1>10, PartOfPart
<1>12. a + (j - a) = j /\ a + Len(x) = b BY <1>1
<1> QED BY <1>11, <1>12

\* Of another URI, extract_host takes all of it but the slashes in front.
LEMMA PlainHost ==
  ASSUME NEW s \in Seq(Cell), Utf8(s), NEW m \in 1..Len(s), NEW e \in 1..(Len(s) + 1), UriAt(s, m, e),
         NEW at, Clean(at), NEW j \in 1..Len(s), m <= j, NamesAt(s, at, j, e),
         \A i \in (m + 1)..j : s[i] = Slash, \A i \in (m + 1)..(e - 3) : ~SchemeAt(s, i)
  PROVE  \E x : ExtractHost(s) = Some(x) /\ Part(x, s, j, e - 1)
<1>1. PICK uri : /\ Part(uri, s, m, e - 1)
                 /\ ExtractHost(s) = IF Occurs(uri, Scheme) # {}
                                       THEN Some(Before(Before(After(uri, Scheme), Scheme), <<Slash>>))
                                       ELSE Some(TrimSlashes(uri))
  BY UriIsTaken
<1>2. m \in Nat /\ e \in Nat /\ j \in Nat /\ Len(s) \in Nat /\ e <= Len(s) + 1 OBVIOUS
<1>3. uri \in Seq(Cell) /\ Scheme \in Seq(Cell) BY <1>1 DEF Part, Scheme, Colon, Slash, Cell
<1>4. Occurs(uri, Scheme) = {}
  <2> SUFFICES ASSUME NEW i \in Occurs(uri, Scheme) PROVE FALSE OBVIOUS
  <2>1. i - 1 \in Nat /\ At(uri, Scheme, i - 1) BY <1>3, OccursAt
  <2> DEFINE n == i - 1
  <2> HIDE DEF n
  <2>2. n \in Nat /\ m + n + 3 <= e - 1 /\ SchemeAt(s, m + n + 1) BY <1>1, <2>1, SchemeOfPart DEF n
  <2>3. m + n + 1 \in (m + 1)..(e - 3) BY <1>2, <2>2
  <2> QED BY <2>2, <2>3
<1>5. j < j + Len(at) /\ j + Len(at) \in Nat /\ j + Len(at) <= e - 1
      /\ \A i \in Nat : j < i /\ i <= j + Len(at) => s[i] # Slash /\ s[i] # Space
  BY <1>2, AuthorityIsThere
<1>6. j + 1 \in Nat /\ j < j + 1 /\ j + 1 <= j + Len(at) /\ j < e - 1
  <2> DEFINE k == j + Len(at)
  <2>1. j < k /\ k \in Nat /\ k <= e - 1 BY <1>5
  <2> HIDE DEF k
  <2>2. j + 1 <= k /\ j < e - 1 BY <1>2, <2>1
  <2> QED BY <1>2, <2>2 DEF k
<1>7. s[j + 1] # Slash BY <1>5, <1>6
<1>8. \A i \in Nat : m < i /\ i <= j => s[i] = Slash BY <1>2
<1>9. Part(TrimSlashes(uri), s, j, e - 1) BY <1>1, <1>2, <1>6, <1>7, <1>8, TrimmedAt
<1> QED BY <1>1, <1>4, <1>9

\* A line of one word has no host for TcpRouter.
LEMMA OneWord ==
  ASSUME NEW s \in Seq(Cell), Space \notin ToSet(s)
  PROVE  ExtractHost(s) = None
<1> DEFINE starts == WordStarts(s)
<1>1. \A i \in DOMAIN s : s[i] # Space BY DEF ToSet
<1>2. ASSUME NEW i \in starts PROVE i = 1
  <2>1. i \in 1..Len(s) /\ (i = 1 \/ s[i - 1] = Space) BY DEF WordStarts
  <2>2. i # 1 => i - 1 \in DOMAIN s BY <2>1
  <2> QED BY <1>1, <2>1, <2>2
<1> HIDE DEF starts
<1>3. starts = {} \/ starts = {1} BY <1>2
<1>4. starts = {1} => Min(starts) = 1
  <2> SUFFICES ASSUME starts = {1} PROVE Min(starts) = 1 OBVIOUS
  <2>1. starts \in SUBSET Nat /\ 1 \in starts /\ \A k \in starts : 1 <= k OBVIOUS
  <2> QED BY <2>1, MinIsOne
<1>5. starts = {} \/ starts = {Min(starts)} BY <1>3, <1>4
<1> QED BY <1>5 DEF ExtractHost, starts

\* Whatever the line is, what TcpRouter takes is a part of it.
LEMMA HostIsPart ==
  ASSUME NEW s \in Seq(Cell), NEW x \in ExtractHost(s)
  PROVE  \E a, b \in Nat : Part(x, s, a, b)
<1> DEFINE starts == WordStarts(s)
           n == Min(starts \ {Min(starts)})
           y == SubSeq(s, n, Len(s))
           uri == Before(y, <<Space>>)
           v == After(uri, Scheme)
           w == Before(v, Scheme)
<1>0. Scheme \in Seq(Cell) /\ <<Slash>> \in Seq(Cell) /\ <<Space>> \in Seq(Cell)
  BY DEF Scheme, Colon, Slash, Space, Cell
<1>1. Len(s) \in Nat /\ DOMAIN s = 1..Len(s) OBVIOUS
<1>2. /\ starts # {} /\ starts # {Min(starts)}
      /\ x = IF Occurs(uri, Scheme) # {} THEN Before(w, <<Slash>>) ELSE TrimSlashes(uri)
  <2> HIDE DEF starts
  <2>1. ExtractHost(s) = IF ~Utf8(s) \/ starts = {} \/ starts = {Min(starts)} THEN None
                         ELSE IF Occurs(uri, Scheme) # {} THEN Some(Before(w, <<Slash>>))
                         ELSE Some(TrimSlashes(uri))
    BY Zenon DEF ExtractHost, starts, Scheme
  <2> HIDE DEF uri, w
  <2> QED BY <2>1 DEF Some, None
<1>3. n \in 1..Len(s)
  <2>1. starts \in SUBSET Nat BY <1>1 DEF WordStarts
  <2>2. starts \subseteq 1..Len(s) BY <1>1 DEF WordStarts
  <2> HIDE DEF starts
  <2> DEFINE rest == starts \ {Min(starts)}
  <2>3. Min(starts) \in starts BY <1>2, <2>1, MinIs
  <2>4. rest # {} /\ rest \in SUBSET Nat BY <1>2, <2>1, <2>3
  <2>5. Min(rest) \in rest BY <2>4, MinIs
  <2> QED BY <2>2, <2>5
<1> HIDE DEF n
<1>4. Part(y, s, n - 1, Len(s))
  <2>1. n - 1 \in Nat /\ n - 1 <= Len(s) /\ (n - 1) + 1 = n BY <1>1, <1>3
  <2> QED BY <1>1, <2>1, PartIs
<1> HIDE DEF y
<1>5. ASSUME NEW z, NEW a, NEW b, Part(z, s, a, b), NEW pat \in Seq(Cell)
      PROVE  \E c, d \in Nat : Part(Before(z, pat), s, c, d)
  <2>1. z \in Seq(Cell) /\ a \in Nat BY <1>5 DEF Part
  <2>2. PICK k \in Nat : Part(Before(z, pat), z, 0, k) BY <2>1, BeforeIs
  <2>3. Part(Before(z, pat), s, a + 0, a + k) BY <1>5, <2>2, PartOfPart
  <2>4. a + 0 \in Nat /\ a + k \in Nat BY <2>1
  <2> QED BY <2>3, <2>4
<1>6. PICK a, b \in Nat : Part(uri, s, a, b) BY <1>0, <1>4, <1>5
<1> HIDE DEF uri
<1>7. uri \in Seq(Cell) BY <1>6 DEF Part
<1>8. CASE Occurs(uri, Scheme) # {}
  <2>1. PICK k \in Nat : Part(v, uri, k + Len(Scheme), Len(uri)) BY <1>0, <1>7, <1>8, AfterIs
  <2> HIDE DEF v
  <2>2. Part(v, s, a + (k + Len(Scheme)), a + Len(uri)) BY <1>6, <2>1, PartOfPart
  <2>3. PICK c, d \in Nat : Part(w, s, c, d) BY <1>0, <1>5, <2>2
  <2> HIDE DEF w
  <2>4. \E f, g \in Nat : Part(Before(w, <<Slash>>), s, f, g) BY <1>0, <1>5, <2>3
  <2> QED BY <1>2, <1>8, <2>4
<1>9. CASE Occurs(uri, Scheme) = {}
  <2> DEFINE rest == {i \in DOMAIN uri : uri[i] # Slash}
  <2>1. x = TrimSlashes(uri) BY <1>2, <1>9
  <2>2. CASE rest = {}
    <3>1. x = <<>> BY <2>1, <2>2 DEF TrimSlashes
    <3>2. Part(x, s, 0, 0) BY <1>1, <3>1 DEF Part
    <3> QED BY <3>2
  <2>3. CASE rest # {}
    <3>1. rest \in SUBSET Nat /\ rest \subseteq 1..Len(uri) BY <1>7
    <3> DEFINE q == Min(rest)
    <3>2. x = SubSeq(uri, q, Len(uri)) BY <2>1, <2>3, Zenon DEF TrimSlashes
    <3> HIDE DEF rest
    <3>3. q \in 1..Len(uri) BY <2>3, <3>1, MinIs
    <3> HIDE DEF q
    <3>4. q - 1 \in Nat /\ q - 1 <= Len(uri) /\ (q - 1) + 1 = q /\ Len(uri) \in Nat BY <1>7, <3>3
    <3>5. Part(x, uri, q - 1, Len(uri)) BY <1>7, <3>2, <3>4, PartIs
    <3>6. Part(x, s, a + (q - 1), a + Len(uri)) BY <1>6, <3>5, PartOfPart
    <3>7. a + (q - 1) \in Nat /\ a + Len(uri) \in Nat BY <3>4
    <3> QED BY <3>6, <3>7
  <2> QED BY <2>2, <2>3
<1> QED BY <1>8, <1>9

\* A port, or none.
OptPort(port) == port = None \/ \E p \in port : port = Some(p) /\ p \in Nat /\ IsPort(p)

\* The cells of a host.
LEMMA HostIs ==
  ASSUME NEW host \in Host
  PROVE  /\ host \in Seq(Cell) /\ Len(host) \in Nat /\ Len(host) >= 1 /\ host[Len(host)] # Colon
         /\ \A i \in 1..Len(host) : /\ host[i] # Slash /\ host[i] # Space /\ ~IsPort(host[i])
                                    /\ host[i] = Colon => host[1] = Bracket
<1>1. host \in Seq(0..(NotUtf8 - 1)) /\ host # <<>> BY DEF Host
<1>2. 0..(NotUtf8 - 1) \in SUBSET Nat /\ \A c \in 0..(NotUtf8 - 1) : ~IsPort(c) BY DEF NotUtf8, IsPort
<1> DEFINE S == 0..(NotUtf8 - 1)
<1> HIDE DEF S
<1>3. host \in Seq(S) /\ S \in SUBSET Nat /\ \A c \in S : ~IsPort(c) BY <1>1, <1>2 DEF S
<1>4. /\ host \in Seq(Cell) /\ Len(host) \in Nat /\ Len(host) >= 1 /\ DOMAIN host = 1..Len(host)
      /\ \A i \in 1..Len(host) : host[i] \in S
  <2>1. /\ Len(host) \in Nat /\ DOMAIN host = 1..Len(host) /\ host = [i \in 1..Len(host) |-> host[i]]
        /\ \A i \in 1..Len(host) : host[i] \in S
    BY <1>3
  <2>2. \A i \in 1..Len(host) : host[i] \in Cell BY <1>3, <2>1 DEF Cell
  <2>3. host \in Seq(Cell) BY <2>1, <2>2
  <2>4. Len(host) # 0 BY <1>1, <2>3
  <2> QED BY <2>1, <2>3, <2>4
<1>5. /\ {Slash, Space} \cap ToSet(host) = {}
      /\ Colon \in ToSet(host) => host[1] = Bracket /\ host[Len(host)] # Colon
  BY DEF Host
<1>6. \A i \in 1..Len(host) : host[i] \in ToSet(host) BY <1>4 DEF ToSet
<1>7. Len(host) \in 1..Len(host) BY <1>4
<1> QED BY <1>3, <1>4, <1>5, <1>6, <1>7

\* The cells of a text with two more behind it.
LEMMA CatPair ==
  ASSUME NEW S, NEW a \in Seq(S), NEW b \in Seq(S), Len(b) = 2
  PROVE  /\ a \o b \in Seq(S) /\ Len(a \o b) = Len(a) + 2
         /\ \A i \in 1..Len(a) : (a \o b)[i] = a[i]
         /\ (a \o b)[Len(a) + 1] = b[1] /\ (a \o b)[Len(a) + 2] = b[2]
<1>1. a \o b \in Seq(S) /\ Len(a \o b) = Len(a) + 2 BY CatType
<1> DEFINE n == Len(a)
<1>2. n \in Nat /\ (n + 1) - n = 1 /\ (n + 2) - n = 2 /\ n + 1 \in 1..(n + 2) /\ n + 2 \in 1..(n + 2) OBVIOUS
<1>3. \A i \in 1..Len(a) : (a \o b)[i] = a[i] OBVIOUS
<1>4. (a \o b)[n + 1] = b[1] BY <1>1, <1>2
<1>5. (a \o b)[n + 2] = b[2] BY <1>1, <1>2
<1> QED BY <1>1, <1>3, <1>4, <1>5

\* What joins a host and a port.
LEMMA HostWithPort ==
  ASSUME NEW host \in Host, NEW p \in Nat
  PROVE  LET at == host \o <<Colon, p>>
             n == Len(host)
         IN /\ at \in Seq(Cell) /\ Len(at) = n + 2 /\ at[n + 1] = Colon /\ at[n + 2] = p
            /\ \A i \in 1..n : at[i] = host[i]
<1>1. host \in Seq(Cell) BY HostIs
<1>2. <<Colon, p>> \in Seq(Cell) /\ Len(<<Colon, p>>) = 2 /\ <<Colon, p>>[1] = Colon /\ <<Colon, p>>[2] = p
  BY DEF Colon, Cell
<1> DEFINE t == <<Colon, p>>
<1> HIDE DEF t
<1>3. t \in Seq(Cell) /\ Len(t) = 2 /\ t[1] = Colon /\ t[2] = p BY <1>2 DEF t
<1>4. /\ host \o t \in Seq(Cell) /\ Len(host \o t) = Len(host) + 2
      /\ \A i \in 1..Len(host) : (host \o t)[i] = host[i]
      /\ (host \o t)[Len(host) + 1] = t[1] /\ (host \o t)[Len(host) + 2] = t[2]
  BY <1>1, <1>3, CatPair
<1> QED BY <1>3, <1>4 DEF t

\* With a port above every code, it is the text of an address.
LEMMA AddressIs ==
  ASSUME NEW host \in Host, NEW p \in Nat, IsPort(p)
  PROVE  LET at == host \o <<Colon, p>>
             n == Len(host)
         IN /\ Clean(at) /\ Len(at) = n + 2 /\ at[n + 1] = Colon /\ at[n + 2] = p
            /\ \A i \in 1..n : at[i] = host[i]
<1> DEFINE at == host \o <<Colon, p>>
           n == Len(host)
<1>1. /\ at \in Seq(Cell) /\ Len(at) = n + 2 /\ at[n + 1] = Colon /\ at[n + 2] = p
      /\ \A i \in 1..n : at[i] = host[i]
  BY HostWithPort
<1>2. n \in Nat /\ \A i \in 1..n : host[i] # Slash /\ host[i] # Space BY HostIs
<1> HIDE DEF at, n
<1>3. p # Colon /\ p # Slash /\ p # Space /\ Colon # Slash /\ Colon # Space
  BY DEF IsPort, Colon, Slash, Space
<1>4. \A i \in 1..Len(at) : i \in 1..n \/ i = n + 1 \/ i = n + 2 BY <1>1, <1>2
<1>5. \A i \in 1..Len(at) : at[i] # Slash /\ at[i] # Space BY <1>1, <1>2, <1>3, <1>4
<1>6. at # <<>> BY <1>1, <1>2
<1>7. Clean(at) BY <1>1, <1>3, <1>5, <1>6 DEF Clean
<1> QED BY <1>1, <1>7 DEF at, n

\* The port of a text, if it has one.
LEMMA PortIs ==
  ASSUME NEW port, OptPort(port), port # None
  PROVE  Min(port) \in Nat /\ IsPort(Min(port))
<1>1. PICK p \in port : port = {p} /\ p \in Nat /\ IsPort(p) BY DEF OptPort, Some
<1>2. Min(port) = p
  <2>1. port \in SUBSET Nat /\ \A k \in port : p <= k BY <1>1
  <2> QED BY <2>1, MinIsOne
<1> QED BY <1>1, <1>2

\* An authority is clean, with a port or without.
LEMMA AuthorityIs ==
  ASSUME NEW host \in Host, NEW port, OptPort(port)
  PROVE  /\ Clean(Authority(host, port))
         /\ port = None => Authority(host, port) = host
         /\ port # None => Authority(host, port) = host \o <<Colon, Min(port)>>
<1>1. /\ port = None => Authority(host, port) = host
      /\ port # None => Authority(host, port) = host \o <<Colon, Min(port)>>
  BY DEF Authority
<1>2. Clean(host)
  <2>1. host # <<>>
    <3>1. Len(host) >= 1 BY HostIs
    <3> QED BY <3>1
  <2> QED BY <2>1, HostIs DEF Clean
<1>3. port # None => Clean(host \o <<Colon, Min(port)>>) BY PortIs, AddressIs
<1> QED BY <1>1, <1>2, <1>3

\* What connecting asks of an address.
LEMMA DialableIs ==
  ASSUME NEW r, r.kind # "Sock", NEW t, NEW a \in Seq(Cell), t.addr = a
  PROVE  Dialable(r, t) <=>
           /\ Len(a) >= 3 /\ IsPort(a[Len(a)]) /\ a[Len(a) - 1] = Colon
           /\ \A i \in 1..Len(a) : a[i] # Slash /\ a[i] # Space
           /\ \A name \in t.sni : ServerName(name)
<1>1. {Slash, Space} \cap ToSet(a) = {} <=> \A i \in 1..Len(a) : a[i] # Slash /\ a[i] # Space
  BY DEF ToSet
<1> QED BY <1>1 DEF Dialable

\* An address and a name are what the host and the port say.
Meant(kind, host, port, t) ==
  /\ port # None \/ kind # "Tcp"
  /\ t.addr = host \o <<Colon, IF port = None THEN HttpsPort ELSE Min(port)>>
  /\ t.sni = IF kind # "Tcp" THEN Some(host) ELSE None

\* A router dials them or nothing, and does when the text is for it.
Right(r, s, host, port, for) ==
  /\ \A t \in Resolve(r, s) : Dialable(r, t) => Meant(r.kind, host, port, t)
  /\ r.kind \in for => \E t \in Resolve(r, s) : Dialable(r, t)

\* TcpRouter dials an authority that has a port.
LEMMA TcpDials ==
  ASSUME NEW r, r.kind = "Tcp", r.fixed = None, NEW s, NEW host \in Host, NEW port, OptPort(port),
         ExtractHost(s) = Some(Authority(host, port)),
         NEW for, "Tcp" \in for => port # None
  PROVE  Right(r, s, host, port, for)
<1> DEFINE at == Authority(host, port)
           t == Plain(at)
<1>1. Resolve(r, s) = {t}
  <2>1. Resolve(r, s) = TcpRoute(r, s) BY DEF Resolve
  <2>2. TcpRoute(r, s) = {Plain(a) : a \in ExtractHost(s)} BY DEF TcpRoute
  <2> HIDE DEF at
  <2> QED BY <2>1, <2>2 DEF Some, at
<1>2. t.addr = at /\ t.sni = None BY DEF Plain
<1>3. at \in Seq(Cell) BY AuthorityIs DEF Clean
<1>4. r.kind # "Sock" BY Zenon
<1> HIDE DEF t
<1>5. Dialable(r, t) <=> /\ Len(at) >= 3 /\ IsPort(at[Len(at)]) /\ at[Len(at) - 1] = Colon
                         /\ \A i \in 1..Len(at) : at[i] # Slash /\ at[i] # Space
                         /\ \A name \in t.sni : ServerName(name)
  BY <1>2, <1>3, <1>4, DialableIs
<1>6. CASE port = None
  <2>1. at = host BY <1>6, AuthorityIs
  <2>2. ~IsPort(at[Len(at)])
    <3>1. Len(host) \in 1..Len(host) BY HostIs
    <3> QED BY <2>1, <3>1, HostIs
  <2> QED BY <1>1, <1>5, <1>6, <2>2 DEF Right
<1>7. CASE port # None
  <2>1. at = host \o <<Colon, Min(port)>> BY <1>7, AuthorityIs
  <2>2. /\ Clean(at) /\ Len(at) = Len(host) + 2 /\ at[Len(host) + 1] = Colon /\ at[Len(host) + 2] = Min(port)
    BY <1>7, <2>1, PortIs, AddressIs
  <2>3. IsPort(Min(port)) BY <1>7, PortIs
  <2>4. Len(host) \in Nat /\ Len(host) >= 1 BY HostIs
  <2> HIDE DEF at
  <2>5. Len(at) >= 3 /\ Len(at) - 1 = Len(host) + 1 BY <2>2, <2>4
  <2>6. Dialable(r, t)
    <3>1. \A i \in 1..Len(at) : at[i] # Slash /\ at[i] # Space BY <2>2 DEF Clean
    <3>2. \A name \in t.sni : ServerName(name) BY <1>2 DEF None
    <3> QED BY <1>5, <2>2, <2>3, <2>5, <3>1, <3>2
  <2>7. Meant(r.kind, host, port, t) BY <1>2, <1>7, <2>1 DEF Meant
  <2> QED BY <1>1, <2>6, <2>7 DEF Right
<1> QED BY <1>6, <1>7

\* The occurrences of a cell.
LEMMA CellOccurs ==
  ASSUME NEW s \in Seq(Cell), NEW c \in Cell
  PROVE  Occurs(s, <<c>>) = {i \in 1..Len(s) : s[i] = c}
<1>1. <<c>> \in Seq(Cell) /\ Len(s) \in Nat OBVIOUS
<1>2. ASSUME NEW i \in Occurs(s, <<c>>) PROVE i \in 1..Len(s) /\ s[i] = c
  <2>1. i - 1 \in Nat /\ At(s, <<c>>, i - 1) BY <1>1, OccursAt
  <2>2. (i - 1) + 1 <= Len(s) /\ s[(i - 1) + 1] = c BY <2>1, CellAt
  <2>3. i \in Nat BY <1>1 DEF Occurs
  <2>4. (i - 1) + 1 = i BY <2>3
  <2> QED BY <1>1, <2>1, <2>2, <2>3, <2>4
<1>3. ASSUME NEW i \in 1..Len(s), s[i] = c PROVE i \in Occurs(s, <<c>>)
  <2>1. i - 1 \in Nat /\ (i - 1) + 1 = i /\ i <= Len(s) BY <1>1
  <2>2. At(s, <<c>>, i - 1) BY <1>3, <2>1, CellAt
  <2> QED BY <1>1, <2>1, <2>2, OccursAt
<1> QED BY <1>2, <1>3

\* No address with a space or a slash in it is dialled.
LEMMA NotDialled ==
  ASSUME NEW r, r.kind # "Sock", NEW t, NEW a \in Seq(Cell), t.addr = a,
         NEW i \in 1..Len(a), a[i] \in {Slash, Space}
  PROVE  ~Dialable(r, t)
BY DialableIs

\* What TlsRouter resolves a key to.
LEMMA TlsResolves ==
  ASSUME NEW r, r.kind = "Tls", r.fixed = None, NEW s, Utf8(s)
  PROVE  LET colons == Occurs(s, <<Colon>>)
         IN Resolve(r, s) = IF colons = {} THEN {Named(s \o <<Colon, HttpsPort>>, s)}
                                           ELSE {Named(s, SubSeq(s, 1, Max(colons) - 1))}
<1>1. Resolve(r, s) = TlsRoute(r, s) BY DEF Resolve
<1> QED BY <1>1, Zenon DEF TlsRoute, Some

\* TlsRouter dials no key that has a path, or more than a word.
LEMMA TlsRefuses ==
  ASSUME NEW r, r.kind = "Tls", r.fixed = None, NEW s \in Seq(Cell), NEW i \in 1..Len(s), s[i] \in {Slash, Space},
         NEW t \in Resolve(r, s)
  PROVE  ~Dialable(r, t)
<1>0. r.kind # "Sock" BY Zenon
<1>1. CASE ~Utf8(s)
  <2>1. Resolve(r, s) = TlsRoute(r, s) BY DEF Resolve
  <2>2. Resolve(r, s) = {} BY <1>1, <2>1 DEF TlsRoute, None
  <2> QED BY <2>2
<1>2. CASE Utf8(s) /\ t = Named(s \o <<Colon, HttpsPort>>, s)
  <2> DEFINE p == <<Colon, HttpsPort>>
  <2>1. p \in Seq(Cell) /\ Len(p) = 2 BY DEF Colon, HttpsPort, Cell
  <2>2. t.addr = s \o p BY <1>2 DEF Named
  <2> HIDE DEF p
  <2> DEFINE a == s \o p
  <2>3. a \in Seq(Cell) /\ Len(a) = Len(s) + 2 /\ \A k \in 1..Len(s) : a[k] = s[k] BY <2>1, CatPair
  <2> HIDE DEF a
  <2>4. i \in 1..Len(a) BY <2>3
  <2> QED BY <1>0, <2>2, <2>3, <2>4, NotDialled DEF a
<1>3. CASE Utf8(s) /\ t = Named(s, SubSeq(s, 1, Max(Occurs(s, <<Colon>>)) - 1))
  <2>1. t.addr = s BY <1>3 DEF Named
  <2> QED BY <1>0, <2>1, NotDialled
<1> QED BY <1>1, <1>2, <1>3, TlsResolves

\* What TlsClientRouter resolves a key to.
LEMMA TlsClientResolves ==
  ASSUME NEW r, r.kind = "TlsClient", r.fixed = None, NEW s, NEW t \in Resolve(r, s)
  PROVE  LET host == Before(s, <<Slash>>)
         IN /\ Utf8(s) /\ host # <<>>
            /\ t.addr = IF Occurs(host, <<Colon>>) # {} THEN host ELSE host \o <<Colon, HttpsPort>>
            /\ t.sni = {Before(t.addr, <<Colon>>)}
<1> DEFINE host == Before(s, <<Slash>>)
<1>1. Resolve(r, s) = TlsClientRoute(r, s) BY DEF Resolve
<1>2. TlsClientRoute(r, s) = {Named(a, ResolveSni(a)) : a \in ResolveAddr(s)} BY DEF TlsClientRoute
<1>3. PICK a \in ResolveAddr(s) : t = Named(a, ResolveSni(a)) BY <1>1, <1>2
<1>4. t.addr = a /\ t.sni = {Before(a, <<Colon>>)} BY <1>3 DEF Named, ResolveSni, Some
<1>5. ResolveAddr(s) = IF ~Utf8(s) \/ host = <<>> THEN None
                       ELSE IF Occurs(host, <<Colon>>) # {} THEN Some(host)
                       ELSE Some(host \o <<Colon, HttpsPort>>)
  BY Zenon DEF ResolveAddr
<1> HIDE DEF host
<1>6. Utf8(s) /\ host # <<>> BY <1>3, <1>5, Zenon DEF None
<1>7. a = IF Occurs(host, <<Colon>>) # {} THEN host ELSE host \o <<Colon, HttpsPort>>
  BY <1>3, <1>5, <1>6, Zenon DEF Some
<1> QED BY <1>4, <1>6, <1>7 DEF host

\* TlsClientRouter cuts off the path: it dials no key whose first word ends before
\* a slash.
LEMMA TlsClientRefuses ==
  ASSUME NEW r, r.kind = "TlsClient", r.fixed = None, NEW s \in Seq(Cell), NEW m \in 1..Len(s),
         s[m] = Space, \A i \in 1..(m - 1) : s[i] # Slash, NEW t \in Resolve(r, s)
  PROVE  ~Dialable(r, t)
<1> DEFINE host == Before(s, <<Slash>>)
           p == <<Colon, HttpsPort>>
<1>0. r.kind # "Sock" BY Zenon
<1>1. t.addr = IF Occurs(host, <<Colon>>) # {} THEN host ELSE host \o p BY TlsClientResolves
<1>2. <<Slash>> \in Seq(Cell) /\ Slash \in Cell /\ p \in Seq(Cell) /\ Len(p) = 2
  BY DEF Slash, Colon, HttpsPort, Cell
<1>3. PICK k \in Nat : Part(host, s, 0, k) /\ (k = Len(s) \/ At(s, <<Slash>>, k)) BY <1>2, BeforeIs
<1> HIDE DEF host, p
<1>4. k >= m
  <2>1. CASE k = Len(s) BY <2>1
  <2>2. CASE At(s, <<Slash>>, k)
    <3>1. k + 1 <= Len(s) /\ s[k + 1] = Slash BY <1>2, <2>2, CellAt
    <3>2. s[m] # Slash BY DEF Space, Slash
    <3>3. k + 1 \in 1..(m - 1) \/ k + 1 = m \/ k + 1 > m OBVIOUS
    <3> QED BY <3>1, <3>2, <3>3
  <2> QED BY <1>3, <2>1, <2>2
<1>5. host \in Seq(Cell) /\ Len(host) = k BY <1>3 DEF Part
<1>6. m \in 1..Len(host) /\ host[m] = Space
  <2>1. m - 0 \in 1..Len(host) /\ host[m - 0] = s[m] BY <1>3, <1>4, CellOfPart
  <2> QED BY <2>1
<1>7. CASE t.addr = host BY <1>0, <1>5, <1>6, <1>7, NotDialled
<1>8. CASE t.addr = host \o p
  <2> DEFINE a == host \o p
  <2>1. a \in Seq(Cell) /\ Len(a) = Len(host) + 2 /\ \A i \in 1..Len(host) : a[i] = host[i]
    BY <1>2, <1>5, CatPair
  <2> HIDE DEF a
  <2>2. m \in 1..Len(a) /\ a[m] = Space BY <1>5, <1>6, <2>1
  <2> QED BY <1>0, <1>8, <2>1, <2>2, NotDialled DEF a
<1> QED BY <1>1, <1>7, <1>8

\* The host with a port, to be named in a certificate.
LEMMA NamedDials ==
  ASSUME NEW r, r.kind # "Sock", NEW host \in Host, NEW p \in Nat, IsPort(p), NEW t,
         t.addr = host \o <<Colon, p>>, t.sni = {host}
  PROVE  Dialable(r, t) <=> ServerName(host)
<1> DEFINE at == host \o <<Colon, p>>
           n == Len(host)
<1>1. Clean(at) /\ Len(at) = n + 2 /\ at[n + 1] = Colon /\ at[n + 2] = p BY AddressIs
<1>2. n \in Nat /\ n >= 1 BY HostIs
<1>3. t.addr = at BY Zenon
<1> HIDE DEF at, n
<1>4. at \in Seq(Cell) /\ \A i \in 1..Len(at) : at[i] # Slash /\ at[i] # Space BY <1>1 DEF Clean
<1>5. Len(at) >= 3 /\ Len(at) - 1 = n + 1 BY <1>1, <1>2
<1>6. Dialable(r, t) <=> /\ Len(at) >= 3 /\ IsPort(at[Len(at)]) /\ at[Len(at) - 1] = Colon
                         /\ \A i \in 1..Len(at) : at[i] # Slash /\ at[i] # Space
                         /\ \A name \in t.sni : ServerName(name)
  BY <1>3, <1>4, DialableIs
<1> QED BY <1>1, <1>4, <1>5, <1>6

\* A host alone is no address.
LEMMA HostNotDialled ==
  ASSUME NEW r, r.kind # "Sock", NEW host \in Host, NEW t, t.addr = host
  PROVE  ~Dialable(r, t)
<1>1. host \in Seq(Cell) /\ Len(host) \in 1..Len(host) BY HostIs
<1>2. ~IsPort(host[Len(host)]) BY <1>1, HostIs
<1> QED BY <1>1, <1>2, DialableIs

\* The colons of a host are those of a literal address, which no certificate names.
LEMMA NamesHaveNoColon ==
  ASSUME NEW host \in Host, NEW i \in 1..Len(host), host[i] = Colon
  PROVE  ~ServerName(host)
<1>1. host \in Seq(Cell) BY HostIs
<1>2. host[i] \in ToSet(host) BY <1>1 DEF ToSet
<1> QED BY <1>2 DEF ServerName

\* TlsRouter dials an authority alone.
LEMMA TlsDials ==
  ASSUME NEW r, r.kind = "Tls", r.fixed = None, NEW host \in Host, NEW port, OptPort(port),
         NEW s, s = Authority(host, port), Utf8(s), NEW for, "Tls" \in for => ServerName(host)
  PROVE  Right(r, s, host, port, for)
<1> DEFINE colons == Occurs(s, <<Colon>>)
           n == Len(host)
<1>0. r.kind # "Sock" /\ r.kind # "Tcp" BY Zenon
<1>1. s \in Seq(Cell) BY AuthorityIs DEF Clean
<1>2. colons = {i \in 1..Len(s) : s[i] = Colon}
  <2>1. Colon \in Cell BY DEF Colon, Cell
  <2> QED BY <1>1, <2>1, CellOccurs
<1>3. Resolve(r, s) = IF colons = {} THEN {Named(s \o <<Colon, HttpsPort>>, s)}
                                     ELSE {Named(s, SubSeq(s, 1, Max(colons) - 1))}
  BY TlsResolves
<1>4. n \in Nat /\ n >= 1 /\ host \in Seq(Cell) BY HostIs
<1>5. CASE port = None /\ colons = {}
  <2> DEFINE t == Named(host \o <<Colon, HttpsPort>>, host)
  <2>1. s = host BY <1>5, AuthorityIs
  <2>2. Resolve(r, s) = {t} BY <1>3, <1>5, <2>1
  <2>3. t.addr = host \o <<Colon, HttpsPort>> /\ t.sni = {host} BY DEF Named, Some
  <2> HIDE DEF t
  <2>4. HttpsPort \in Nat /\ IsPort(HttpsPort) BY DEF HttpsPort, IsPort
  <2>5. Dialable(r, t) <=> ServerName(host) BY <1>0, <2>3, <2>4, NamedDials
  <2>6. Meant(r.kind, host, port, t) BY <1>0, <1>5, <2>3, Zenon DEF Meant, Some
  <2> QED BY <2>2, <2>5, <2>6 DEF Right
<1>6. CASE port = None /\ colons # {}
  <2> DEFINE t == Named(s, SubSeq(s, 1, Max(colons) - 1))
  <2>1. s = host BY <1>6, AuthorityIs
  <2>2. Resolve(r, s) = {t} BY <1>3, <1>6
  <2>3. t.addr = host BY <2>1 DEF Named
  <2> HIDE DEF t
  <2>4. ~Dialable(r, t) BY <1>0, <2>3, HostNotDialled
  <2>5. ~ServerName(host)
    <3>1. PICK i \in 1..Len(host) : host[i] = Colon BY <1>2, <1>6, <2>1
    <3> QED BY <3>1, NamesHaveNoColon
  <2> QED BY <2>2, <2>4, <2>5 DEF Right
<1>7. CASE port # None
  <2>1. s = host \o <<Colon, Min(port)>> BY <1>7, AuthorityIs
  <2>2. Min(port) \in Nat /\ IsPort(Min(port)) BY <1>7, PortIs
  <2>3. Len(s) = n + 2 /\ s[n + 1] = Colon /\ s[n + 2] = Min(port) /\ \A i \in 1..n : s[i] = host[i]
    BY <2>1, <2>2, AddressIs
  <2>4. n + 1 \in colons /\ \A i \in colons : n + 1 >= i
    <3>1. s[n + 2] # Colon BY <2>2, <2>3 DEF IsPort, Colon
    <3> HIDE DEF n
    <3> QED BY <1>2, <1>4, <2>3, <3>1
  <2>5. colons \in SUBSET Nat BY <1>1, <1>2
  <2> HIDE DEF colons, n
  <2>6. Max(colons) = n + 1
    <3>1. Max(colons) \in colons /\ \A i \in colons : Max(colons) >= i BY <2>4 DEF Max
    <3> DEFINE q == Max(colons)
    <3>2. q \in Nat /\ q >= n + 1 /\ n + 1 >= q BY <2>4, <2>5, <3>1
    <3> HIDE DEF q
    <3>3. q = n + 1 BY <1>4, <3>2
    <3> QED BY <3>3 DEF q
  <2>7. SubSeq(s, 1, Max(colons) - 1) = host
    <3>1. Max(colons) - 1 = n /\ n <= Len(s) BY <1>4, <2>3, <2>6
    <3>2. Part(SubSeq(s, 0 + 1, n), s, 0, n) BY <1>1, <1>4, <3>1, PartIs
    <3>3. Part(host, s, 0, n) BY <1>4, <2>3, <3>1 DEF Part, n
    <3>4. SubSeq(s, 0 + 1, n) = host BY <3>2, <3>3, PartIsOne
    <3>5. 0 + 1 = 1 OBVIOUS
    <3> QED BY <3>1, <3>4, <3>5
  <2> DEFINE t == Named(s, host)
  <2>8. Resolve(r, s) = {t} BY <1>3, <2>4, <2>7
  <2>9. t.addr = s /\ t.sni = {host} BY DEF Named, Some
  <2> HIDE DEF t
  <2>10. Dialable(r, t) <=> ServerName(host) BY <1>0, <2>1, <2>2, <2>9, NamedDials
  <2>11. Meant(r.kind, host, port, t) BY <1>0, <1>7, <2>1, <2>9, Zenon DEF Meant, Some
  <2> QED BY <2>8, <2>10, <2>11 DEF Right
<1> QED BY <1>5, <1>6, <1>7

\* TlsClientRouter dials the authority that comes before the path.
LEMMA TlsClientDials ==
  ASSUME NEW r, r.kind = "TlsClient", r.fixed = None, NEW host \in Host, NEW port, OptPort(port),
         NEW s \in Seq(Cell), Utf8(s), Before(s, <<Slash>>) = Authority(host, port),
         NEW for, "TlsClient" \in for => ServerName(host)
  PROVE  Right(r, s, host, port, for)
<1> DEFINE at == Authority(host, port)
           n == Len(host)
<1>0. r.kind # "Sock" /\ r.kind # "Tcp" BY Zenon
<1>1. Clean(at) BY AuthorityIs
<1> HIDE DEF at
<1>2. at \in Seq(Cell) /\ at # <<>> BY <1>1 DEF Clean
<1>3. Occurs(at, <<Colon>>) = {i \in 1..Len(at) : at[i] = Colon}
  <2>1. Colon \in Cell BY DEF Colon, Cell
  <2> QED BY <1>2, <2>1, CellOccurs
<1>4. n \in Nat /\ n >= 1 /\ host \in Seq(Cell) BY HostIs
<1>5. \E t : t \in Resolve(r, s)
  <2>1. Resolve(r, s) = TlsClientRoute(r, s) BY DEF Resolve
  <2>2. TlsClientRoute(r, s) = {Named(a, ResolveSni(a)) : a \in ResolveAddr(s)} BY DEF TlsClientRoute
  <2>3. ResolveAddr(s) = IF Occurs(at, <<Colon>>) # {} THEN Some(at) ELSE Some(at \o <<Colon, HttpsPort>>)
    BY <1>2, Zenon DEF ResolveAddr, at
  <2>4. ResolveAddr(s) # {} BY <2>3 DEF Some
  <2> QED BY <2>1, <2>2, <2>4
<1>6. ASSUME NEW p \in Nat, IsPort(p), NEW t, t.addr = host \o <<Colon, p>>, t.sni = {Before(t.addr, <<Colon>>)}
      PROVE  IF \E i \in 1..n : host[i] = Colon THEN ~Dialable(r, t) /\ ~ServerName(host)
             ELSE t.sni = {host} /\ (Dialable(r, t) <=> ServerName(host))
  <2> DEFINE a == host \o <<Colon, p>>
             x == Before(a, <<Colon>>)
  <2>1. Clean(a) /\ Len(a) = n + 2 /\ a[n + 1] = Colon /\ a[n + 2] = p /\ \A i \in 1..n : a[i] = host[i]
    BY <1>6, AddressIs
  <2>2. t.addr = a /\ t.sni = {x} BY <1>6, Zenon
  <2>3. <<Colon>> \in Seq(Cell) /\ Colon \in Cell BY DEF Colon, Cell
  <2> HIDE DEF a
  <2>4. a \in Seq(Cell) BY <2>1 DEF Clean
  <2>5. PICK k \in Nat : Part(x, a, 0, k) /\ NoneBefore(a, <<Colon>>, k) /\ (k = Len(a) \/ At(a, <<Colon>>, k))
    BY <2>3, <2>4, BeforeIs
  <2> HIDE DEF x
  <2>6. CASE \E i \in 1..n : host[i] = Colon
    <3>1. PICK i \in 1..n : host[i] = Colon BY <2>6
    <3>2. ~ServerName(host) BY <3>1, NamesHaveNoColon
    <3>3. host[1] = Bracket BY <3>1, HostIs
    <3>4. 1 \in 1..n /\ a[1] = Bracket /\ a[1] # Colon BY <1>4, <2>1, <3>3 DEF Bracket, Colon
    <3>5. k # 0
      <4>1. ASSUME k = 0 PROVE FALSE
        <5>1. k # Len(a) BY <1>4, <2>1, <4>1
        <5>2. a[k + 1] = Colon BY <2>3, <2>4, <2>5, <5>1, CellAt
        <5>3. k + 1 = 1 BY <4>1
        <5> QED BY <3>4, <5>2, <5>3
      <4> QED BY <4>1
    <3>6. x[1] = Bracket /\ 1 \in DOMAIN x
      <4>1. 1 - 0 \in 1..Len(x) /\ x[1 - 0] = a[1] BY <2>4, <2>5, <3>5, CellOfPart
      <4>2. x \in Seq(Cell) BY <2>5 DEF Part
      <4> QED BY <3>4, <4>1, <4>2
    <3>7. ~ServerName(x)
      <4>1. Bracket \in ToSet(x) BY <3>6 DEF ToSet
      <4> QED BY <4>1 DEF ServerName
    <3>8. ~Dialable(r, t) BY <2>2, <3>7 DEF Dialable
    <3> QED BY <2>6, <3>2, <3>8
  <2>7. CASE ~\E i \in 1..n : host[i] = Colon
    <3>1. Part(a, a, 0, Len(a)) BY <2>4, WholePart
    <3> HIDE DEF n
    <3>2. CellEnds(a, Colon, 0, n, Len(a)) BY <1>4, <2>1, <2>7 DEF CellEnds
    <3>3. Part(x, a, 0, n) BY <2>3, <2>4, <3>1, <3>2, BeforeCell DEF x
    <3>4. Part(host, a, 0, n) BY <1>4, <2>1 DEF Part, n
    <3>5. x = host BY <3>3, <3>4, PartIsOne
    <3>6. t.sni = {host} BY <2>2, <3>5
    <3>7. Dialable(r, t) <=> ServerName(host) BY <1>0, <1>6, <3>6, NamedDials
    <3> QED BY <2>7, <3>6, <3>7
  <2> QED BY <2>6, <2>7
<1>7. ASSUME NEW t \in Resolve(r, s)
      PROVE  /\ Dialable(r, t) => Meant(r.kind, host, port, t)
             /\ ServerName(host) => Dialable(r, t)
  <2>1. /\ t.addr = IF Occurs(at, <<Colon>>) # {} THEN at ELSE at \o <<Colon, HttpsPort>>
        /\ t.sni = {Before(t.addr, <<Colon>>)}
    BY TlsClientResolves DEF at
  <2>2. CASE port = None
    <3>1. at = host BY <2>2, AuthorityIs DEF at
    <3>2. CASE \E i \in 1..n : host[i] = Colon
      <4>1. Occurs(at, <<Colon>>) # {} BY <1>3, <3>1, <3>2
      <4>2. t.addr = host BY <2>1, <3>1, <4>1
      <4>3. ~Dialable(r, t) BY <1>0, <4>2, HostNotDialled
      <4>4. ~ServerName(host) BY <3>2, NamesHaveNoColon
      <4> QED BY <4>3, <4>4
    <3>3. CASE ~\E i \in 1..n : host[i] = Colon
      <4>1. Occurs(at, <<Colon>>) = {} BY <1>3, <3>1, <3>3
      <4>2. t.addr = host \o <<Colon, HttpsPort>> BY <2>1, <3>1, <4>1
      <4>3. HttpsPort \in Nat /\ IsPort(HttpsPort) BY DEF HttpsPort, IsPort
      <4>4. t.sni = {host} /\ (Dialable(r, t) <=> ServerName(host)) BY <1>6, <2>1, <3>3, <4>2, <4>3
      <4>5. Meant(r.kind, host, port, t) BY <1>0, <2>2, <4>2, <4>4, Zenon DEF Meant, Some
      <4> QED BY <4>4, <4>5
    <3> QED BY <3>2, <3>3
  <2>3. CASE port # None
    <3>1. at = host \o <<Colon, Min(port)>> BY <2>3, AuthorityIs DEF at
    <3>2. Min(port) \in Nat /\ IsPort(Min(port)) BY <2>3, PortIs
    <3>3. Occurs(at, <<Colon>>) # {}
      <4>1. Len(at) = n + 2 /\ at[n + 1] = Colon BY <3>1, <3>2, AddressIs
      <4> HIDE DEF n
      <4>2. n + 1 \in 1..Len(at) BY <1>4, <4>1
      <4> QED BY <1>3, <4>1, <4>2
    <3>4. t.addr = host \o <<Colon, Min(port)>> BY <2>1, <3>1, <3>3
    <3>5. IF \E i \in 1..n : host[i] = Colon THEN ~Dialable(r, t) /\ ~ServerName(host)
          ELSE t.sni = {host} /\ (Dialable(r, t) <=> ServerName(host))
      BY <1>6, <2>1, <3>2, <3>4
    <3>6. CASE \E i \in 1..n : host[i] = Colon BY <3>5, <3>6
    <3>7. CASE ~\E i \in 1..n : host[i] = Colon
      <4>1. t.sni = {host} /\ (Dialable(r, t) <=> ServerName(host)) BY <3>5, <3>7
      <4>2. Meant(r.kind, host, port, t) BY <1>0, <2>3, <3>4, <4>1, Zenon DEF Meant, Some
      <4> QED BY <4>1, <4>2
    <3> QED BY <3>6, <3>7
  <2> QED BY <2>2, <2>3
<1> QED BY <1>5, <1>7 DEF Right

-----------------------------------------------------------------------------
(* The forms of a key *)

\* The routers there are.
Kinds == {"Tcp", "Sock", "Matching", "Tls", "TlsClient"}

\* A router that finds nothing to dial in a text that is for nobody.
LEMMA NothingDialled ==
  ASSUME NEW r, NEW s, NEW host, NEW port, NEW for, r.kind \notin for,
         \A t \in Resolve(r, s) : ~Dialable(r, t)
  PROVE  Right(r, s, host, port, for)
BY DEF Right

\* The path of a socket is not in a key.
LEMMA SockDials ==
  ASSUME NEW r, r.kind = "Sock", r.fixed = None, NEW s, NEW t \in Resolve(r, s)
  PROVE  FALSE
<1>1. Resolve(r, s) = TcpOverSockRoute(r) BY DEF Resolve
<1>2. TcpOverSockRoute(r) = {} BY DEF TcpOverSockRoute, None
<1> QED BY <1>1, <1>2

\* No text that is no line has a host for TcpRouter.
LEMMA TcpFindsNone ==
  ASSUME NEW r, r.kind = "Tcp", r.fixed = None, NEW s, ExtractHost(s) = None, NEW t \in Resolve(r, s)
  PROVE  FALSE
<1>1. Resolve(r, s) = TcpRoute(r, s) BY DEF Resolve
<1>2. TcpRoute(r, s) = {Plain(a) : a \in ExtractHost(s)} BY DEF TcpRoute
<1> QED BY <1>1, <1>2 DEF None

\* A request line: only TcpRouter takes its second word.
LEMMA RequestDials ==
  ASSUME NEW r, r.kind \in Kinds, r.kind # "Matching", r.fixed = None, NEW host \in Host, NEW port, OptPort(port),
         NEW s \in Seq(Cell), Utf8(s), NEW m \in 1..Len(s), NEW j \in 1..Len(s), NEW e \in 1..(Len(s) + 1),
         UriAt(s, m, e), m <= j, NamesAt(s, Authority(host, port), j, e), NEW for,
         \/ /\ m + 3 <= j /\ SchemeAt(s, j - 2) /\ \A i \in (m + 1)..(j - 3) : s[i] # Colon
            /\ for \subseteq IF port = None THEN {} ELSE {"Tcp"}
         \/ /\ \A i \in (m + 1)..j : s[i] = Slash
            /\ \A i \in (m + 1)..(e - 3) : ~SchemeAt(s, i)
            /\ for \subseteq IF j + Len(Authority(host, port)) + 1 = e /\ port # None THEN {"Tcp"} ELSE {}
  PROVE  Right(r, s, host, port, for)
<1> DEFINE at == Authority(host, port)
           k == j + Len(at)
<1>0. m \in Nat /\ e \in Nat /\ j \in Nat /\ Len(s) \in Nat /\ e <= Len(s) + 1 OBVIOUS
<1>1. Clean(at) BY AuthorityIs
<1>2. for \subseteq {"Tcp"} /\ ("Tcp" \in for => port # None) OBVIOUS
<1>3. s[m] = Space /\ \A i \in 1..(m - 1) : s[i] # Slash BY DEF UriAt
<1>4. CASE r.kind = "Tls"
  <2>1. r.kind \notin for BY <1>2, <1>4
  <2>2. \A t \in Resolve(r, s) : ~Dialable(r, t) BY <1>3, <1>4, TlsRefuses
  <2> QED BY <2>1, <2>2, NothingDialled
<1>5. CASE r.kind = "TlsClient"
  <2>1. r.kind \notin for BY <1>2, <1>5
  <2>2. \A t \in Resolve(r, s) : ~Dialable(r, t) BY <1>3, <1>5, TlsClientRefuses
  <2> QED BY <2>1, <2>2, NothingDialled
<1>6. CASE r.kind = "Sock"
  <2>1. r.kind \notin for BY <1>2, <1>6
  <2>2. \A t \in Resolve(r, s) : ~Dialable(r, t) BY <1>6, SockDials
  <2> QED BY <2>1, <2>2, NothingDialled
<1>7. CASE r.kind = "Tcp"
  <2>1. CASE m + 3 <= j /\ SchemeAt(s, j - 2) /\ \A i \in (m + 1)..(j - 3) : s[i] # Colon
    <3>1. ExtractHost(s) = Some(at) BY <1>1, <2>1, AbsoluteHost
    <3> QED BY <1>2, <1>7, <3>1, TcpDials
  <2>2. CASE /\ \A i \in (m + 1)..j : s[i] = Slash
             /\ \A i \in (m + 1)..(e - 3) : ~SchemeAt(s, i)
             /\ for \subseteq IF k + 1 = e /\ port # None THEN {"Tcp"} ELSE {}
    <3>1. PICK x : ExtractHost(s) = Some(x) /\ Part(x, s, j, e - 1) BY <1>1, <2>2, PlainHost
    <3>2. Part(at, s, j, k) /\ k \in Nat /\ j < k /\ k <= e - 1 /\ (k = e - 1 \/ s[k + 1] = Slash)
      BY <1>0, <1>1, AuthorityIsThere
    <3>3. CASE k = e - 1
      <4>1. x = at BY <3>1, <3>2, <3>3, PartIsOne
      <4> QED BY <1>2, <1>7, <3>1, <4>1, TcpDials
    <3>4. CASE k # e - 1
      <4> HIDE DEF k
      <4>1. k + 1 # e /\ k + 1 \in Nat /\ j < k + 1 /\ k + 1 <= e - 1 BY <1>0, <3>2, <3>4
      <4>2. (k + 1) - j \in 1..Len(x) /\ x[(k + 1) - j] = Slash
        <5>1. s[k + 1] = Slash BY <3>2, <3>4
        <5>2. (k + 1) - j \in 1..Len(x) /\ x[(k + 1) - j] = s[k + 1] BY <3>1, <4>1, CellOfPart
        <5> QED BY <5>1, <5>2
      <4>3. x \in Seq(Cell) BY <3>1 DEF Part
      <4>4. Resolve(r, s) = {Plain(x)}
        <5>1. Resolve(r, s) = TcpRoute(r, s) BY <1>7 DEF Resolve
        <5>2. TcpRoute(r, s) = {Plain(a) : a \in ExtractHost(s)} BY DEF TcpRoute
        <5> QED BY <3>1, <5>1, <5>2 DEF Some
      <4>5. Plain(x).addr = x BY DEF Plain
      <4>6. r.kind # "Sock" BY <1>7
      <4>7. ~Dialable(r, Plain(x)) BY <4>2, <4>3, <4>5, <4>6, NotDialled
      <4>8. r.kind \notin for BY <2>2, <4>1
      <4> QED BY <4>4, <4>7, <4>8, NothingDialled
    <3> QED BY <3>3, <3>4
  <2> QED BY <2>1, <2>2
<1> QED BY <1>4, <1>5, <1>6, <1>7 DEF Kinds

\* The authority alone, or with a path: for the two TLS routers.
LEMMA AuthorityDials ==
  ASSUME NEW r, r.kind \in Kinds, r.kind # "Matching", r.fixed = None, NEW host \in Host, NEW port, OptPort(port),
         NEW s \in Seq(Cell), Utf8(s), Space \notin ToSet(s), NamesAt(s, Authority(host, port), 0, Len(s) + 1),
         NEW for, for \subseteq {"Tls", "TlsClient"}, for # {} => ServerName(host),
         "Tls" \in for => s = Authority(host, port)
  PROVE  Right(r, s, host, port, for)
<1> DEFINE at == Authority(host, port)
           k == Len(at)
           e == Len(s) + 1
<1>0. Len(s) \in Nat /\ e \in Nat /\ e - 1 = Len(s) /\ e <= Len(s) + 1 OBVIOUS
<1>1. Clean(at) BY AuthorityIs
<1>2. /\ Part(at, s, 0, k) /\ k \in Nat /\ k <= Len(s) /\ (k = Len(s) \/ s[k + 1] = Slash)
      /\ \A i \in Nat : 0 < i /\ i <= k => s[i] # Slash
  <2>1. k \in Nat BY <1>1 DEF Clean
  <2>2. NamesAt(s, at, 0, e) OBVIOUS
  <2> HIDE DEF at, e
  <2> DEFINE q == 0 + Len(at)
  <2>3. /\ Part(at, s, 0, q) /\ q <= e - 1 /\ (q = e - 1 \/ s[q + 1] = Slash)
        /\ \A i \in Nat : 0 < i /\ i <= q => s[i] # Slash /\ s[i] # Space
    BY <1>0, <1>1, <2>2, AuthorityIsThere
  <2>4. q = k BY <2>1
  <2> HIDE DEF q, k
  <2> QED BY <1>0, <2>1, <2>3, <2>4
<1>3. CASE r.kind = "Tcp"
  <2>1. ExtractHost(s) = None BY OneWord
  <2>2. \A t \in Resolve(r, s) : ~Dialable(r, t) BY <1>3, <2>1, TcpFindsNone
  <2>3. r.kind \notin for BY <1>3
  <2> QED BY <2>2, <2>3, NothingDialled
<1>4. CASE r.kind = "Sock"
  <2>1. r.kind \notin for BY <1>4
  <2>2. \A t \in Resolve(r, s) : ~Dialable(r, t) BY <1>4, SockDials
  <2> QED BY <2>1, <2>2, NothingDialled
<1>5. CASE r.kind = "Tls" /\ s = at BY <1>5, TlsDials
<1>6. CASE r.kind = "Tls" /\ s # at
  <2>1. k # Len(s)
    <3>1. ASSUME k = Len(s) PROVE FALSE
      <4>1. Part(at, s, 0, Len(s)) BY <1>2, <3>1
      <4>2. at = s BY <4>1, WholePart, PartIsOne
      <4> QED BY <1>6, <4>2
    <3> QED BY <3>1
  <2> HIDE DEF k
  <2>2. k + 1 \in 1..Len(s) /\ s[k + 1] = Slash
    <3>1. s[k + 1] = Slash BY <1>2, <2>1
    <3>2. k \in Nat /\ k <= Len(s) BY <1>2
    <3>3. \A a, b \in Nat : a <= b /\ a # b => a + 1 \in 1..b OBVIOUS
    <3>4. k + 1 \in 1..Len(s) BY <1>0, <2>1, <3>2, <3>3, Zenon
    <3> QED BY <3>1, <3>4
  <2>3. \A t \in Resolve(r, s) : ~Dialable(r, t) BY <1>6, <2>2, TlsRefuses
  <2>4. r.kind \notin for BY <1>6
  <2> QED BY <2>3, <2>4, NothingDialled
<1>7. CASE r.kind = "TlsClient"
  <2> HIDE DEF k
  <2>1. Part(s, s, 0, Len(s)) BY WholePart
  <2>2. CellEnds(s, Slash, 0, k, Len(s)) BY <1>2 DEF CellEnds
  <2>3. Slash \in Cell BY DEF Slash, Cell
  <2>4. Part(Before(s, <<Slash>>), s, 0, k) BY <2>1, <2>2, <2>3, BeforeCell
  <2>5. Before(s, <<Slash>>) = at BY <1>2, <2>4, PartIsOne
  <2> QED BY <1>7, <2>5, TlsClientDials
<1> QED BY <1>3, <1>4, <1>5, <1>6, <1>7 DEF Kinds

\* A text that names nothing.
NamesNothing(s) ==
  \/ ~Utf8(s) \/ s \in {<<>>, <<Slash>>}
  \/ /\ \A i \in DOMAIN s : ~IsPort(s[i])
     /\ \E m \in DOMAIN s : s[m] = Space /\ \A i \in 1..(m - 1) : s[i] # Slash

\* Nobody dials for it.
LEMMA NobodyDials ==
  ASSUME NEW r, r.kind \in Kinds, r.kind # "Matching", r.fixed = None, NEW s \in Seq(Cell), NamesNothing(s),
         NEW t \in Resolve(r, s)
  PROVE  ~Dialable(r, t)
<1>1. CASE r.kind = "Sock" BY <1>1, SockDials
<1>2. CASE ~Utf8(s)
  <2>1. CASE r.kind = "Tcp"
    <3>1. ExtractHost(s) = None BY <1>2 DEF ExtractHost
    <3> QED BY <2>1, <3>1, TcpFindsNone
  <2>2. CASE r.kind = "Tls"
    <3>1. Resolve(r, s) = TlsRoute(r, s) BY <2>2 DEF Resolve
    <3>2. Resolve(r, s) = {} BY <1>2, <3>1 DEF TlsRoute, None
    <3> QED BY <3>2
  <2>3. CASE r.kind = "TlsClient" BY <1>2, <2>3, TlsClientResolves
  <2> QED BY <1>1, <2>1, <2>2, <2>3 DEF Kinds
<1>3. CASE s \in {<<>>, <<Slash>>}
  <2>1. Space \notin ToSet(s) BY <1>3 DEF ToSet, Space, Slash
  <2>2. CASE r.kind = "Tcp"
    <3>1. ExtractHost(s) = None BY <2>1, OneWord
    <3> QED BY <2>2, <3>1, TcpFindsNone
  <2>3. CASE r.kind = "TlsClient"
    <3>1. Before(s, <<Slash>>) = <<>>
      <4>1. Part(s, s, 0, Len(s)) BY WholePart
      <4>2. CellEnds(s, Slash, 0, 0, Len(s)) BY <1>3 DEF CellEnds
      <4>3. Slash \in Cell BY DEF Slash, Cell
      <4>4. Part(Before(s, <<Slash>>), s, 0, 0) BY <4>1, <4>2, <4>3, BeforeCell
      <4>5. Part(<<>>, s, 0, 0) BY DEF Part
      <4> QED BY <4>4, <4>5, PartIsOne
    <3> QED BY <2>3, <3>1, TlsClientResolves
  <2>4. CASE r.kind = "Tls" /\ s = <<Slash>>
    <3>1. 1 \in 1..Len(s) /\ s[1] = Slash BY <2>4
    <3> QED BY <2>4, <3>1, TlsRefuses
  <2>5. CASE r.kind = "Tls" /\ s = <<>>
    <3> DEFINE a == <<Colon, HttpsPort>>
    <3>1. Utf8(s) BY <2>5 DEF Utf8, ToSet
    <3>2. Occurs(s, <<Colon>>) = {}
      <4>1. Colon \in Cell BY DEF Colon, Cell
      <4>2. Occurs(s, <<Colon>>) = {i \in 1..Len(s) : s[i] = Colon} BY <4>1, CellOccurs
      <4>3. Len(s) = 0 BY <2>5
      <4> QED BY <4>2, <4>3
    <3>3. t = Named(s \o a, s) BY <2>5, <3>1, <3>2, TlsResolves
    <3>4. s \o a = a /\ a \in Seq(Cell) /\ Len(a) = 2 BY <2>5 DEF Colon, HttpsPort, Cell
    <3> HIDE DEF a
    <3>5. t.addr = a BY <3>3, <3>4 DEF Named
    <3>6. r.kind # "Sock" BY <2>5
    <3> QED BY <3>4, <3>5, <3>6, DialableIs
  <2> QED BY <1>1, <1>3, <2>2, <2>3, <2>4, <2>5 DEF Kinds
<1>4. ASSUME \A i \in DOMAIN s : ~IsPort(s[i]), NEW m \in DOMAIN s, s[m] = Space,
             \A i \in 1..(m - 1) : s[i] # Slash
      PROVE  ~Dialable(r, t)
  <2>0. m \in 1..Len(s) /\ DOMAIN s = 1..Len(s) /\ Len(s) \in Nat OBVIOUS
  <2>1. CASE r.kind = "Tls" BY <1>4, <2>0, <2>1, TlsRefuses
  <2>2. CASE r.kind = "TlsClient" BY <1>4, <2>0, <2>2, TlsClientRefuses
  <2>3. CASE r.kind = "Tcp"
    <3>1. Resolve(r, s) = TcpRoute(r, s) BY <2>3 DEF Resolve
    <3>2. TcpRoute(r, s) = {Plain(a) : a \in ExtractHost(s)} BY DEF TcpRoute
    <3>3. PICK x \in ExtractHost(s) : t = Plain(x) BY <3>1, <3>2
    <3>4. PICK a, b \in Nat : Part(x, s, a, b) BY HostIsPart
    <3>5. x \in Seq(Cell) /\ Len(x) = b - a /\ a <= b /\ b <= Len(s) BY <3>4 DEF Part
    <3>6. t.addr = x BY <3>3 DEF Plain
    <3>7. r.kind # "Sock" BY <2>3
    <3>8. ASSUME Len(x) >= 3 PROVE ~IsPort(x[Len(x)])
      <4>1. Len(x) \in 1..(b - a) /\ a + Len(x) = b BY <3>5, <3>8
      <4>2. x[Len(x)] = s[a + Len(x)] BY <3>4, <4>1 DEF Part
      <4>3. b \in DOMAIN s BY <2>0, <3>5, <3>8
      <4> QED BY <1>4, <4>1, <4>2, <4>3
    <3> QED BY <3>5, <3>6, <3>7, <3>8, DialableIs
  <2> QED BY <1>1, <2>1, <2>2, <2>3 DEF Kinds
<1> QED BY <1>2, <1>3, <1>4 DEF NamesNothing

\* Every form of key, for every router that takes the address from it.
LEMMA KeyDials ==
  ASSUME NEW line, IsKey(line), NEW r, r.kind \in Kinds, r.kind # "Matching", r.fixed = None
  PROVE  Right(r, line.text, line.host, line.port, line.for)
<1> DEFINE s == line.text
           host == line.host
           port == line.port
           for == line.for
           at == Authority(host, port)
           tcp == IF port = None THEN {} ELSE {"Tcp"}
<1> HIDE DEF s, host, port, for
<1>1. s \in Seq(Cell) /\ host \in Host /\ OptPort(port)
  BY DEF IsKey, Cell, OptPort, s, host, port
<1>2. ASSUME Utf8(s), NEW m \in 1..Len(s), NEW j \in 1..Len(s), NEW e \in 1..(Len(s) + 1),
             UriAt(s, m, e), m <= j, NamesAt(s, at, j, e),
             \/ /\ m + 3 <= j /\ SchemeAt(s, j - 2) /\ \A i \in (m + 1)..(j - 3) : s[i] # Colon
                /\ for \subseteq tcp
             \/ /\ \A i \in (m + 1)..j : s[i] = Slash
                /\ \A i \in (m + 1)..(e - 3) : ~SchemeAt(s, i)
                /\ for \subseteq IF j + Len(at) + 1 = e THEN tcp ELSE {}
      PROVE  Right(r, s, host, port, for)
  <2>1. \/ /\ m + 3 <= j /\ SchemeAt(s, j - 2) /\ \A i \in (m + 1)..(j - 3) : s[i] # Colon
           /\ for \subseteq IF port = None THEN {} ELSE {"Tcp"}
        \/ /\ \A i \in (m + 1)..j : s[i] = Slash
           /\ \A i \in (m + 1)..(e - 3) : ~SchemeAt(s, i)
           /\ for \subseteq IF j + Len(at) + 1 = e /\ port # None THEN {"Tcp"} ELSE {}
    BY <1>2
  <2> QED BY <1>1, <1>2, <2>1, RequestDials
<1>3. ASSUME Utf8(s), Space \notin ToSet(s), NamesAt(s, at, 0, Len(s) + 1),
             for \subseteq IF ~ServerName(host) THEN {}
                           ELSE {"TlsClient"} \cup (IF s = at THEN {"Tls"} ELSE {})
      PROVE  Right(r, s, host, port, for)
  <2>1. for \subseteq {"Tls", "TlsClient"} /\ (for # {} => ServerName(host)) /\ ("Tls" \in for => s = at)
    BY <1>3
  <2> QED BY <1>1, <1>3, <2>1, AuthorityDials
<1>4. ASSUME for = {}, NamesNothing(s)
      PROVE  Right(r, s, host, port, for)
  <2>1. \A t \in Resolve(r, s) : ~Dialable(r, t) BY <1>1, <1>4, NobodyDials
  <2> QED BY <1>4, <2>1, NothingDialled
<1>5. Right(r, s, host, port, for)
  BY <1>2, <1>3, <1>4 DEF IsKey, NamesNothing, s, host, port, for
<1> QED BY <1>5 DEF s, host, port, for

-----------------------------------------------------------------------------
(* What is dialled *)

\* A key that came as text stays the text of its line, and what was dialled is
\* what the router made of the key.
DialInv ==
  /\ \A line \in named : line \in Lines /\ key = Some(line.text) /\ stage # "pre"
  /\ \A r \in router, t \in target : \E k \in key : t \in Resolve(r, k) /\ Dialable(r, t)

\* Nothing is dialled at first.
LEMMA DialStarts == Init => DialInv
<1> SUFFICES ASSUME Init PROVE DialInv OBVIOUS
<1>1. router = {} BY DEF Init, None
<1>2. ASSUME NEW line \in named PROVE line \in Lines /\ key = Some(line.text) /\ stage # "pre"
  <2>1. named # None BY DEF None
  <2>2. PICK l \in Lines : named = Some(l) /\ key = Some(l.text) /\ stage = "routing" BY <2>1 DEF Init
  <2>3. line = l BY <2>2 DEF Some
  <2> QED BY <2>2, <2>3
<1> QED BY <1>1, <1>2 DEF DialInv

\* The steps that neither route nor set the key.
LEMMA DialStays ==
  ASSUME DialInv, UNCHANGED <<key, named, router, target>>, stage' = "pre" => stage = "pre"
  PROVE  DialInv'
BY DEF DialInv

\* The first loop sets a key where there was none, and nothing is dialled yet.
LEMMA DialYields ==
  ASSUME FlowInv, DialInv, YieldFrame
  PROVE  DialInv'
<1>1. UNCHANGED <<named, router, target>> /\ (stage' = "pre" => stage = "pre") BY DEF YieldFrame, client
<1>2. CASE stage = "pre"
  <2>1. target' = {} BY <1>1, <1>2 DEF FlowInv, None
  <2>2. named' = {} BY <1>1, <1>2 DEF DialInv
  <2> QED BY <2>1, <2>2 DEF DialInv
<1>3. CASE stage # "pre"
  <2>1. key' = key BY <1>3 DEF YieldFrame
  <2> QED BY <1>1, <2>1, DialStays
<1> QED BY <1>2, <1>3

\* The router dials what it makes of the key.
LEMMA DialRoutes ==
  ASSUME FlowInv, DialInv, NEW r \in Configs, Route(r)
  PROVE  DialInv'
<1>1. router' = {r} /\ UNCHANGED <<key, named, stage>> BY DEF Route, Some, client
<1>2. ASSUME NEW t \in target' PROVE \E k \in key : t \in Resolve(r, k) /\ Dialable(r, t)
  <2>1. CASE target' = target
    <3>1. target' = {} BY <2>1 DEF Route, FlowInv, None
    <3> QED BY <3>1
  <2>2. ASSUME NEW u \in UNION {Resolve(r, k) : k \in key}, Dialable(r, u), target' = Some(u)
        PROVE  \E k \in key : t \in Resolve(r, k) /\ Dialable(r, t)
    BY <2>2 DEF Some
  <2> QED BY <2>1, <2>2 DEF Route
<1> QED BY <1>1, <1>2 DEF DialInv

\* Every step keeps it.
LEMMA DialSteps ==
  ASSUME FlowInv, DialInv, [Next]_vars
  PROVE  DialInv'
<1>1. CASE Send \/ Close BY <1>1, DialStays DEF Send, Close, flow
<1>2. CASE RejectHeader \/ ReadEof \/ ReadError
  BY <1>2, DialStays DEF RejectHeader, ReadEof, ReadError, Fruitless, client
<1>3. ASSUME NEW n \in 1..Len(wire), ReadHeader(n) \/ ReadPayload(n) PROVE DialInv'
  BY <1>3, DialStays DEF ReadHeader, ReadPayload, flow, client
<1>4. CASE YieldFrame BY <1>4, DialYields
<1>5. ASSUME NEW r \in Configs, Route(r) PROVE DialInv' BY <1>5, DialRoutes
<1>6. CASE Join BY <1>6, DialStays DEF Join, client
<1>7. CASE UNCHANGED vars BY <1>7, DialStays DEF vars, flow, client
<1> QED BY <1>1, <1>2, <1>3, <1>4, <1>5, <1>6, <1>7 DEF Next, Read

\* What the invariant says of a named key.
LEMMA DialsTheNamed ==
  ASSUME FlowInv, DialInv
  PROVE  DialsWhatIsNamed
<1> SUFFICES ASSUME NEW r \in router, r.kind # "Matching", r.fixed = None, NEW line \in named
             PROVE  /\ \A t \in target : Meant(r.kind, line.host, line.port, t)
                    /\ r.kind \in line.for => \E t \in Resolve(r, line.text) : Dialable(r, t)
  BY DEF DialsWhatIsNamed, Meant
<1>1. r \in Configs BY DEF FlowInv
<1>2. r.kind \in Kinds BY <1>1, RoutingAssumption DEF Kinds
<1>3. line \in Lines /\ key = {line.text} BY DEF DialInv, Some
<1>4. IsKey(line) BY <1>3, RoutingAssumption
<1>5. Right(r, line.text, line.host, line.port, line.for) BY <1>2, <1>4, KeyDials
<1>6. ASSUME NEW t \in target PROVE Meant(r.kind, line.host, line.port, t)
  <2>1. t \in Resolve(r, line.text) /\ Dialable(r, t) BY <1>3 DEF DialInv
  <2> QED BY <1>5, <2>1 DEF Right
<1> QED BY <1>5, <1>6 DEF Right

\* For every request line, of any text, and every configuration: a router that
\* takes the address from the key dials the host and the port the key was made
\* from and asks for a certificate of that host, or does not dial; and the router
\* that a form of key is meant for has something to dial.
THEOREM NamedHostIsDialled == Spec => []DialsWhatIsNamed
<1>1. ParserInv /\ [Next]_vars => ParserInv' BY ParserSteps
<1>2. ParserInv /\ FlowInv /\ [Next]_vars => FlowInv' BY FlowSteps
<1>3. FlowInv /\ DialInv /\ [Next]_vars => DialInv' BY DialSteps
<1>4. FlowInv /\ DialInv => DialsWhatIsNamed BY DialsTheNamed
<1> QED BY <1>1, <1>2, <1>3, <1>4, ParserStarts, FlowStarts, DialStarts, PTL DEF Spec

-----------------------------------------------------------------------------
(* The routing key *)

\* The host of a record is the name that extract_sni finds in it.
HostsAreFound == \A s \in Scripts : \A i \in DOMAIN s : ExtractSni(s[i].cells) = s[i].host

\* The records among the first n that name a host.
Hellos(n) == {i \in 1..n : script[i].host # None}

\* The first loop has no key yet; it ends with one.
KeyInv ==
  /\ named # None => script = <<>>
  /\ stage = "pre" => key = None
  /\ stage = "routing" => key # None
  /\ RoutedByHello

\* RoutedByHello, in terms of the number of frames.
LEMMA HellosOfFrames ==
  ASSUME ParserInv
  PROVE  /\ {i \in DOMAIN frames : script[i].host # None} = Hellos(Len(frames))
         /\ Hellos(Len(frames)) \in SUBSET Nat
<1>1. DOMAIN frames = 1..Len(frames) /\ Len(frames) \in Nat BY DEF ParserInv, ParserType
<1> QED BY <1>1 DEF Hellos

\* There is a first one.
LEMMA FirstHello ==
  ASSUME NEW T \in SUBSET Nat, T # {}
  PROVE  Min(T) \in T /\ \A j \in T : Min(T) <= j
<1>1. \E m \in T : \A j \in T : m <= j BY Least
<1> QED BY <1>1 DEF Min

\* The key is a name from the start, or there is none.
LEMMA KeyStarts == Init => KeyInv
<1> SUFFICES ASSUME Init PROVE KeyInv OBVIOUS
<1>1. frames = <<>> /\ DOMAIN <<>> = {} BY DEF Init
<1>2. /\ named # None => script = <<>>
      /\ stage = "pre" => key = None
      /\ stage = "routing" => key # None
      /\ named = None => key = None
  BY DEF Init, None, Some
<1>3. RoutedByHello BY <1>1, <1>2 DEF RoutedByHello
<1> QED BY <1>2, <1>3 DEF KeyInv

\* The steps that yield no frame.
LEMMA KeyStays ==
  ASSUME KeyInv, UNCHANGED <<key, frames, script, named>>, stage' \in {stage, "failed", "joined"}
  PROVE  KeyInv'
<1>1. RoutedByHello' BY DEF KeyInv, RoutedByHello
<1> QED BY <1>1 DEF KeyInv

\* The record that comes out is the first with a name, or the key stays.
LEMMA KeyYields ==
  ASSUME HostsAreFound, ParserInv, ParserInv', KeyInv, YieldFrame
  PROVE  KeyInv'
<1> DEFINE n == Len(frames)
           f == header \o payload
           H == Hellos(n)
           G == Hellos(n + 1)
<1>1. /\ script # <<>> /\ stage \in {"pre", "routing"} /\ script' = script /\ named' = named
      /\ frames' = Append(frames, f)
      /\ key' = (IF stage = "pre" THEN ExtractSni(f) ELSE key)
      /\ stage' = (IF key' # None THEN "routing" ELSE stage)
  BY DEF YieldFrame, Polled, client
<1>2. named = None BY <1>1 DEF KeyInv
<1>3. n \in Nat /\ frames \in Seq(Seq(Cell)) /\ f \in Seq(Cell) BY DEF ParserInv, ParserType
<1>4. Len(frames') = n + 1 /\ frames'[n + 1] = f /\ n + 1 \in DOMAIN frames'
  <2> HIDE DEF f
  <2> QED BY <1>1, <1>3
<1>5. f = script[n + 1].cells BY <1>1, <1>4 DEF ParserInv, RecordsConserved
<1>6. script \in Scripts /\ n + 1 \in DOMAIN script
  <2>1. script \in Scripts BY <1>1 DEF ParserInv, ParserType
  <2>2. n + 1 <= Len(script) BY <1>1, <1>4 DEF ParserInv, ParserType
  <2>3. DOMAIN script = 1..Len(script) /\ Len(script) \in Nat BY <2>1, RecordsType
  <2> QED BY <1>3, <2>1, <2>2, <2>3
<1>7. ExtractSni(f) = script[n + 1].host BY <1>5, <1>6 DEF HostsAreFound
<1>8. key = IF H = {} THEN None ELSE script[Min(H)].host BY <1>2, HellosOfFrames DEF KeyInv, RoutedByHello
<1>9. H \in SUBSET Nat /\ G = H \cup (IF script[n + 1].host # None THEN {n + 1} ELSE {})
  BY <1>3 DEF Hellos
<1>10. \A i \in H : i < n + 1 /\ script[i].host # None BY <1>3 DEF Hellos
<1> HIDE DEF H, G, f, n
<1>11. key' = IF G = {} THEN None ELSE script[Min(G)].host
  <2>1. CASE stage = "pre"
    <3>1. key = None BY <2>1 DEF KeyInv
    <3>2. H = {} BY <1>8, <1>9, <1>10, <3>1, FirstHello
    <3>3. Min({n + 1}) = n + 1 BY <1>3 DEF Min
    <3> QED BY <1>1, <1>7, <1>9, <2>1, <3>2, <3>3
  <2>2. CASE stage = "routing"
    <3>1. key # None /\ key' = key BY <1>1, <2>2 DEF KeyInv
    <3>2. H # {} BY <1>8, <3>1
    <3>3. G \in SUBSET Nat /\ G # {} BY <1>3, <1>9, <3>2
    <3>4. Min(H) \in H /\ \A j \in H : Min(H) <= j BY <1>9, <3>2, FirstHello
    <3>5. Min(G) \in G /\ \A j \in G : Min(G) <= j BY <3>3, FirstHello
    <3>6. Min(H) \in Nat /\ Min(G) \in Nat BY <1>9, <3>3, <3>4, <3>5
    <3>7. Min(G) <= Min(H) /\ Min(H) < n + 1 BY <1>9, <1>10, <3>4, <3>5
    <3>8. Min(G) \in H BY <1>3, <1>9, <3>5, <3>6, <3>7
    <3>9. Min(G) = Min(H) BY <3>4, <3>6, <3>7, <3>8
    <3> QED BY <1>8, <3>1, <3>2, <3>3, <3>9
  <2> QED BY <1>1, <2>1, <2>2
<1>12. {i \in DOMAIN frames' : script'[i].host # None} = G
  <2>1. DOMAIN frames' = 1..(n + 1) BY <1>1, <1>3, <1>4
  <2> QED BY <1>1, <2>1 DEF Hellos, G
<1>13. RoutedByHello' BY <1>1, <1>11, <1>12 DEF RoutedByHello
<1>14. (stage' = "pre" => key' = None) /\ (stage' = "routing" => key' # None) BY <1>1 DEF KeyInv
<1> QED BY <1>1, <1>2, <1>13, <1>14 DEF KeyInv

\* Every step keeps the invariant.
LEMMA KeySteps ==
  ASSUME HostsAreFound, ParserInv, ParserInv', KeyInv, [Next]_vars
  PROVE  KeyInv'
<1>1. CASE Send \/ Close BY <1>1, KeyStays DEF Send, Close, flow, parser
<1>2. CASE RejectHeader \/ ReadEof \/ ReadError
  BY <1>2, KeyStays DEF RejectHeader, ReadEof, ReadError, Fruitless, client, parser
<1>3. ASSUME NEW n \in 1..Len(wire), ReadHeader(n) \/ ReadPayload(n) PROVE KeyInv'
  BY <1>3, KeyStays DEF ReadHeader, ReadPayload, flow, client
<1>4. CASE YieldFrame BY <1>4, KeyYields
<1>5. ASSUME NEW r \in Configs, Route(r) PROVE KeyInv' BY <1>5, KeyStays DEF Route, client, parser
<1>6. CASE Join BY <1>6, KeyStays DEF Join, client, parser
<1>7. CASE UNCHANGED vars BY <1>7, KeyStays DEF vars, flow, client, parser
<1> QED BY <1>1, <1>2, <1>3, <1>4, <1>5, <1>6, <1>7 DEF Next, Read

\* Where the name of a hello is what extract_sni finds in its record: for every
\* stream and every cut of it into reads, the routing key is the name in the first
\* record that has one, and a later hello never changes it.
THEOREM KeyIsOfFirstHello == HostsAreFound => (Spec => []RoutedByHello)
<1> SUFFICES ASSUME HostsAreFound PROVE Spec => []RoutedByHello OBVIOUS
<1>1. ParserInv /\ [Next]_vars => ParserInv' BY ParserSteps
<1>2. ParserInv /\ ParserInv' /\ KeyInv /\ [Next]_vars => KeyInv' BY KeySteps
<1>3. KeyInv => RoutedByHello BY DEF KeyInv
<1> QED BY <1>1, <1>2, <1>3, ParserStarts, KeyStarts, PTL DEF Spec

-----------------------------------------------------------------------------
(* The server name in a hello *)

\* A field after its length, and an extension or a name: a type and such a field.
Prefixed(s) == <<Len(s)>> \o s
Item(type, s) == <<type>> \o Prefixed(s)

\* Extensions or names of other types.
Foreign(items, type) ==
  /\ items \in Seq(Seq(Cell))
  /\ \A i \in 1..Len(items) : \E other \in Cell \ {type}, s \in Seq(Cell) : items[i] = Item(other, s)

\* The parts of a field.
LEMMA PrefixedShape ==
  ASSUME NEW s \in Seq(Cell)
  PROVE  /\ Prefixed(s) \in Seq(Cell) /\ Len(Prefixed(s)) = Len(s) + 1
         /\ \A d \in Seq(Cell), j \in Nat :
              Holds(d, j, Prefixed(s)) => d[j + 1] = Len(s) /\ Holds(d, j + 1, s)
<1> DEFINE l == <<Len(s)>>
<1>1. Len(s) \in Nat OBVIOUS
<1>2. l \in Seq(Cell) /\ Len(l) = 1 /\ l[1] = Len(s)
  <2>1. Len(s) \in Cell BY <1>1 DEF Cell
  <2> QED BY <2>1
<1>3. Prefixed(s) = l \o s BY DEF Prefixed
<1> HIDE DEF l
<1>4. Prefixed(s) \in Seq(Cell) /\ Len(Prefixed(s)) = Len(s) + 1
  <2>1. l \o s \in Seq(Cell) /\ Len(l \o s) = Len(l) + Len(s) BY <1>2, CatType
  <2> QED BY <1>1, <1>2, <1>3, <2>1
<1>5. ASSUME NEW d \in Seq(Cell), NEW j \in Nat, Holds(d, j, Prefixed(s))
      PROVE  d[j + 1] = Len(s) /\ Holds(d, j + 1, s)
  <2>1. Holds(d, j, l \o s) BY <1>3, <1>5
  <2>2. Holds(d, j, l) /\ Holds(d, j + Len(l), s) BY <1>2, <2>1, HoldsCat
  <2> QED BY <1>2, <2>2 DEF Holds
<1> QED BY <1>4, <1>5

\* The parts of an extension.
LEMMA ItemShape ==
  ASSUME NEW type \in Cell, NEW s \in Seq(Cell)
  PROVE  /\ Item(type, s) \in Seq(Cell) /\ Len(Item(type, s)) = Len(s) + 2
         /\ \A d \in Seq(Cell), j \in Nat :
              Holds(d, j, Item(type, s)) => d[j + 1] = type /\ d[j + 2] = Len(s) /\ Holds(d, j + 2, s)
<1> DEFINE l == <<type>>
           f == Prefixed(s)
<1>1. l \in Seq(Cell) /\ Len(l) = 1 /\ l[1] = type OBVIOUS
<1>2. f \in Seq(Cell) /\ Len(f) = Len(s) + 1 /\ Len(s) \in Nat BY PrefixedShape
<1>3. Item(type, s) = l \o f BY DEF Item
<1>4. ASSUME NEW d \in Seq(Cell), NEW j \in Nat, Holds(d, j, f) PROVE d[j + 1] = Len(s) /\ Holds(d, j + 1, s)
  BY <1>4, PrefixedShape
<1> HIDE DEF l, f
<1>5. Item(type, s) \in Seq(Cell) /\ Len(Item(type, s)) = Len(s) + 2
  <2>1. l \o f \in Seq(Cell) /\ Len(l \o f) = Len(l) + Len(f) BY <1>1, <1>2, CatType
  <2> QED BY <1>1, <1>2, <1>3, <2>1
<1>6. ASSUME NEW d \in Seq(Cell), NEW j \in Nat, Holds(d, j, Item(type, s))
      PROVE  d[j + 1] = type /\ d[j + 2] = Len(s) /\ Holds(d, j + 2, s)
  <2>0. Holds(d, j, l \o f) BY <1>3, <1>6
  <2>1. Holds(d, j, l) /\ Holds(d, j + 1, f) BY <1>1, <1>2, <2>0, HoldsCat
  <2>2. j + 1 \in Nat /\ (j + 1) + 1 = j + 2 OBVIOUS
  <2>3. d[j + 2] = Len(s) /\ Holds(d, j + 2, s) BY <1>4, <2>1, <2>2
  <2> QED BY <1>1, <2>1, <2>3 DEF Holds
<1> QED BY <1>5, <1>6

\* A loop passes over each of the items, where it comes upon one between off and top.
PassesEach(g, d, off, top, items) ==
  \A j \in Nat, i \in 1..Len(items) :
    off <= j /\ j + Len(items[i]) <= top /\ Holds(d, j, items[i])
      => g[j + 1] = g[(j + Len(items[i])) + 1]

\* Then it passes over all of them.
LEMMA PassesItems ==
  ASSUME NEW d \in Seq(Cell), NEW off \in Nat, NEW top \in Nat, NEW items \in Seq(Seq(Cell)), NEW g,
         Holds(d, off, FlattenSeq(items)), off + Len(FlattenSeq(items)) <= top,
         PassesEach(g, d, off, top, items)
  PROVE  g[off + 1] = g[(off + Len(FlattenSeq(items))) + 1]
<1> DEFINE n == Len(items)
           F(m) == FlattenSeq(SubSeq(items, 1, m))
           P(m) == g[off + 1] = g[(off + Len(F(m))) + 1]
           Bad == {m \in Nat : m <= n /\ ~P(m)}
<1>0. n \in Nat /\ SubSeq(items, 1, n) = items /\ SubSeq(items, 1, 0) = <<>> OBVIOUS
<1>1. \A m \in 0..n : SubSeq(items, 1, m) \in Seq(Seq(Cell)) /\ F(m) \in Seq(Cell) /\ Len(F(m)) \in Nat
  <2> SUFFICES ASSUME NEW m \in 0..n
               PROVE  SubSeq(items, 1, m) \in Seq(Seq(Cell)) /\ F(m) \in Seq(Cell) /\ Len(F(m)) \in Nat
    OBVIOUS
  <2>1. SubSeq(items, 1, m) \in Seq(Seq(Cell)) BY CutAt
  <2>2. F(m) \in Seq(Cell) BY <2>1, FlattenType
  <2> HIDE DEF F
  <2>3. Len(F(m)) \in Nat BY <2>2
  <2> QED BY <2>1, <2>2, <2>3
<1>2. P(0)
  <2>1. F(0) = <<>> BY <1>0, FlattenEmpty
  <2>2. off + Len(<<>>) = off OBVIOUS
  <2> HIDE DEF F
  <2> QED BY <2>1, <2>2
<1>3. ASSUME NEW m \in Nat, m + 1 <= n, P(m) PROVE P(m + 1)
  <2> DEFINE x == items[m + 1]
  <2>1. m \in 0..n /\ m + 1 \in 0..n /\ m + 1 \in 1..n BY <1>0, <1>3
  <2>2. x \in Seq(Cell) BY <2>1, ElementOfSeq
  <2>3. SubSeq(items, 1, m + 1) = Append(SubSeq(items, 1, m), x) BY <1>3, FrontGrows
  <2>4. F(m + 1) = F(m) \o x BY <1>1, <2>1, <2>2, <2>3, FlattenAppend
  <2>5. PICK rest \in Seq(Cell) : FlattenSeq(items) = F(m + 1) \o rest BY <2>1, FlattenPrefix
  <2>6. F(m) \in Seq(Cell) /\ F(m + 1) \in Seq(Cell) /\ Len(F(m)) \in Nat BY <1>1, <2>1
  <2> HIDE DEF F, x
  <2>7. Len(F(m + 1)) = Len(F(m)) + Len(x) /\ Len(x) \in Nat BY <2>2, <2>4, <2>6, CatType
  <2>8. Len(F(m + 1)) <= Len(FlattenSeq(items))
    <3>1. Len(FlattenSeq(items)) = Len(F(m + 1)) + Len(rest) BY <2>5, <2>6, CatType
    <3>2. Len(rest) \in Nat BY <2>5
    <3> QED BY <2>6, <2>7, <3>1, <3>2
  <2>9. Holds(d, off, F(m + 1)) BY <2>5, <2>6, HoldsCat
  <2>10. Holds(d, off + Len(F(m)), x) BY <2>2, <2>4, <2>6, <2>9, HoldsCat
  <2> DEFINE j == off + Len(F(m))
  <2>11. FlattenSeq(items) \in Seq(Cell) BY FlattenType
  <2>12. Len(FlattenSeq(items)) \in Nat BY <2>11
  <2>13. j \in Nat /\ off <= j /\ j + Len(x) <= top /\ j + Len(x) = off + Len(F(m + 1))
    <3> DEFINE a == Len(F(m))
               b == Len(F(m + 1))
               l == Len(x)
               f == Len(FlattenSeq(items))
    <3>1. a \in Nat /\ l \in Nat /\ f \in Nat /\ b = a + l /\ b <= f /\ off + f <= top BY <2>6, <2>7, <2>8, <2>12
    <3> HIDE DEF a, b, l, f
    <3>2. off + a \in Nat /\ off <= off + a /\ (off + a) + l <= top /\ (off + a) + l = off + b BY <3>1
    <3> QED BY <3>2 DEF a, b, l
  <2>14. g[j + 1] = g[(j + Len(x)) + 1] BY <2>1, <2>10, <2>13 DEF x, PassesEach
  <2> QED BY <1>3, <2>13, <2>14
<1> HIDE DEF P
<1>4. Bad \in SUBSET Nat /\ 0 \notin Bad BY <1>2
<1>5. ASSUME Bad # {} PROVE FALSE
  <2>1. PICK m \in Bad : \A k \in Bad : m <= k BY <1>4, <1>5, Least
  <2>2. m \in Nat /\ m # 0 /\ m <= n /\ ~P(m) BY <1>4, <2>1
  <2>3. m - 1 \in Nat /\ m - 1 \notin Bad /\ m - 1 <= n /\ (m - 1) + 1 = m
    <3> HIDE DEF Bad
    <3> QED BY <1>0, <2>1, <2>2
  <2>4. P(m - 1) BY <2>3
  <2>5. P(m) BY <1>3, <2>2, <2>3, <2>4
  <2> QED BY <2>2, <2>5
<1>6. P(n) BY <1>0, <1>5
<1> QED BY <1>0, <1>6 DEF P

\* The names of a server_name extension, with the host name behind names of other
\* types.
ListsHost(names, host) ==
  \E others \in Seq(Seq(Cell)), more \in Seq(Cell) :
    Foreign(others, HostName) /\ names = FlattenSeq(others) \o Item(HostName, host) \o more

\* The inner loop finds the host name behind names of other types.
LEMMA ListFindsHost ==
  ASSUME NEW d \in Seq(Cell), NEW j \in Nat, NEW host \in Seq(Cell), NEW names \in Seq(Cell),
         ListsHost(names, host), Holds(d, j, names)
  PROVE  NameInList(d, j + 1, (j + 1) + Len(names)) = Some(host)
<1>0. PICK others \in Seq(Seq(Cell)), more \in Seq(Cell) :
        Foreign(others, HostName) /\ names = FlattenSeq(others) \o Item(HostName, host) \o more
  BY DEF ListsHost
<1> DEFINE F == FlattenSeq(others)
           it == Item(HostName, host)
           from == j + 1
           end == (j + 1) + Len(names)
<1>1. others \in Seq(Seq(Cell)) /\ F \in Seq(Cell) BY <1>0, FlattenType DEF Foreign
<1>2. HostName \in Cell BY DEF HostName, Cell
<1>3. it \in Seq(Cell) /\ Len(it) = Len(host) + 2 /\ Len(host) \in Nat BY <1>2, ItemShape
<1>4. \A k \in Nat : Holds(d, k, it) => d[k + 1] = HostName /\ d[k + 2] = Len(host) /\ Holds(d, k + 2, host)
  BY <1>2, ItemShape
<1> HIDE DEF F, it
<1>5. names = (F \o it) \o more BY <1>0 DEF F, it
<1>6. F \o it \in Seq(Cell) /\ Len(F \o it) = Len(F) + Len(it) BY <1>1, <1>3, CatType
<1>7. Len(names) = (Len(F) + Len(it)) + Len(more) BY <1>5, <1>6, CatType
<1>8. Holds(d, j, F \o it) BY <1>5, <1>6, HoldsCat
<1>9. Holds(d, j, F) /\ Holds(d, j + Len(F), it) BY <1>1, <1>3, <1>8, HoldsCat
<1>10. Len(F) \in Nat /\ Len(more) \in Nat /\ Len(names) \in Nat /\ Len(d) \in Nat /\ j + Len(names) <= Len(d)
  BY <1>1 DEF Holds
<1>11. from \in Nat /\ end \in Nat /\ from >= 1 /\ from <= end /\ end <= Len(d) + 1 BY <1>10
<1>12. PICK g : IsNameInList(g, d, from, end) /\ NameInList(d, from, end) = g[from]
  BY <1>11, NameInListLoop
<1>13. \A p \in from..end : g[p] = ListStep(g, d, p, end) BY <1>12 DEF IsNameInList
<1> HIDE DEF end
<1>14. ASSUME NEW k \in Nat, NEW i \in 1..Len(others), j <= k, k + Len(others[i]) <= j + Len(names),
              Holds(d, k, others[i])
       PROVE  g[k + 1] = g[(k + Len(others[i])) + 1]
  <2>1. PICK type \in Cell \ {HostName}, s \in Seq(Cell) : others[i] = Item(type, s) BY <1>0 DEF Foreign
  <2>2. Len(others[i]) = Len(s) + 2 /\ d[k + 1] = type /\ d[k + 2] = Len(s)
    <3>1. Holds(d, k, Item(type, s)) /\ type \in Cell BY <1>14, <2>1
    <3> QED BY <2>1, <3>1, ItemShape
  <2>3. Len(s) \in Nat BY <2>1
  <2> DEFINE p == k + 1
  <2>4. p \in from..end /\ p + 2 <= end /\ p + 1 = k + 2 /\ (p + 2) + Len(s) <= end
        /\ (p + 2) + Len(s) = (k + Len(others[i])) + 1
    <3> DEFINE l == Len(s)
               q == Len(others[i])
               n == Len(names)
    <3>1. l \in Nat /\ q = l + 2 /\ n \in Nat /\ k + q <= j + n /\ j <= k BY <1>10, <1>14, <2>2, <2>3
    <3>2. end = (j + 1) + n BY DEF end
    <3> HIDE DEF l, q, n
    <3>3. k + 1 \in (j + 1)..end /\ (k + 1) + 2 <= end /\ (k + 1) + 1 = k + 2 /\ ((k + 1) + 2) + l <= end
          /\ ((k + 1) + 2) + l = (k + q) + 1
      BY <3>1, <3>2
    <3> QED BY <3>3 DEF l, q
  <2>5. d[p] # HostName /\ d[p + 1] = Len(s) BY <2>1, <2>2, <2>4
  <2> HIDE DEF p
  <2>6. ~(p + 2 > end) /\ ~(p + 2 + d[p + 1] > end) BY <1>11, <2>3, <2>4, <2>5
  <2>7. g[p] = g[p + 2 + d[p + 1]] BY <1>13, <2>4, <2>5, <2>6, Zenon DEF ListStep
  <2> QED BY <2>4, <2>5, <2>7 DEF p
<1>15. g[j + 1] = g[(j + Len(F)) + 1]
  <2>1. j + Len(names) \in Nat /\ j + Len(F) <= j + Len(names) BY <1>3, <1>7, <1>10
  <2>2. PassesEach(g, d, j, j + Len(names), others) BY <1>14 DEF PassesEach
  <2>3. Holds(d, j, FlattenSeq(others)) /\ j + Len(FlattenSeq(others)) <= j + Len(names)
    BY <1>9, <2>1 DEF F
  <2>4. g[j + 1] = g[(j + Len(FlattenSeq(others))) + 1] BY <1>1, <2>1, <2>2, <2>3, PassesItems
  <2> QED BY <2>4 DEF F
<1> DEFINE k == j + Len(F)
           p == k + 1
<1>16. d[k + 1] = HostName /\ d[k + 2] = Len(host) /\ Holds(d, k + 2, host) BY <1>4, <1>9, <1>10
<1>17. /\ p \in from..end /\ p + 1 = k + 2 /\ p + 2 <= end /\ (p + 2) + Len(host) <= end
       /\ p + 2 = (k + 2) + 1 /\ (p + 2 + Len(host)) - 1 = (k + 2) + Len(host) /\ k + 2 \in Nat
  BY <1>3, <1>7, <1>10 DEF end
<1>18. SubSeq(d, p + 2, (p + 2 + Len(host)) - 1) = host
  <2> HIDE DEF k, p
  <2>1. SubSeq(d, (k + 2) + 1, (k + 2) + Len(host)) = host BY <1>16, <1>17, HeldPart
  <2> QED BY <1>17, <2>1
<1>19. d[p] = HostName /\ d[p + 1] = Len(host) BY <1>16, <1>17
<1> HIDE DEF p, k
<1>20. ~(p + 2 > end) /\ ~(p + 2 + d[p + 1] > end) BY <1>3, <1>11, <1>17, <1>19
<1>21. g[p] = Some(SubSeq(d, p + 2, (p + 2 + d[p + 1]) - 1)) BY <1>13, <1>17, <1>19, <1>20, Zenon DEF ListStep
<1>22. g[p] = Some(host) BY <1>18, <1>19, <1>21
<1> QED BY <1>12, <1>15, <1>22 DEF p, k, end

\* The outer loop passes over extensions of other types.
LEMMA PassesExtensions ==
  ASSUME NEW d \in Seq(Cell), NEW j \in Nat, NEW n \in Nat, j + n <= Len(d), NEW before, Foreign(before, ServerNameExt),
         Holds(d, j, FlattenSeq(before)), Len(FlattenSeq(before)) <= n,
         NEW g, IsNameInExtensions(g, d, j + 1, (j + 1) + n)
  PROVE  /\ FlattenSeq(before) \in Seq(Cell) /\ Len(FlattenSeq(before)) \in Nat
         /\ g[j + 1] = g[(j + Len(FlattenSeq(before))) + 1]
<1> DEFINE end == (j + 1) + n
<1>1. before \in Seq(Seq(Cell)) /\ FlattenSeq(before) \in Seq(Cell) BY FlattenType DEF Foreign
<1>2. Len(FlattenSeq(before)) \in Nat BY <1>1
<1>3. \A p \in (j + 1)..end : g[p] = ExtensionStep(g, d, p, end) BY DEF IsNameInExtensions
<1> HIDE DEF end
<1>4. ASSUME NEW k \in Nat, NEW i \in 1..Len(before), j <= k, k + Len(before[i]) <= j + n, Holds(d, k, before[i])
      PROVE  g[k + 1] = g[(k + Len(before[i])) + 1]
  <2>1. PICK type \in Cell \ {ServerNameExt}, s \in Seq(Cell) : before[i] = Item(type, s) BY DEF Foreign
  <2>2. Len(before[i]) = Len(s) + 2 /\ d[k + 1] = type /\ d[k + 2] = Len(s)
    <3>1. Holds(d, k, Item(type, s)) /\ type \in Cell BY <1>4, <2>1
    <3> QED BY <2>1, <3>1, ItemShape
  <2>3. Len(s) \in Nat BY <2>1
  <2> DEFINE p == k + 1
  <2>4. p \in (j + 1)..end /\ p + 2 <= end /\ p + 1 = k + 2 /\ (p + 2) + Len(s) <= end
        /\ (p + 2) + Len(s) = (k + Len(before[i])) + 1
    <3> DEFINE l == Len(s)
               q == Len(before[i])
    <3>1. l \in Nat /\ q = l + 2 /\ k + q <= j + n /\ j <= k BY <1>4, <2>2, <2>3
    <3>2. end = (j + 1) + n BY DEF end
    <3> HIDE DEF l, q
    <3>3. k + 1 \in (j + 1)..end /\ (k + 1) + 2 <= end /\ (k + 1) + 1 = k + 2 /\ ((k + 1) + 2) + l <= end
          /\ ((k + 1) + 2) + l = (k + q) + 1
      BY <3>1, <3>2
    <3> QED BY <3>3 DEF l, q
  <2>5. d[p] # ServerNameExt /\ d[p + 1] = Len(s) BY <2>1, <2>2, <2>4
  <2>6. p \in Nat /\ end \in Nat BY DEF end
  <2> HIDE DEF p
  <2>7. ~(p + 2 > end) /\ ~(p + 2 + d[p + 1] > end) BY <2>3, <2>4, <2>5, <2>6
  <2>8. g[p] = g[p + 2 + d[p + 1]] BY <1>3, <2>4, <2>5, <2>7, Zenon DEF ExtensionStep
  <2> QED BY <2>4, <2>5, <2>8 DEF p
<1>5. PassesEach(g, d, j, j + n, before) BY <1>4 DEF PassesEach
<1>6. j + n \in Nat /\ j + Len(FlattenSeq(before)) <= j + n BY <1>2
<1> QED BY <1>1, <1>2, <1>5, <1>6, PassesItems

\* Extensions none of which is the server_name extension.
LEMMA NoNameInExtensions ==
  ASSUME NEW d \in Seq(Cell), NEW j \in Nat, NEW before, Foreign(before, ServerNameExt),
         Holds(d, j, FlattenSeq(before))
  PROVE  NameInExtensions(d, j + 1, (j + 1) + Len(FlattenSeq(before))) = None
<1> DEFINE F == FlattenSeq(before)
           n == Len(F)
           end == (j + 1) + n
<1>1. F \in Seq(Cell) BY FlattenType DEF Foreign
<1>2. n \in Nat BY <1>1
<1>3. j + n <= Len(d) /\ Len(d) \in Nat BY DEF Holds
<1> HIDE DEF n
<1>4. j + 1 \in Nat /\ end \in Nat /\ j + 1 >= 1 /\ j + 1 <= end /\ end <= Len(d) + 1 BY <1>2, <1>3
<1>5. PICK g : IsNameInExtensions(g, d, j + 1, end) /\ NameInExtensions(d, j + 1, end) = g[j + 1]
  BY <1>4, NameInExtensionsLoop
<1>6. g[j + 1] = g[(j + n) + 1]
  <2>1. n <= n BY <1>2
  <2> QED BY <1>2, <1>3, <1>5, <2>1, PassesExtensions DEF n
<1>7. g[end] = ExtensionStep(g, d, end, end) /\ end = (j + n) + 1
  <2>1. end \in (j + 1)..end /\ end = (j + n) + 1 BY <1>2, <1>4
  <2> HIDE DEF end
  <2> QED BY <1>5, <2>1 DEF IsNameInExtensions
<1>8. end + 2 > end BY <1>4
<1> HIDE DEF end
<1>9. ExtensionStep(g, d, end, end) = None BY <1>8, Zenon DEF ExtensionStep
<1> QED BY <1>5, <1>6, <1>7, <1>9 DEF end, n

\* Extensions with a server_name extension behind others, and anything behind it.
ExtensionsName(exts, host) ==
  \E before \in Seq(Seq(Cell)), names, after \in Seq(Cell) :
    /\ Foreign(before, ServerNameExt) /\ ListsHost(names, host)
    /\ exts = FlattenSeq(before) \o Item(ServerNameExt, Prefixed(names)) \o after

\* The outer loop finds the server_name extension behind others.
LEMMA ExtensionsFindHost ==
  ASSUME NEW d \in Seq(Cell), NEW j \in Nat, NEW host \in Seq(Cell), NEW exts \in Seq(Cell),
         ExtensionsName(exts, host), Holds(d, j, exts)
  PROVE  NameInExtensions(d, j + 1, (j + 1) + Len(exts)) = Some(host)
<1>0. PICK before \in Seq(Seq(Cell)), names \in Seq(Cell), after \in Seq(Cell) :
        /\ Foreign(before, ServerNameExt) /\ ListsHost(names, host)
        /\ exts = FlattenSeq(before) \o Item(ServerNameExt, Prefixed(names)) \o after
  BY DEF ExtensionsName
<1> DEFINE F == FlattenSeq(before)
           f == Prefixed(names)
           it == Item(ServerNameExt, f)
           n == Len(exts)
           end == (j + 1) + n
<1>1. F \in Seq(Cell) BY FlattenType
<1>2. ServerNameExt \in Cell BY DEF ServerNameExt, Cell
<1>3. f \in Seq(Cell) /\ Len(f) = Len(names) + 1 /\ Len(names) \in Nat BY PrefixedShape
<1>4. ASSUME NEW k \in Nat, Holds(d, k, f) PROVE d[k + 1] = Len(names) /\ Holds(d, k + 1, names)
  BY <1>4, PrefixedShape
<1> HIDE DEF f
<1>5. it \in Seq(Cell) /\ Len(it) = Len(f) + 2 BY <1>2, <1>3, ItemShape
<1>6. \A k \in Nat : Holds(d, k, it) => d[k + 1] = ServerNameExt /\ d[k + 2] = Len(f) /\ Holds(d, k + 2, f)
  BY <1>2, <1>3, ItemShape
<1>7. exts = (F \o it) \o after BY <1>0 DEF f
<1> HIDE DEF F, it
<1>8. F \o it \in Seq(Cell) /\ Len(F \o it) = Len(F) + Len(it) BY <1>1, <1>5, CatType
<1>9. n = (Len(F) + Len(it)) + Len(after) BY <1>7, <1>8, CatType
<1>10. Holds(d, j, F \o it) BY <1>7, <1>8, HoldsCat
<1>11. Holds(d, j, F) /\ Holds(d, j + Len(F), it) BY <1>1, <1>5, <1>10, HoldsCat
<1>12. Len(F) \in Nat /\ Len(after) \in Nat /\ n \in Nat /\ Len(d) \in Nat /\ j + n <= Len(d)
  BY <1>1 DEF Holds
<1> HIDE DEF n
<1>13. j + 1 \in Nat /\ end \in Nat /\ j + 1 >= 1 /\ j + 1 <= end /\ end <= Len(d) + 1 BY <1>12
<1>14. PICK g : IsNameInExtensions(g, d, j + 1, end) /\ NameInExtensions(d, j + 1, end) = g[j + 1]
  BY <1>13, NameInExtensionsLoop
<1>15. \A p \in (j + 1)..end : g[p] = ExtensionStep(g, d, p, end) BY <1>14 DEF IsNameInExtensions
<1>16. g[j + 1] = g[(j + Len(F)) + 1]
  <2>1. Len(F) <= n BY <1>3, <1>5, <1>9, <1>12
  <2> QED BY <1>0, <1>11, <1>12, <1>14, <2>1, PassesExtensions DEF F
<1> DEFINE k == j + Len(F)
           p == k + 1
           l == Len(names)
<1>17. d[k + 1] = ServerNameExt /\ d[k + 2] = Len(f) /\ Holds(d, k + 2, f) BY <1>6, <1>11, <1>12
<1>18. d[(k + 2) + 1] = l /\ Holds(d, (k + 2) + 1, names)
  <2>1. k + 2 \in Nat BY <1>12
  <2> QED BY <1>4, <1>17, <2>1
<1>19. /\ l \in Nat /\ k \in Nat /\ p \in (j + 1)..end /\ p + 1 = k + 2 /\ p + 2 = (k + 2) + 1 /\ Len(f) = l + 1
       /\ p + 2 + (l + 1) <= end
  <2> DEFINE a == Len(F)
             b == Len(it)
             c == Len(after)
  <2>1. a \in Nat /\ c \in Nat /\ l \in Nat /\ b = (l + 1) + 2 /\ n = (a + b) + c
    BY <1>3, <1>5, <1>9, <1>12
  <2>2. k = j + a /\ Len(f) = l + 1 BY <1>3
  <2> HIDE DEF a, b, c, l, k
  <2> QED BY <2>1, <2>2
<1>20. d[p] = ServerNameExt /\ d[p + 1] = l + 1 /\ d[p + 2] = l /\ Holds(d, p + 2, names)
  BY <1>17, <1>18, <1>19
<1> HIDE DEF p, k, end
<1>21. p \in Nat BY <1>19 DEF p
<1> HIDE DEF l
<1>22. /\ ~(p + 2 > end) /\ ~(p + 2 + d[p + 1] > end) /\ ~(d[p + 1] < 1)
       /\ ~(p + 2 + 1 + d[p + 2] > p + 2 + d[p + 1])
  BY <1>13, <1>19, <1>20, <1>21
<1>23. g[p] = NameInList(d, p + 2 + 1, p + 2 + 1 + d[p + 2])
  BY <1>15, <1>19, <1>20, <1>22, Zenon DEF ExtensionStep
<1>24. NameInList(d, p + 2 + 1, (p + 2 + 1) + l) = Some(host)
  <2> DEFINE m == p + 2
  <2>2. m \in Nat /\ Holds(d, m, names) BY <1>20, <1>21
  <2> HIDE DEF m
  <2>3. NameInList(d, m + 1, (m + 1) + Len(names)) = Some(host) BY <1>0, <2>2, ListFindsHost
  <2> QED BY <2>3 DEF m, l
<1> QED BY <1>14, <1>16, <1>20, <1>23, <1>24 DEF p, k, end, n

\* A hello: type, length, version with random, then four fields.
HelloBody(d, exts) ==
  \E head, sid, suites, methods \in Seq(Cell) :
    /\ Len(head) = 3 /\ head[1] = ClientHello
    /\ d = head \o Prefixed(sid) \o Prefixed(suites) \o Prefixed(methods) \o Prefixed(exts)

\* A handshake record.
HandshakeRecord(cells, d) == \E version \in Cell : cells = <<HandshakeType, version, Len(d)>> \o d

\* SkipField goes from one field to the next.
LEMMA SkipsField ==
  ASSUME NEW d \in Seq(Cell), NEW j \in Nat, NEW s \in Seq(Cell), Holds(d, j, Prefixed(s))
  PROVE  SkipField(d, j + 1) = (j + Len(Prefixed(s))) + 1
<1>1. Len(Prefixed(s)) = Len(s) + 1 /\ d[j + 1] = Len(s) /\ Len(s) \in Nat BY PrefixedShape
<1>2. j + Len(Prefixed(s)) <= Len(d) /\ Len(d) \in Nat BY DEF Holds
<1>3. j + 1 \in DOMAIN d /\ (j + 1) + Len(s) <= Len(d) BY <1>1, <1>2
<1>4. SkipField(d, j + 1) = j + 1 + d[j + 1] + 1 BY <1>1, <1>3 DEF SkipField
<1> QED BY <1>1, <1>4

\* Where the fields of a hello are.
LEMMA HelloFields ==
  ASSUME NEW d \in Seq(Cell), NEW exts \in Seq(Cell), HelloBody(d, exts)
  PROVE  /\ Len(d) >= 3 /\ d[1] = ClientHello
         /\ \E a, b, e \in Nat :
              /\ SkipField(d, 4) = a + 1 /\ SkipField(d, a + 1) = b + 1 /\ SkipField(d, b + 1) = e + 1
              /\ SkipField(d, e + 1) = ((e + 1) + 1) + Len(exts) /\ ((e + 1) + 1) + Len(exts) = Len(d) + 1
              /\ Holds(d, e + 1, exts)
<1>1. PICK head \in Seq(Cell), sid \in Seq(Cell), suites \in Seq(Cell), methods \in Seq(Cell) :
        /\ Len(head) = 3 /\ head[1] = ClientHello
        /\ d = head \o Prefixed(sid) \o Prefixed(suites) \o Prefixed(methods) \o Prefixed(exts)
  BY DEF HelloBody
<1> DEFINE s == Prefixed(sid)
           c == Prefixed(suites)
           m == Prefixed(methods)
           x == Prefixed(exts)
<1>2. s \in Seq(Cell) /\ c \in Seq(Cell) /\ m \in Seq(Cell) /\ x \in Seq(Cell) BY PrefixedShape
<1>3. Len(s) \in Nat /\ Len(c) \in Nat /\ Len(m) \in Nat /\ Len(x) = Len(exts) + 1 /\ Len(exts) \in Nat
  <2>1. Len(x) = Len(exts) + 1 BY PrefixedShape
  <2> HIDE DEF s, c, m, x
  <2> QED BY <1>2, <2>1
<1>4. d = (((head \o s) \o c) \o m) \o x BY <1>1
<1>5. /\ \A j \in Nat : Holds(d, j, s) => SkipField(d, j + 1) = (j + Len(s)) + 1
      /\ \A j \in Nat : Holds(d, j, c) => SkipField(d, j + 1) = (j + Len(c)) + 1
      /\ \A j \in Nat : Holds(d, j, m) => SkipField(d, j + 1) = (j + Len(m)) + 1
      /\ \A j \in Nat : Holds(d, j, x) => SkipField(d, j + 1) = (j + Len(x)) + 1
  BY SkipsField
<1>6. \A j \in Nat : Holds(d, j, x) => Holds(d, j + 1, exts) BY PrefixedShape
<1> HIDE DEF s, c, m, x
<1> DEFINE h1 == head \o s
<1>1a. head \in Seq(Cell) /\ Len(head) = 3 /\ head[1] = ClientHello BY <1>1
<1>7. h1 \in Seq(Cell) /\ Len(h1) = 3 + Len(s)
  <2>1. head \o s \in Seq(Cell) /\ Len(head \o s) = Len(head) + Len(s) BY <1>2, CatType
  <2> QED BY <1>1a, <2>1
<1> HIDE DEF h1
<1> DEFINE h2 == h1 \o c
<1>8. h2 \in Seq(Cell) /\ Len(h2) = Len(h1) + Len(c) BY <1>2, <1>7, CatType
<1> HIDE DEF h2
<1> DEFINE h3 == h2 \o m
<1>9. h3 \in Seq(Cell) /\ Len(h3) = Len(h2) + Len(m) BY <1>2, <1>8, CatType
<1> HIDE DEF h3
<1>10. d = h3 \o x BY <1>4 DEF h1, h2, h3
<1>11. Len(d) = Len(h3) + Len(x) BY <1>2, <1>9, <1>10, CatType
<1>12. Holds(d, 0, d) BY HoldsItself
<1>13. Holds(d, 0, h3) /\ Holds(d, 0 + Len(h3), x)
  <2>1. Holds(d, 0, h3 \o x) BY <1>10, <1>12
  <2> QED BY <1>2, <1>9, <2>1, HoldsCat
<1>14. Holds(d, 0, h2) /\ Holds(d, 0 + Len(h2), m)
  <2>1. Holds(d, 0, h2 \o m) BY <1>13 DEF h3
  <2> QED BY <1>2, <1>8, <2>1, HoldsCat
<1>15. Holds(d, 0, h1) /\ Holds(d, 0 + Len(h1), c)
  <2>1. Holds(d, 0, h1 \o c) BY <1>14 DEF h2
  <2> QED BY <1>2, <1>7, <2>1, HoldsCat
<1>16. Holds(d, 0, head) /\ Holds(d, 0 + Len(head), s)
  <2>1. Holds(d, 0, head \o s) BY <1>15 DEF h1
  <2> QED BY <1>1, <1>2, <2>1, HoldsCat
<1> DEFINE a == Len(h1)
           b == Len(h2)
           e == Len(h3)
<1>17. a \in Nat /\ b \in Nat /\ e \in Nat /\ a = 3 + Len(s) /\ b = a + Len(c) /\ e = b + Len(m)
  BY <1>7, <1>8, <1>9
<1> HIDE DEF a, b, e
<1>18. Holds(d, 3, s) /\ Holds(d, a, c) /\ Holds(d, b, m) /\ Holds(d, e, x)
  <2>1. 0 + 3 = 3 /\ 0 + a = a /\ 0 + b = b /\ 0 + e = e BY <1>17
  <2> QED BY <1>1, <1>13, <1>14, <1>15, <1>16, <2>1 DEF a, b, e
<1>19. SkipField(d, 3 + 1) = a + 1 /\ SkipField(d, a + 1) = b + 1 /\ SkipField(d, b + 1) = e + 1
  BY <1>5, <1>17, <1>18
<1>20. SkipField(d, e + 1) = (e + Len(x)) + 1 /\ Holds(d, e + 1, exts) BY <1>5, <1>6, <1>17, <1>18
<1>21. (e + Len(x)) + 1 = ((e + 1) + 1) + Len(exts) /\ ((e + 1) + 1) + Len(exts) = Len(d) + 1
  BY <1>3, <1>11, <1>17 DEF e
<1>22. Len(d) >= 3 /\ d[1] = ClientHello
  <2>1. 0 + 3 <= Len(d) /\ \A i \in 1..3 : d[0 + i] = head[i] BY <1>1a, <1>16 DEF Holds
  <2>2. 1 \in 1..3 /\ 0 + 1 = 1 /\ 0 + 3 = 3 /\ Len(d) \in Nat OBVIOUS
  <2>3. d[1] = head[1] BY <2>1, <2>2
  <2>4. 3 <= Len(d) BY <2>1, <2>2
  <2> QED BY <1>1a, <2>2, <2>3, <2>4
<1>23. SkipField(d, 4) = a + 1 BY <1>19
<1> QED BY <1>17, <1>19, <1>20, <1>21, <1>22, <1>23

\* handshake_payload cuts the record header off.
LEMMA PayloadOfRecord ==
  ASSUME NEW d \in Seq(Cell), NEW cells, HandshakeRecord(cells, d)
  PROVE  /\ cells \in Seq(Cell) /\ Len(cells) = Len(d) + 3 /\ cells[1] = HandshakeType
         /\ Len(d) > 0 => HandshakePayload(cells) = d /\ cells[4] = d[1]
         /\ Len(d) = 0 => HandshakePayload(cells) = cells
<1>1. PICK version \in Cell : cells = <<HandshakeType, version, Len(d)>> \o d BY DEF HandshakeRecord
<1> DEFINE h == <<HandshakeType, version, Len(d)>>
<1>2. Len(d) \in Nat OBVIOUS
<1>3. h \in Seq(Cell) /\ Len(h) = 3 /\ h[1] = HandshakeType
  <2>1. Len(d) \in Cell /\ HandshakeType \in Cell BY <1>2 DEF Cell, HandshakeType
  <2> QED BY <2>1
<1>4. cells = h \o d BY <1>1
<1> HIDE DEF h
<1>5. cells \in Seq(Cell) /\ Len(cells) = 3 + Len(d) BY <1>3, <1>4, CatType
<1>6. Holds(cells, 0, h) /\ Holds(cells, 0 + 3, d)
  <2>1. Holds(cells, 0, h \o d) BY <1>4, <1>5, HoldsItself
  <2> QED BY <1>3, <1>5, <2>1, HoldsCat
<1>7. cells[1] = HandshakeType
  <2>1. cells[0 + 1] = h[1] BY <1>3, <1>6 DEF Holds
  <2> QED BY <1>3, <2>1
<1>8. cells[1] \in RecordType BY <1>7 DEF HandshakeType, RecordType
<1>9. CASE Len(d) > 0
  <2>1. HandshakePayload(cells) = SubSeq(cells, 3 + 1, Len(cells)) BY <1>2, <1>5, <1>8, <1>9 DEF HandshakePayload, HeaderLen
  <2>2. SubSeq(cells, 3 + 1, 3 + Len(d)) = d BY <1>5, <1>6, HeldPart
  <2>3. cells[3 + 1] = d[1] BY <1>2, <1>6, <1>9 DEF Holds
  <2>4. HandshakePayload(cells) = d BY <1>5, <2>1, <2>2
  <2>5. cells[4] = d[1] BY <2>3
  <2>6. Len(cells) = Len(d) + 3 BY <1>2, <1>5
  <2> QED BY <1>5, <1>7, <1>9, <2>4, <2>5, <2>6
<1>10. CASE Len(d) = 0 BY <1>5, <1>7, <1>10 DEF HandshakePayload, HeaderLen
<1> QED BY <1>2, <1>9, <1>10

\* extract_sni of a whole hello looks at its extensions.
LEMMA ExtractOfHello ==
  ASSUME NEW d \in Seq(Cell), NEW exts \in Seq(Cell), HelloBody(d, exts), NEW cells, HandshakeRecord(cells, d)
  PROVE  \E j \in Nat : Holds(d, j, exts) /\ ExtractSni(cells) = NameInExtensions(d, j + 1, (j + 1) + Len(exts))
<1>1. PICK a \in Nat, b \in Nat, e \in Nat :
        /\ SkipField(d, 4) = a + 1 /\ SkipField(d, a + 1) = b + 1 /\ SkipField(d, b + 1) = e + 1
        /\ SkipField(d, e + 1) = ((e + 1) + 1) + Len(exts) /\ ((e + 1) + 1) + Len(exts) = Len(d) + 1
        /\ Holds(d, e + 1, exts)
  BY HelloFields
<1>2. Len(d) >= 3 /\ d[1] = ClientHello /\ Len(d) \in Nat /\ Len(exts) \in Nat BY HelloFields
<1>3. HandshakePayload(cells) = d /\ cells[1] = HandshakeType BY <1>2, PayloadOfRecord
<1> DEFINE x == SkipField(d, SkipField(d, SkipField(d, 4)))
           end == SkipField(d, x)
<1>4. x = e + 1 /\ end = ((e + 1) + 1) + Len(exts) BY <1>1
<1>5. ~(Len(d) < 3) /\ end # 0 BY <1>1, <1>2, <1>4
<1>6. ExtractSni(cells) = NameInExtensions(d, x + 1, end)
  BY <1>2, <1>3, <1>5, Zenon DEF ExtractSni
<1>7. e + 1 \in Nat OBVIOUS
<1> HIDE DEF x, end
<1> QED BY <1>1, <1>4, <1>6, <1>7

\* A hello that goes on in the next record has no key.
LEMMA ExtractOfCut ==
  ASSUME NEW d \in Seq(Cell), NEW exts \in Seq(Cell), HelloBody(d, exts), NEW n \in 0..(Len(d) - 1),
         NEW cells, HandshakeRecord(cells, SubSeq(d, 1, n))
  PROVE  ExtractSni(cells) = None
<1> DEFINE c == SubSeq(d, 1, n)
<1>1. Len(d) \in Nat /\ n \in Nat /\ n < Len(d) /\ n \in 0..Len(d) OBVIOUS
<1>2. c \in Seq(Cell) /\ Len(c) = n /\ \A i \in 1..n : c[i] = d[i] BY <1>1, CutAt
<1>3. HandshakeRecord(cells, c) OBVIOUS
<1> HIDE DEF c
<1>4. CASE n = 0
  <2>1. HandshakePayload(cells) = cells /\ cells[1] = HandshakeType BY <1>2, <1>3, <1>4, PayloadOfRecord
  <2>2. cells[1] # ClientHello BY <2>1 DEF HandshakeType, ClientHello
  <2> QED BY <2>1, <2>2, Zenon DEF ExtractSni
<1>5. CASE n > 0
  <2>1. HandshakePayload(cells) = c BY <1>2, <1>3, <1>5, PayloadOfRecord
  <2>2. \A p \in Nat : p \in DOMAIN c <=> p \in 1..n BY <1>1, <1>2
  <2>3. ASSUME NEW p \in Nat, SkipField(c, p) # 0
        PROVE  SkipField(c, p) = SkipField(d, p) /\ SkipField(c, p) <= n + 1 /\ p # 0
    <3>1. p \in 1..n /\ p + c[p] <= n /\ SkipField(c, p) = p + c[p] + 1 BY <1>2, <2>2, <2>3 DEF SkipField
    <3>2. c[p] = d[p] /\ p \in 1..Len(d) BY <1>1, <1>2, <3>1
    <3>3. d[p] \in Cell BY <3>2
    <3>4. d[p] \in Nat BY <3>3 DEF Cell
    <3>5. p \in DOMAIN d /\ p + d[p] <= Len(d) BY <1>1, <3>1, <3>2, <3>4
    <3>6. SkipField(d, p) = p + d[p] + 1 BY <3>5 DEF SkipField
    <3> QED BY <3>1, <3>2, <3>4, <3>6
  <2>4. PICK a \in Nat, b \in Nat, e \in Nat :
          /\ SkipField(d, 4) = a + 1 /\ SkipField(d, a + 1) = b + 1 /\ SkipField(d, b + 1) = e + 1
          /\ SkipField(d, e + 1) = ((e + 1) + 1) + Len(exts) /\ ((e + 1) + 1) + Len(exts) = Len(d) + 1
          /\ Holds(d, e + 1, exts)
    BY HelloFields
  <2>5. SkipField(c, 0) = 0 BY <2>3
  <2> DEFINE x1 == SkipField(c, 4)
             x2 == SkipField(c, x1)
             x3 == SkipField(c, x2)
             end == SkipField(c, x3)
  <2>6. x1 \in {0, a + 1} BY <2>3, <2>4
  <2> HIDE DEF x1
  <2>7. x2 \in {0, b + 1} BY <2>3, <2>4, <2>5, <2>6
  <2> HIDE DEF x2
  <2>8. x3 \in {0, e + 1} BY <2>3, <2>4, <2>5, <2>7
  <2> HIDE DEF x3
  <2>9. end = 0
    <3>1. CASE x3 = 0 BY <2>5, <3>1
    <3>2. CASE x3 = e + 1
      <4>1. end # 0 => end = Len(d) + 1 /\ end <= n + 1 BY <2>3, <2>4, <3>2
      <4> QED BY <1>1, <4>1
    <3> QED BY <2>8, <3>1, <3>2
  <2> QED BY <2>1, <2>9, Zenon DEF ExtractSni, x1, x2, x3
<1> QED BY <1>1, <1>4, <1>5

\* The records a client may send: a hello with a host name, a hello without one, the
\* first part of a hello, anything that does not begin like a hello.
HelloWithName(rec) ==
  \E d, exts, host \in Seq(Cell) :
    /\ HandshakeRecord(rec.cells, d) /\ HelloBody(d, exts) /\ ExtensionsName(exts, host)
    /\ rec.host = Some(host)
HelloWithoutName(rec) ==
  \E d \in Seq(Cell), before \in Seq(Seq(Cell)) :
    /\ HandshakeRecord(rec.cells, d) /\ HelloBody(d, FlattenSeq(before)) /\ Foreign(before, ServerNameExt)
    /\ rec.host = None
HelloCut(rec) ==
  \E d, exts \in Seq(Cell) : \E n \in 0..(Len(d) - 1) :
    HelloBody(d, exts) /\ HandshakeRecord(rec.cells, SubSeq(d, 1, n)) /\ rec.host = None
NotAHello(rec) ==
  /\ rec.cells[1] = HandshakeType /\ Len(rec.cells) > HeaderLen => rec.cells[HeaderLen + 1] # ClientHello
  /\ rec.host = None

RecordsAreHellos ==
  \A s \in Scripts : \A i \in DOMAIN s :
    HelloWithName(s[i]) \/ HelloWithoutName(s[i]) \/ HelloCut(s[i]) \/ NotAHello(s[i])

\* A record that does not begin like a hello.
LEMMA ExtractOfOther ==
  ASSUME NEW cells \in Seq(Cell),
         cells[1] = HandshakeType /\ Len(cells) > HeaderLen => cells[HeaderLen + 1] # ClientHello
  PROVE  ExtractSni(cells) = None
<1>1. CASE cells[1] # HandshakeType BY <1>1, Zenon DEF ExtractSni
<1>2. CASE cells[1] = HandshakeType /\ Len(cells) > HeaderLen
  <2>1. cells[1] \in RecordType BY <1>2 DEF HandshakeType, RecordType
  <2>2. HandshakePayload(cells) = SubSeq(cells, HeaderLen + 1, Len(cells)) BY <1>2, <2>1 DEF HandshakePayload
  <2>3. Len(cells) \in Nat OBVIOUS
  <2>4. HeaderLen \in 0..Len(cells) /\ 1 \in 1..(Len(cells) - HeaderLen) BY <1>2, <2>3 DEF HeaderLen
  <2>5. SubSeq(cells, HeaderLen + 1, Len(cells))[1] = cells[HeaderLen + 1] BY <2>4, CutAt
  <2>6. HandshakePayload(cells)[1] # ClientHello BY <1>2, <2>2, <2>5
  <2> QED BY <2>6, Zenon DEF ExtractSni
<1>3. CASE cells[1] = HandshakeType /\ ~(Len(cells) > HeaderLen)
  <2>1. HandshakePayload(cells) = cells BY <1>3 DEF HandshakePayload
  <2>2. cells[1] # ClientHello BY <1>3 DEF HandshakeType, ClientHello
  <2> QED BY <2>1, <2>2, Zenon DEF ExtractSni
<1> QED BY <1>1, <1>2, <1>3

\* For hellos with any session id, any cipher suites and any extensions, in any
\* order: extract_sni finds the host name of a hello that has one and is whole, and
\* in other records nothing.
THEOREM NamesAreFound == RecordsAreHellos => HostsAreFound
<1> SUFFICES ASSUME RecordsAreHellos, NEW s \in Scripts, NEW i \in DOMAIN s
             PROVE  ExtractSni(s[i].cells) = s[i].host
  BY DEF HostsAreFound
<1> DEFINE rec == s[i]
<1>1. HelloWithName(rec) \/ HelloWithoutName(rec) \/ HelloCut(rec) \/ NotAHello(rec) BY DEF RecordsAreHellos
<1>2. rec.cells \in Seq(Cell)
  <2> DEFINE R == [cells : Seq(Cell), host : SUBSET Seq(Cell)]
  <2>1. s \in Seq(R) BY RoutingAssumption DEF Cell
  <2> HIDE DEF R
  <2>2. s[i] \in R BY <2>1
  <2> QED BY <2>2 DEF R
<1> HIDE DEF rec
<1>3. CASE HelloWithName(rec)
  <2>1. PICK d \in Seq(Cell), exts \in Seq(Cell), host \in Seq(Cell) :
          /\ HandshakeRecord(rec.cells, d) /\ HelloBody(d, exts) /\ ExtensionsName(exts, host)
          /\ rec.host = Some(host)
    BY <1>3 DEF HelloWithName
  <2>2. PICK j \in Nat :
          Holds(d, j, exts) /\ ExtractSni(rec.cells) = NameInExtensions(d, j + 1, (j + 1) + Len(exts))
    BY <2>1, ExtractOfHello
  <2>3. NameInExtensions(d, j + 1, (j + 1) + Len(exts)) = Some(host) BY <2>1, <2>2, ExtensionsFindHost
  <2> QED BY <2>1, <2>2, <2>3 DEF rec
<1>4. CASE HelloWithoutName(rec)
  <2>1. PICK d \in Seq(Cell), before \in Seq(Seq(Cell)) :
          /\ HandshakeRecord(rec.cells, d) /\ HelloBody(d, FlattenSeq(before)) /\ Foreign(before, ServerNameExt)
          /\ rec.host = None
    BY <1>4 DEF HelloWithoutName
  <2> DEFINE exts == FlattenSeq(before)
  <2>2. exts \in Seq(Cell) BY FlattenType
  <2>3. PICK j \in Nat :
          Holds(d, j, exts) /\ ExtractSni(rec.cells) = NameInExtensions(d, j + 1, (j + 1) + Len(exts))
    BY <2>1, <2>2, ExtractOfHello
  <2>4. NameInExtensions(d, j + 1, (j + 1) + Len(exts)) = None BY <2>1, <2>3, NoNameInExtensions
  <2> QED BY <2>1, <2>3, <2>4 DEF rec
<1>5. CASE HelloCut(rec)
  <2>1. PICK d \in Seq(Cell), exts \in Seq(Cell) : \E n \in 0..(Len(d) - 1) :
          HelloBody(d, exts) /\ HandshakeRecord(rec.cells, SubSeq(d, 1, n)) /\ rec.host = None
    BY <1>5 DEF HelloCut
  <2>2. PICK n \in 0..(Len(d) - 1) :
          HelloBody(d, exts) /\ HandshakeRecord(rec.cells, SubSeq(d, 1, n)) /\ rec.host = None
    BY <2>1
  <2>3. ExtractSni(rec.cells) = None BY <2>2, ExtractOfCut
  <2> QED BY <2>2, <2>3 DEF rec
<1>6. CASE NotAHello(rec)
  <2>1. ExtractSni(rec.cells) = None /\ rec.host = None BY <1>2, <1>6, ExtractOfOther DEF NotAHello
  <2> QED BY <2>1 DEF rec
<1> QED BY <1>1, <1>3, <1>4, <1>5, <1>6

\* So the routing key of such a client is the host name of its first hello that
\* names one and is whole in its record.
COROLLARY KeyOfHellos == RecordsAreHellos => (Spec => []RoutedByHello)
BY NamesAreFound, KeyIsOfFirstHello
=============================================================================
