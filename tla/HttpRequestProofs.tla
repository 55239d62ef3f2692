--------------------------- MODULE HttpRequestProofs ---------------------------
(***************************************************************************)
(* Proofs about the request stream, for any clients, any requests and any  *)
(* cut of the bytes into reads: no byte is lost, and well-formed requests  *)
(* without a body come out whole, one by one.                              *)
(***************************************************************************)
EXTENDS HttpRequestStream, SequenceLemmas

\* What do_connection may hold: the client's atoms and rewritten headers.
Held == Atom \cup {Rewritten}

\* What the proxy has taken out of FramedRead.
Collected == FlattenSeq(forwarded) \o cur

RequestType ==
  /\ client \in Clients /\ sent \in Nat /\ sent <= Len(Input)
  /\ net \in Seq(Atom) /\ buf \in Seq(Atom)
  /\ cur \in Seq(Held) /\ forwarded \in Seq(Seq(Held))

RequestInv == RequestType /\ Conservation

-----------------------------------------------------------------------------
(* Rewritten headers *)

\* Undoing the rewriting of a sequence, atom by atom.
LEMMA OriginalType ==
  ASSUME NEW s \in Seq(Held)
  PROVE  /\ Original(s) \in Seq(Atom) /\ Len(Original(s)) = Len(s)
         /\ \A i \in 1..Len(s) : Original(s)[i] = IF s[i] = Rewritten THEN "m" ELSE s[i]
<1>1. Len(s) \in Nat /\ \A i \in 1..Len(s) : s[i] \in Held OBVIOUS
<1>2. \A i \in 1..Len(s) : (IF s[i] = Rewritten THEN "m" ELSE s[i]) \in Atom
  BY <1>1 DEF Held, Atom, Rewritten
<1> QED BY <1>1, <1>2 DEF Original

\* It is undone piece by piece.
LEMMA OriginalCat ==
  ASSUME NEW s \in Seq(Held), NEW t \in Seq(Held)
  PROVE  Original(s \o t) = Original(s) \o Original(t)
<1> DEFINE u == s \o t
           a == Original(s)
           b == Original(t)
<1>1. /\ u \in Seq(Held) /\ Len(u) = Len(s) + Len(t) /\ Len(s) \in Nat /\ Len(t) \in Nat
      /\ \A i \in 1..(Len(s) + Len(t)) : u[i] = IF i <= Len(s) THEN s[i] ELSE t[i - Len(s)]
  OBVIOUS
<1> HIDE DEF u
<1>2. /\ Original(u) \in Seq(Atom) /\ Len(Original(u)) = Len(u)
      /\ \A i \in 1..Len(u) : Original(u)[i] = IF u[i] = Rewritten THEN "m" ELSE u[i]
  BY <1>1, OriginalType
<1>3. /\ a \in Seq(Atom) /\ Len(a) = Len(s)
      /\ \A i \in 1..Len(s) : a[i] = IF s[i] = Rewritten THEN "m" ELSE s[i]
  BY OriginalType
<1>4. /\ b \in Seq(Atom) /\ Len(b) = Len(t)
      /\ \A i \in 1..Len(t) : b[i] = IF t[i] = Rewritten THEN "m" ELSE t[i]
  BY OriginalType
<1> HIDE DEF a, b
<1>5. /\ a \o b \in Seq(Atom) /\ Len(a \o b) = Len(a) + Len(b)
      /\ \A i \in 1..(Len(a) + Len(b)) : (a \o b)[i] = IF i <= Len(a) THEN a[i] ELSE b[i - Len(a)]
  <2>1. a \in Seq(Atom) /\ b \in Seq(Atom) BY <1>3, <1>4
  <2> QED BY <2>1
<1>6. ASSUME NEW i \in 1..Len(u) PROVE Original(u)[i] = (a \o b)[i]
  <2>1. CASE i <= Len(s)
    <3>1. i \in 1..Len(s) /\ u[i] = s[i] BY <1>1, <2>1
    <3>2. (a \o b)[i] = a[i] BY <1>1, <1>3, <1>4, <1>5, <2>1
    <3> QED BY <1>2, <1>3, <3>1, <3>2
  <2>2. CASE i > Len(s)
    <3>1. i - Len(s) \in 1..Len(t) /\ u[i] = t[i - Len(s)] BY <1>1, <2>2
    <3>2. (a \o b)[i] = b[i - Len(s)] BY <1>1, <1>3, <1>4, <1>5, <2>2
    <3> QED BY <1>2, <1>4, <3>1, <3>2
  <2>3. i <= Len(s) \/ i > Len(s) BY <1>1
  <2> QED BY <2>1, <2>2, <2>3
<1>7. Original(u) = a \o b
  <2>1. Len(a \o b) = Len(u) BY <1>1, <1>3, <1>4, <1>5
  <2> DEFINE o == Original(u)
             c == a \o b
  <2>2. o \in Seq(Atom) /\ c \in Seq(Atom) /\ Len(o) = Len(c) /\ \A i \in 1..Len(o) : o[i] = c[i]
    BY <1>2, <1>5, <1>6, <2>1
  <2> HIDE DEF o, c
  <2>3. o = c BY <2>2, SameSequence
  <2> QED BY <2>3 DEF o, c
<1> QED BY <1>7 DEF u, a, b

\* A line of the client, as it is or rewritten.
LEMMA OriginalLine ==
  ASSUME NEW s \in Seq(Atom)
  PROVE  /\ s \in Seq(Held) /\ Original(s) = s
         /\ Rewrite(s) \in Seq(Held) /\ Original(Rewrite(s)) = s
<1>1. Len(s) \in Nat /\ \A i \in 1..Len(s) : s[i] \in Atom OBVIOUS
<1>2. s \in Seq(Held) BY DEF Held
<1>3. Original(s) = s
  <2>1. \A i \in 1..Len(s) : Original(s)[i] = s[i]
    BY <1>1, <1>2, OriginalType DEF Atom, Rewritten
  <2>2. Original(s) \in Seq(Atom) /\ Len(Original(s)) = Len(s) BY <1>2, OriginalType
  <2> QED BY <2>1, <2>2
<1> DEFINE r == Rewrite(s)
<1>4. /\ r \in Seq(Held) /\ Len(r) = Len(s)
      /\ \A i \in 1..Len(s) : r[i] = IF s[i] = "m" THEN Rewritten ELSE s[i]
  <2>1. \A i \in 1..Len(s) : (IF s[i] = "m" THEN Rewritten ELSE s[i]) \in Held
    BY <1>1 DEF Held, Rewritten
  <2> QED BY <1>1, <2>1 DEF Rewrite
<1> HIDE DEF r
<1>5. Original(r) = s
  <2>1. Original(r) \in Seq(Atom) /\ Len(Original(r)) = Len(s) BY <1>4, OriginalType
  <2>2. \A i \in 1..Len(s) : Original(r)[i] = IF r[i] = Rewritten THEN "m" ELSE r[i] BY <1>4, OriginalType
  <2>3. \A i \in 1..Len(s) : Original(r)[i] = s[i] BY <1>1, <1>4, <2>2 DEF Atom, Rewritten
  <2> QED BY <2>1, <2>3
<1> QED BY <1>2, <1>3, <1>4, <1>5 DEF r

-----------------------------------------------------------------------------
(* Where the atoms are *)

\* What a client of the model may send.
LEMMA InputType ==
  ASSUME client \in Clients
  PROVE  /\ Script \in Seq(Seq(Atom)) /\ Input \in Seq(Atom) /\ Pipelined \in BOOLEAN
<1>1. Script \in Seq(Seq(Atom)) /\ Pipelined \in BOOLEAN BY StreamAssumption DEF Script, Pipelined
<1>2. Input \in Seq(Atom) BY <1>1, FlattenType DEF Input
<1> QED BY <1>1, <1>2

\* The client never sends more than its requests.
LEMMA AllowedInInput ==
  ASSUME client \in Clients, forwarded \in Seq(Seq(Held))
  PROVE  Allowed \in Nat /\ Allowed <= Len(Input)
<1> DEFINE begun == Len(forwarded) + IF phase = "busy" THEN 0 ELSE 1
<1>1. Script \in Seq(Seq(Atom)) /\ Input \in Seq(Atom) BY InputType
<1>2. begun \in Nat OBVIOUS
<1>3. CASE Pipelined \/ begun > Len(Script)
  <2>1. Allowed = Len(Input) BY <1>3 DEF Allowed
  <2> QED BY <1>1, <2>1
<1>4. CASE ~(Pipelined \/ begun > Len(Script))
  <2> DEFINE a == FlattenSeq(SubSeq(Script, 1, begun))
  <2>1. Allowed = Len(a) BY <1>4 DEF Allowed
  <2>2. begun \in 0..Len(Script) BY <1>1, <1>2, <1>4
  <2>3. SubSeq(Script, 1, begun) \in Seq(Seq(Atom)) BY <1>1, <2>2, CutAt
  <2>4. a \in Seq(Atom) BY <2>3, FlattenType
  <2>5. PICK rest \in Seq(Atom) : Input = a \o rest BY <1>1, <2>2, FlattenPrefix DEF Input
  <2> HIDE DEF a
  <2>6. Len(a) \in Nat /\ Len(rest) \in Nat /\ Len(a \o rest) = Len(a) + Len(rest) BY <2>4
  <2> QED BY <2>1, <2>5, <2>6
<1> QED BY <1>3, <1>4

\* What is collected is a sequence.
LEMMA CollectedType ==
  ASSUME RequestType
  PROVE  FlattenSeq(forwarded) \in Seq(Held) /\ Collected \in Seq(Held) /\ Original(Collected) \in Seq(Atom)
<1>1. FlattenSeq(forwarded) \in Seq(Held) /\ cur \in Seq(Held) BY FlattenType DEF RequestType
<1>2. Collected \in Seq(Held) BY <1>1 DEF Collected
<1> QED BY <1>1, <1>2, OriginalType

\* Atoms move from FramedRead's buffer to the current request: what is added is,
\* but for rewriting, what leaves the front of the buffer.
LEMMA Collect ==
  ASSUME RequestInv, NEW u \in Seq(Held), cur' = cur \o u, forwarded' = forwarded,
         buf' \in Seq(Atom), Original(u) \o buf' = buf,
         UNCHANGED <<net, sent, client>>
  PROVE  RequestInv'
<1> DEFINE f == FlattenSeq(forwarded)
           c == Collected
           o == Original(c)
           w == Original(u)
           b == buf'
<1>1. f \in Seq(Held) /\ c \in Seq(Held) /\ cur \in Seq(Held) BY CollectedType DEF RequestInv, RequestType
<1>2. c = f \o cur BY DEF Collected
<1>3. o \in Seq(Atom) /\ w \in Seq(Atom) /\ b \in Seq(Atom) /\ w \o b = buf BY <1>1, OriginalType
<1>4. Conservation <=> (o \o buf) \o net = SubSeq(Input, 1, sent) BY DEF Conservation, Collected
<1>5. Conservation' <=> (Original(f \o (cur \o u)) \o b) \o net = SubSeq(Input, 1, sent)
  BY DEF Conservation, Input, Script
<1>6. Original(c \o u) = o \o w BY <1>1, OriginalCat
<1> HIDE DEF f, c, o, w, b
<1>7. f \o (cur \o u) = c \o u
  <2>1. f \o (cur \o u) = (f \o cur) \o u BY <1>1, CatAssociative, SMTT(30)
  <2> QED BY <1>2, <2>1
<1>8. (o \o w) \o b = o \o buf
  <2>1. o \in Seq(Atom) /\ w \in Seq(Atom) /\ b \in Seq(Atom) BY <1>3
  <2>2. o \o (w \o b) = (o \o w) \o b BY <2>1, CatAssociative, SMTT(30)
  <2> QED BY <1>3, <2>2
<1>9. Conservation' BY <1>4, <1>5, <1>6, <1>7, <1>8 DEF RequestInv
<1>10. cur \o u \in Seq(Held) BY <1>1
<1>11. RequestType' BY <1>10 DEF RequestInv, RequestType, Input, Script
<1> QED BY <1>9, <1>11 DEF RequestInv

\* The end of a request changes nothing in what is collected, and in the case of
\* an end before the routing key nothing at all.
LEMMA StopStep ==
  ASSUME RequestInv, Stop, UNCHANGED <<net, buf, sent, client>>
  PROVE  RequestInv'
<1>1. cur \in Seq(Held) /\ forwarded \in Seq(Seq(Held)) BY DEF RequestInv, RequestType
<1>2. CASE cur' = cur /\ forwarded' = forwarded
  BY <1>2 DEF RequestInv, RequestType, Conservation, Input, Script
<1>3. CASE cur' = <<>> /\ forwarded' = Append(forwarded, cur)
  <2>1. FlattenSeq(forwarded') = FlattenSeq(forwarded) \o cur BY <1>1, <1>3, FlattenAppend
  <2>2. Collected \in Seq(Held) /\ FlattenSeq(forwarded) \o cur = Collected
    BY CollectedType DEF RequestInv, Collected
  <2>3. \A s \in Seq(Held) : s \o <<>> = s OBVIOUS
  <2>4. FlattenSeq(forwarded') \o cur' = FlattenSeq(forwarded) \o cur BY <1>3, <2>1, <2>2, <2>3
  <2>5. Conservation' BY <2>4 DEF RequestInv, Conservation, Input, Script
  <2>6. cur' \in Seq(Held) /\ forwarded' \in Seq(Seq(Held)) BY <1>1, <1>3
  <2>7. RequestType' BY <2>6 DEF RequestInv, RequestType, Input, Script
  <2> QED BY <2>5, <2>7 DEF RequestInv
<1> QED BY <1>2, <1>3 DEF Stop

\* A step that leaves the atoms where they are.
LEMMA AtomsStay ==
  ASSUME RequestInv, UNCHANGED <<net, buf, sent, client, cur, forwarded>>
  PROVE  RequestInv'
BY DEF RequestInv, RequestType, Conservation, Input, Script

-----------------------------------------------------------------------------
(* The actions *)

\* Send puts the next atoms of the client at the end.
LEMMA SendStep ==
  ASSUME RequestInv, NEW n \in Nat, Send(n)
  PROVE  RequestInv'
<1> DEFINE a == Original(Collected) \o buf
           y == SubSeq(Input, sent + 1, sent + n)
<1>1. /\ sent \in Nat /\ net \in Seq(Atom) /\ buf \in Seq(Atom) /\ client \in Clients
      /\ forwarded \in Seq(Seq(Held))
  BY DEF RequestInv, RequestType
<1>2. Input \in Seq(Atom) BY <1>1, InputType
<1>3. Allowed \in Nat /\ Allowed <= Len(Input) BY <1>1, AllowedInInput
<1>4. /\ sent + n <= Allowed /\ net' = net \o y /\ sent' = sent + n
      /\ UNCHANGED <<buf, client, cur, forwarded>>
  BY DEF Send, framedVars
<1>5. sent + n <= Len(Input) /\ sent + n \in Nat
  <2>1. Len(Input) \in Nat BY <1>2
  <2> QED BY <1>1, <1>3, <1>4, <2>1
<1>6. y \in Seq(Atom) /\ SubSeq(Input, 1, sent) \o y = SubSeq(Input, 1, sent + n)
  BY <1>1, <1>2, <1>5, JoinPieces
<1>7. a \in Seq(Atom)
  <2>1. Original(Collected) \in Seq(Atom) BY CollectedType DEF RequestInv
  <2> QED BY <1>1, <2>1
<1>8. a \o net = SubSeq(Input, 1, sent) BY DEF RequestInv, Conservation, Collected
<1>9. Conservation' <=> a \o (net \o y) = SubSeq(Input, 1, sent + n)
  BY <1>4 DEF Conservation, Collected, Input, Script
<1> HIDE DEF a, y
<1>10. a \o (net \o y) = (a \o net) \o y
  <2>1. a \in Seq(Atom) /\ net \in Seq(Atom) /\ y \in Seq(Atom) BY <1>1, <1>6, <1>7
  <2> QED BY <2>1, CatAssociative
<1>11. Conservation' BY <1>6, <1>8, <1>9, <1>10
<1>12. net \o y \in Seq(Atom) BY <1>1, <1>6
<1>13. RequestType' BY <1>4, <1>5, <1>12 DEF RequestInv, RequestType, Input, Script
<1> QED BY <1>11, <1>13 DEF RequestInv

\* Read moves the first n atoms from the socket to FramedRead.
LEMMA ReadStep ==
  ASSUME RequestInv, NEW n \in 1..Len(net), Read(n)
  PROVE  RequestInv'
<1> DEFINE o == Original(Collected)
           x == SubSeq(net, 1, n)
           y == SubSeq(net, n + 1, Len(net))
<1>1. net \in Seq(Atom) /\ buf \in Seq(Atom) BY DEF RequestInv, RequestType
<1>2. n \in 0..Len(net) BY <1>1
<1>3. x \in Seq(Atom) /\ y \in Seq(Atom) /\ x \o y = net BY <1>1, <1>2, CutAt
<1>4. buf' = buf \o x /\ net' = y /\ UNCHANGED <<sent, client, cur, forwarded>> BY DEF Read
<1>5. o \in Seq(Atom) BY CollectedType DEF RequestInv
<1>6. (o \o buf) \o net = SubSeq(Input, 1, sent) BY DEF RequestInv, Conservation, Collected
<1>7. Conservation' <=> (o \o (buf \o x)) \o y = SubSeq(Input, 1, sent)
  BY <1>4 DEF Conservation, Collected, Input, Script
<1> HIDE DEF o, x, y
<1>8. (o \o (buf \o x)) \o y = (o \o buf) \o net
  <2>1. o \o (buf \o x) = (o \o buf) \o x BY <1>1, <1>3, <1>5, CatAssociative, SMTT(30)
  <2>2. o \o buf \in Seq(Atom) BY <1>1, <1>5
  <2> DEFINE b == o \o buf
  <2> HIDE DEF b
  <2>3. x \in Seq(Atom) /\ y \in Seq(Atom) BY <1>3
  <2>4. b \in Seq(Atom) => b \o (x \o y) = (b \o x) \o y BY <2>3, CatAssociative
  <2> QED BY <1>3, <2>1, <2>2, <2>4 DEF b
<1>9. Conservation' BY <1>6, <1>7, <1>8
<1>10. buf' \in Seq(Atom) /\ net' \in Seq(Atom) BY <1>1, <1>3, <1>4
<1>11. RequestType' BY <1>4, <1>10 DEF RequestInv, RequestType, Input, Script
<1> QED BY <1>9, <1>11 DEF RequestInv

\* find_crlf yields the first CRLF.
LEMMA FirstCrlf ==
  ASSUME buf \in Seq(Atom), HasLine
  PROVE  /\ FindCrlf \in 1..Len(buf) /\ buf[FindCrlf] = "nl"
         /\ \A j \in 1..(FindCrlf - 1) : buf[j] # "nl"
<1> DEFINE T == {i \in Nat : i \in 1..Len(buf) /\ buf[i] = "nl"}
<1>1. T \in SUBSET Nat /\ T # {} BY DEF HasLine
<1>2. PICK m \in T : \A k \in T : m <= k BY <1>1, Least
<1>3. m \in 1..Len(buf) /\ buf[m] = "nl" /\ \A j \in 1..(m - 1) : buf[j] # "nl"
  <2>1. m \in 1..Len(buf) /\ buf[m] = "nl" OBVIOUS
  <2>2. ASSUME NEW j \in 1..(m - 1), buf[j] = "nl" PROVE FALSE
    <3>1. j \in Nat /\ j \in 1..Len(buf) /\ j < m BY <2>1
    <3>2. j \in T BY <2>2, <3>1
    <3> QED BY <1>2, <2>1, <3>1, <3>2
  <2> QED BY <2>1, <2>2
<1> QED BY <1>3 DEF FindCrlf

\* DecodeEndOfHeaders: the empty line, alone or with what is behind it.
LEMMA EndOfHeadersStep ==
  ASSUME RequestInv, DecodeEndOfHeaders
  PROVE  RequestInv'
<1>1. buf \in Seq(Atom) BY DEF RequestInv, RequestType
<1>2. UNCHANGED <<net, sent, client, forwarded>> BY DEF DecodeEndOfHeaders, Keep, clientVars
<1>3. CASE buf' = <<>> /\ cur' = cur \o buf
  <2>1. buf \in Seq(Held) /\ Original(buf) = buf BY <1>1, OriginalLine
  <2>2. <<>> \in Seq(Atom) /\ buf \o <<>> = buf BY <1>1
  <2> QED BY <1>2, <1>3, <2>1, <2>2, Collect
<1>4. CASE buf' = Tail(buf) /\ cur' = cur \o <<"nl">>
  <2>1. HasLine /\ FindCrlf = 1 BY DEF DecodeEndOfHeaders
  <2>2. 1 \in 1..Len(buf) /\ buf[1] = "nl" BY <1>1, <2>1, FirstCrlf
  <2>3. Tail(buf) \in Seq(Atom) /\ buf = <<"nl">> \o Tail(buf) BY <1>1, <2>2
  <2>4. <<"nl">> \in Seq(Atom) BY DEF Atom
  <2>5. <<"nl">> \in Seq(Held) /\ Original(<<"nl">>) = <<"nl">> BY <2>4, OriginalLine
  <2> QED BY <1>2, <1>4, <2>3, <2>5, Collect
<1> QED BY <1>3, <1>4 DEF DecodeEndOfHeaders, Keep

\* DecodeLine: the line up to its CRLF, a header perhaps rewritten.
LEMMA LineStep ==
  ASSUME RequestInv, DecodeLine
  PROVE  RequestInv'
<1> DEFINE line == SubSeq(buf, 1, FindCrlf)
           rest == SubSeq(buf, FindCrlf + 1, Len(buf))
<1>1. buf \in Seq(Atom) BY DEF RequestInv, RequestType
<1>2. UNCHANGED <<net, sent, client, forwarded>> /\ buf' = rest
  BY DEF DecodeLine, Keep, clientVars
<1>3. HasLine BY DEF DecodeLine
<1>4. FindCrlf \in 0..Len(buf)
  <2>1. FindCrlf \in 1..Len(buf) BY <1>1, <1>3, FirstCrlf
  <2> QED BY <2>1
<1>5. line \in Seq(Atom) /\ rest \in Seq(Atom) /\ line \o rest = buf BY <1>1, <1>4, CutAt
<1>6. cur' = cur \o line \/ cur' = cur \o Rewrite(line) BY DEF DecodeLine, Keep
<1> HIDE DEF line, rest
<1>7. /\ line \in Seq(Held) /\ Original(line) = line
      /\ Rewrite(line) \in Seq(Held) /\ Original(Rewrite(line)) = line
  BY <1>5, OriginalLine
<1> QED BY <1>2, <1>5, <1>6, <1>7, Collect

\* Nothing is sent yet.
LEMMA RequestStarts == Init => RequestInv
<1> SUFFICES ASSUME Init PROVE RequestInv OBVIOUS
<1>1. /\ client \in Clients /\ sent = 0 /\ net = <<>> /\ buf = <<>> /\ cur = <<>> /\ forwarded = <<>>
  BY DEF Init
<1>2. Input \in Seq(Atom) BY <1>1, InputType
<1>3. <<>> \in Seq(Atom) /\ <<>> \in Seq(Held) /\ <<>> \in Seq(Seq(Held)) OBVIOUS
<1>4. Len(Input) \in Nat /\ SubSeq(Input, 1, 0) = <<>> BY <1>2
<1>5. RequestType BY <1>1, <1>3, <1>4 DEF RequestType
<1>6. Original(<<>>) = <<>>
  <2>1. Original(<<>>) \in Seq(Atom) /\ Len(Original(<<>>)) = 0 BY <1>3, OriginalType
  <2> QED BY <2>1
<1>7. <<>> \o <<>> = <<>> OBVIOUS
<1>8. Conservation BY <1>1, <1>4, <1>6, <1>7, FlattenEmpty DEF Conservation
<1> QED BY <1>5, <1>8 DEF RequestInv

\* Every step keeps the invariant.
LEMMA RequestSteps ==
  ASSUME RequestInv, [Next]_vars
  PROVE  RequestInv'
<1>1. CASE PollHeaders \/ PollReset \/ Pending \/ NextCycle \/ Close
  BY <1>1, AtomsStay DEF PollHeaders, PollReset, Pending, NextCycle, Close, clientVars, framedVars
<1>2. CASE PollEnd \/ AfterError \/ DecodeFold
  BY <1>2, StopStep DEF PollEnd, AfterError, DecodeFold, clientVars, framedVars
<1>3. CASE DecodeNothing \/ ReadEof
  <2>1. UNCHANGED <<net, buf, sent, client>> BY <1>3 DEF DecodeNothing, ReadEof, clientVars
  <2>2. CASE Stop BY <2>1, <2>2, StopStep
  <2>3. CASE UNCHANGED <<cur, forwarded>> BY <2>1, <2>3, AtomsStay
  <2> QED BY <1>3, <2>2, <2>3 DEF DecodeNothing, ReadEof
<1>4. CASE DecodeEndOfHeaders BY <1>4, EndOfHeadersStep
<1>5. CASE DecodeLine BY <1>5, LineStep
<1>6. ASSUME NEW n \in 1..Len(net), Read(n) PROVE RequestInv' BY <1>6, ReadStep
<1>7. ASSUME NEW n \in 1..Len(Input), Send(n) PROVE RequestInv' BY <1>7, SendStep
<1>8. CASE UNCHANGED vars BY <1>8, AtomsStay DEF vars
<1> QED BY <1>1, <1>2, <1>3, <1>4, <1>5, <1>6, <1>7, <1>8 DEF Next, StreamStep, ClientStep

\* Whatever clients send and however the socket cuts it: HttpFrameStream, the
\* codec and FramedRead lose, repeat and move no byte; what was forwarded, what
\* is collected, what is buffered and what the socket holds is what was sent.
THEOREM NoByteIsLost == Spec => []Conservation
<1>1. Init => RequestInv BY RequestStarts
<1>2. RequestInv /\ [Next]_vars => RequestInv' BY RequestSteps
<1>3. RequestInv => Conservation BY DEF RequestInv
<1> QED BY <1>1, <1>2, <1>3, PTL DEF Spec

-----------------------------------------------------------------------------
(* Requests come out whole *)

\* The requests that have left, where in the input the next one begins, and it.
Gone == Len(forwarded)
Start(k) == Len(FlattenSeq(SubSeq(Script, 1, k)))
Current == Script[Gone + 1]

\* The pieces of request r in their places: what do_connection has collected,
\* what FramedRead has buffered and what the socket holds follow each other.
Placed(r, c, b, n) ==
  Holds(Rewrite(r), 0, c) /\ Holds(r, Len(c), b) /\ Holds(r, Len(c) + Len(b), n)

\* Rewriting keeps the length and all but the headers of the matchers.
LEMMA RewriteType ==
  ASSUME NEW s \in Seq(Atom)
  PROVE  /\ Rewrite(s) \in Seq(Held) /\ Len(Rewrite(s)) = Len(s)
         /\ \A i \in 1..Len(s) : Rewrite(s)[i] = IF s[i] = "m" THEN Rewritten ELSE s[i]
<1>1. Len(s) \in Nat /\ \A i \in 1..Len(s) : s[i] \in Atom OBVIOUS
<1>2. \A i \in 1..Len(s) : (IF s[i] = "m" THEN Rewritten ELSE s[i]) \in Held
  BY <1>1 DEF Held, Rewritten
<1> QED BY <1>1, <1>2 DEF Rewrite

\* A line without such a header is not changed.
LEMMA NothingToRewrite ==
  ASSUME NEW s \in Seq(Atom), \A i \in 1..Len(s) : s[i] # "m"
  PROVE  Rewrite(s) = s
<1> DEFINE r == Rewrite(s)
<1>1. /\ r \in Seq(Held) /\ Len(r) = Len(s)
      /\ \A i \in 1..Len(s) : r[i] = IF s[i] = "m" THEN Rewritten ELSE s[i]
  BY RewriteType
<1> HIDE DEF r
<1>2. s \in Seq(Held) BY DEF Held
<1>3. \A i \in 1..Len(r) : r[i] = s[i] BY <1>1
<1>4. r = s BY <1>1, <1>2, <1>3, SameSequence
<1> QED BY <1>4 DEF r

\* A part of a rewritten request is the rewritten part.
LEMMA RewritePart ==
  ASSUME NEW r \in Seq(Atom), NEW j \in Nat, NEW u \in Seq(Atom), Holds(r, j, u)
  PROVE  Holds(Rewrite(r), j, Rewrite(u))
<1> DEFINE R == Rewrite(r)
           U == Rewrite(u)
<1>1. /\ Len(R) = Len(r)
      /\ \A i \in 1..Len(r) : R[i] = IF r[i] = "m" THEN Rewritten ELSE r[i]
  BY RewriteType
<1>2. /\ Len(U) = Len(u)
      /\ \A i \in 1..Len(u) : U[i] = IF u[i] = "m" THEN Rewritten ELSE u[i]
  BY RewriteType
<1> HIDE DEF R, U
<1>3. j + Len(u) <= Len(r) /\ \A i \in 1..Len(u) : r[j + i] = u[i] BY DEF Holds
<1>4. \A i \in 1..Len(u) : j + i \in 1..Len(r)
  <2>1. Len(u) \in Nat /\ Len(r) \in Nat OBVIOUS
  <2> QED BY <1>3, <2>1
<1>5. \A i \in 1..Len(U) : R[j + i] = U[i] BY <1>1, <1>2, <1>3, <1>4
<1>6. Holds(R, j, U) BY <1>1, <1>2, <1>3, <1>5 DEF Holds
<1> QED BY <1>6 DEF R, U

\* Read moves atoms from the socket to the buffer.
LEMMA PlacedRead ==
  ASSUME NEW r \in Seq(Atom), NEW c \in Seq(Held), NEW b \in Seq(Atom), NEW n \in Seq(Atom),
         NEW k \in 0..Len(n), Placed(r, c, b, n)
  PROVE  /\ Placed(r, c, b \o SubSeq(n, 1, k), SubSeq(n, k + 1, Len(n)))
         /\ Len(b \o SubSeq(n, 1, k)) + Len(SubSeq(n, k + 1, Len(n))) = Len(b) + Len(n)
<1> DEFINE x == SubSeq(n, 1, k)
           y == SubSeq(n, k + 1, Len(n))
           p == Len(c)
           q == p + Len(b)
           bx == b \o x
<1>1. /\ x \in Seq(Atom) /\ Len(x) = k /\ y \in Seq(Atom) /\ Len(y) = Len(n) - k /\ x \o y = n
  BY CutAt
<1>2. p \in Nat /\ Len(b) \in Nat /\ Len(n) \in Nat /\ k \in Nat /\ q \in Nat OBVIOUS
<1>3. Holds(Rewrite(r), 0, c) /\ Holds(r, p, b) /\ Holds(r, q, n) BY DEF Placed
<1> HIDE DEF x, y, p, q
<1>4. Holds(r, q, x \o y) BY <1>1, <1>3
<1>5. x \in Seq(Atom) /\ y \in Seq(Atom) BY <1>1
<1>6. Holds(r, q, x) /\ Holds(r, q + Len(x), y) BY <1>2, <1>4, <1>5, HoldsCat
<1>7. Holds(r, p + Len(b), x) BY <1>6 DEF q
<1>8. Holds(r, p, bx) BY <1>2, <1>3, <1>5, <1>7, HoldsJoin
<1>9. bx \in Seq(Atom) /\ Len(bx) = Len(b) + Len(x) BY <1>5, CatType
<1> HIDE DEF bx
<1>10. q + Len(x) = p + Len(bx) BY <1>1, <1>2, <1>9 DEF q
<1>11. Placed(r, c, bx, y) BY <1>3, <1>6, <1>8, <1>10 DEF Placed, p
<1>12. Len(bx) + Len(y) = Len(b) + Len(n) BY <1>1, <1>2, <1>9
<1> QED BY <1>11, <1>12 DEF bx, x, y

\* Send puts the next piece of the request behind the others.
LEMMA PlacedSend ==
  ASSUME NEW r \in Seq(Atom), NEW c \in Seq(Held), NEW b \in Seq(Atom), NEW n \in Seq(Atom),
         NEW y \in Seq(Atom), Placed(r, c, b, n), Holds(r, (Len(c) + Len(b)) + Len(n), y)
  PROVE  Placed(r, c, b, n \o y)
<1> DEFINE q == Len(c) + Len(b)
<1>1. q \in Nat OBVIOUS
<1>2. Holds(r, q, n) /\ Holds(r, q + Len(n), y) BY DEF Placed
<1> HIDE DEF q
<1>3. Holds(r, q, n \o y) BY <1>1, <1>2, HoldsJoin
<1> QED BY <1>3 DEF Placed, q

\* The decoder moves a line from the buffer to what is collected.
LEMMA PlacedLine ==
  ASSUME NEW r \in Seq(Atom), NEW c \in Seq(Held), NEW b \in Seq(Atom), NEW n \in Seq(Atom),
         NEW k \in 0..Len(b), Placed(r, c, b, n)
  PROVE  /\ Placed(r, c \o Rewrite(SubSeq(b, 1, k)), SubSeq(b, k + 1, Len(b)), n)
         /\ Len(c \o Rewrite(SubSeq(b, 1, k))) = Len(c) + k
         /\ Len(SubSeq(b, k + 1, Len(b))) = Len(b) - k
<1> DEFINE x == SubSeq(b, 1, k)
           y == SubSeq(b, k + 1, Len(b))
           p == Len(c)
           X == Rewrite(x)
           cx == c \o X
           R == Rewrite(r)
<1>1. /\ x \in Seq(Atom) /\ Len(x) = k /\ y \in Seq(Atom) /\ Len(y) = Len(b) - k /\ x \o y = b
  BY CutAt
<1>2. p \in Nat /\ Len(b) \in Nat /\ k \in Nat OBVIOUS
<1>3. Holds(R, 0, c) /\ Holds(r, p, b) /\ Holds(r, p + Len(b), n) BY DEF Placed
<1> HIDE DEF x, y, p
<1>4. Holds(r, p, x \o y) BY <1>1, <1>3
<1>5. x \in Seq(Atom) /\ y \in Seq(Atom) BY <1>1
<1>6. Holds(r, p, x) /\ Holds(r, p + Len(x), y) BY <1>2, <1>4, <1>5, HoldsCat
<1>7. Holds(R, p, X) BY <1>2, <1>5, <1>6, RewritePart
<1>8. X \in Seq(Held) /\ Len(X) = k /\ R \in Seq(Held) BY <1>1, <1>5, RewriteType
<1> HIDE DEF X, R
<1>9. 0 + Len(c) = p BY <1>2 DEF p
<1>10. Holds(R, 0, cx) BY <1>3, <1>7, <1>8, <1>9, HoldsJoin
<1>11. Len(cx) = p + k BY <1>8, CatType DEF p
<1> HIDE DEF cx
<1>12. Len(cx) + Len(y) = p + Len(b) /\ Len(cx) = p + Len(x) BY <1>1, <1>2, <1>11
<1>13. Placed(r, cx, y, n) BY <1>3, <1>6, <1>10, <1>12 DEF Placed, R
<1> QED BY <1>1, <1>11, <1>13 DEF cx, x, y, X, p

\* Where the pieces end.
LEMMA PlacedEnds ==
  ASSUME NEW r \in Seq(Atom), NEW c \in Seq(Held), NEW b \in Seq(Atom), NEW n \in Seq(Atom),
         Placed(r, c, b, n)
  PROVE  /\ Len(r) \in Nat /\ Len(c) \in Nat /\ Len(b) \in Nat /\ Len(n) \in Nat
         /\ (Len(c) + Len(b)) + Len(n) <= Len(r)
         /\ \A i \in 1..Len(b) : r[Len(c) + i] = b[i]
BY DEF Placed, Holds

\* Nothing is anywhere.
LEMMA NothingPlaced ==
  ASSUME NEW r \in Seq(Atom)
  PROVE  Placed(r, <<>>, <<>>, <<>>)
<1>1. Len(Rewrite(r)) = Len(r) /\ Len(r) \in Nat BY RewriteType
<1> QED BY <1>1 DEF Placed, Holds

\* A request that is collected to its end is collected whole.
LEMMA CollectedWhole ==
  ASSUME NEW r \in Seq(Atom), NEW c \in Seq(Held), Holds(Rewrite(r), 0, c), Len(c) = Len(r)
  PROVE  c = Rewrite(r)
<1> DEFINE R == Rewrite(r)
<1>1. R \in Seq(Held) /\ Len(R) = Len(r) BY RewriteType
<1>2. \A i \in 1..Len(c) : R[0 + i] = c[i] BY DEF Holds
<1> HIDE DEF R
<1>3. \A i \in 1..Len(c) : c[i] = R[i]
  <2>1. Len(c) \in Nat OBVIOUS
  <2>2. \A i \in 1..Len(c) : 0 + i = i BY <2>1
  <2> QED BY <1>2, <2>2
<1>4. c = R BY <1>1, <1>3, SameSequence
<1> QED BY <1>4 DEF R

\* Where the requests begin: request k + 1 is the client's input from Start(k)
\* to Start(k + 1), and the last one ends where the input ends.
LEMMA RequestPlaces ==
  ASSUME client \in Clients, NEW k \in 0..Len(Script)
  PROVE  /\ Start(k) \in Nat
         /\ k = Len(Script) => Len(Input) = Start(k)
         /\ k < Len(Script) => /\ Script[k + 1] \in Seq(Atom)
                               /\ Start(k + 1) = Start(k) + Len(Script[k + 1])
                               /\ Holds(Input, Start(k), Script[k + 1])
<1> DEFINE front == SubSeq(Script, 1, k)
           f == FlattenSeq(front)
           x == Script[k + 1]
<1>1. Script \in Seq(Seq(Atom)) /\ Input \in Seq(Atom) BY InputType
<1>2. Len(Script) \in Nat /\ k \in Nat BY <1>1
<1>3. front \in Seq(Seq(Atom)) BY <1>1, CutAt
<1>4. f \in Seq(Atom) /\ Start(k) = Len(f) BY <1>3, FlattenType DEF Start
<1>5. ASSUME k = Len(Script) PROVE Len(Input) = Start(k)
  <2>1. front = Script BY <1>1, <1>5
  <2> QED BY <2>1 DEF Start, Input
<1>6. ASSUME k < Len(Script)
      PROVE  /\ x \in Seq(Atom)
             /\ Start(k + 1) = Start(k) + Len(x)
             /\ Holds(Input, Start(k), x)
  <2>1. k + 1 \in 0..Len(Script) /\ k + 1 <= Len(Script) /\ k + 1 \in 1..Len(Script) BY <1>2, <1>6
  <2>2. x \in Seq(Atom) BY <1>1, <2>1
  <2>3. SubSeq(Script, 1, k + 1) = Append(front, x) BY <1>1, <1>2, <2>1, FrontGrows
  <2>4. FlattenSeq(Append(front, x)) = f \o x BY <1>3, <2>2, FlattenAppend
  <2>5. FlattenSeq(SubSeq(Script, 1, k + 1)) = f \o x BY <2>3, <2>4
  <2>6. PICK rest \in Seq(Atom) : Input = FlattenSeq(SubSeq(Script, 1, k + 1)) \o rest
    BY <1>1, <2>1, FlattenPrefix DEF Input
  <2>7. Start(k + 1) = Len(f \o x) BY <2>5 DEF Start
  <2> DEFINE fx == f \o x
  <2>8. Input = fx \o rest BY <2>5, <2>6
  <2> HIDE DEF f, x
  <2>9. fx \in Seq(Atom) /\ Len(fx) = Len(f) + Len(x) BY <1>4, <2>2, CatType
  <2>10. Holds(Input, 0, Input) BY <1>1, HoldsItself
  <2>11. Holds(Input, 0, fx)
    <3> HIDE DEF fx
    <3>1. Holds(Input, 0, fx \o rest) BY <2>8, <2>10
    <3> QED BY <1>1, <2>9, <3>1, HoldsCat
  <2>12. Holds(Input, 0 + Len(f), x) BY <1>1, <1>4, <2>2, <2>11, HoldsCat
  <2>13. 0 + Len(f) = Len(f) BY <1>4
  <2> QED BY <1>4, <2>2, <2>7, <2>9, <2>12, <2>13 DEF x
<1>7. Start(k) \in Nat BY <1>4
<1> QED BY <1>5, <1>6, <1>7

\* The requests that left are the client's, in order, and the atoms on their way
\* are those of the next one, up to what has been sent of it.
InFlight ==
  /\ Gone <= Len(Script) /\ \A i \in 1..Gone : forwarded[i] = Rewrite(Script[i])
  /\ sent = ((Start(Gone) + Len(cur)) + Len(buf)) + Len(net)
  /\ Gone = Len(Script) => sent = Start(Gone)
  /\ Gone < Len(Script) => Placed(Current, cur, buf, net)

\* Where a well-formed request stands between its first line and its last.
AtLine ==
  /\ Gone < Len(Script) /\ Len(cur) >= 1 /\ Len(cur) < Len(Current)
  /\ Current[Len(cur)] = "nl"

\* The states of the codec, of HttpFrameStream and of do_connection go together.
InStep ==
  /\ ~eof /\ ~errored
  /\ phase = "busy" => sent = Start(Gone)
  /\ headers_done /\ yielded_none =>
       polling = "idle" /\ phase \in {"busy", "pre"} /\ cur = <<>> /\ buf = <<>>
  /\ headers_done /\ ~yielded_none =>
       polling = "idle" /\ phase = "post" /\ Gone < Len(Script) /\ Len(cur) = Len(Current)
  /\ ~headers_done => ~yielded_none /\ ~done
  /\ ~headers_done /\ first_line => phase = "pre" /\ cur = <<>>
  /\ ~headers_done /\ ~first_line => phase = "post" /\ polling \in {"idle", "normal"} /\ AtLine

WholeInv == Plain /\ ~closed => InFlight /\ InStep

\* What is known of the current request.
LEMMA CurrentRequest ==
  ASSUME RequestType, Plain, InFlight
  PROVE  /\ Gone \in 0..Len(Script) /\ Start(Gone) \in Nat
         /\ Gone < Len(Script) =>
              /\ Current \in Seq(Atom) /\ WellFormed(Current)
              /\ Start(Gone + 1) = Start(Gone) + Len(Current)
              /\ Holds(Input, Start(Gone), Current)
         /\ Gone = Len(Script) => Len(Input) = Start(Gone) /\ cur = <<>> /\ buf = <<>> /\ net = <<>>
<1>1. client \in Clients /\ cur \in Seq(Held) /\ buf \in Seq(Atom) /\ net \in Seq(Atom)
  BY DEF RequestType
<1>2. Script \in Seq(Seq(Atom)) BY <1>1, InputType
<1>3. Gone \in Nat /\ Len(Script) \in Nat /\ Gone <= Len(Script) BY <1>2 DEF RequestType, InFlight, Gone
<1>4. Gone \in 0..Len(Script) BY <1>3
<1>5. /\ Start(Gone) \in Nat
      /\ Gone = Len(Script) => Len(Input) = Start(Gone)
      /\ Gone < Len(Script) => /\ Current \in Seq(Atom)
                               /\ Start(Gone + 1) = Start(Gone) + Len(Current)
                               /\ Holds(Input, Start(Gone), Current)
  BY <1>1, <1>4, RequestPlaces DEF Current
<1>6. ASSUME Gone < Len(Script) PROVE WellFormed(Current)
  <2>1. Gone + 1 \in 1..Len(Script) BY <1>3, <1>6
  <2> QED BY <2>1 DEF Plain, Current
<1>7. ASSUME Gone = Len(Script) PROVE cur = <<>> /\ buf = <<>> /\ net = <<>>
  <2>1. /\ sent = ((Start(Gone) + Len(cur)) + Len(buf)) + Len(net) /\ sent = Start(Gone)
    BY <1>7 DEF InFlight
  <2>2. Len(cur) \in Nat /\ Len(buf) \in Nat /\ Len(net) \in Nat BY <1>1
  <2>3. Len(cur) = 0 /\ Len(buf) = 0 /\ Len(net) = 0
    <3> DEFINE a == Start(Gone)
               b == Len(cur)
               c == Len(buf)
               d == Len(net)
    <3>1. a \in Nat /\ b \in Nat /\ c \in Nat /\ d \in Nat /\ a = ((a + b) + c) + d BY <1>5, <2>1, <2>2
    <3> HIDE DEF a, b, c, d
    <3>2. b = 0 /\ c = 0 /\ d = 0 BY <3>1
    <3> QED BY <3>2 DEF b, c, d
  <2> QED BY <1>1, <2>3
<1> QED BY <1>4, <1>5, <1>6, <1>7

\* What the client may send: nothing while its answer is on the way or when it has
\* no more requests, and else the request it has begun.
LEMMA MayBeSent ==
  ASSUME RequestType, Plain, InFlight
  PROVE  /\ phase = "busy" \/ Gone = Len(Script) => Allowed = Start(Gone)
         /\ phase # "busy" /\ Gone < Len(Script) => Allowed = Start(Gone) + Len(Current)
<1>1. /\ Gone \in 0..Len(Script)
      /\ Gone < Len(Script) => Start(Gone + 1) = Start(Gone) + Len(Current)
      /\ Gone = Len(Script) => Len(Input) = Start(Gone)
  BY CurrentRequest
<1>2. client \in Clients BY DEF RequestType
<1>3. Script \in Seq(Seq(Atom)) BY <1>2, InputType
<1>4. Len(Script) \in Nat BY <1>3
<1>5. ~Pipelined BY DEF Plain
<1>6. CASE phase = "busy"
  <2>1. Gone + 0 = Gone /\ ~(Gone > Len(Script)) BY <1>1, <1>4
  <2>2. Allowed = Start(Gone) BY <1>5, <1>6, <2>1 DEF Allowed, Start, Gone
  <2> QED BY <1>6, <2>2
<1>7. CASE phase # "busy" /\ Gone = Len(Script)
  <2>1. Gone + 1 > Len(Script) BY <1>4, <1>7
  <2>2. Allowed = Len(Input) BY <1>7, <2>1 DEF Allowed, Gone
  <2> QED BY <1>1, <1>7, <2>2
<1>8. CASE phase # "busy" /\ Gone < Len(Script)
  <2>1. ~(Gone + 1 > Len(Script)) BY <1>1, <1>4, <1>8
  <2>2. Allowed = Start(Gone + 1) BY <1>5, <1>8, <2>1 DEF Allowed, Start, Gone
  <2> QED BY <1>1, <1>4, <1>8, <2>2
<1> QED BY <1>1, <1>4, <1>6, <1>7, <1>8

\* A client stays what it is.
LEMMA SameClient ==
  ASSUME UNCHANGED client
  PROVE  (Plain' <=> Plain) /\ Script' = Script
BY DEF Plain, Pipelined, Script

\* Atoms that stay where they are stay in flight.
LEMMA StillInFlight ==
  ASSUME InFlight, UNCHANGED <<sent, net, buf, cur, forwarded, client>>
  PROVE  InFlight' /\ (AtLine' <=> AtLine) /\ Start(Gone)' = Start(Gone)
         /\ Gone' = Gone /\ Current' = Current
BY DEF InFlight, AtLine, Start, Gone, Current, Script

\* Steps that move no atom.
LEMMA ControlStep ==
  ASSUME InFlight, InStep,
         PollHeaders \/ PollReset \/ Pending \/ NextCycle
  PROVE  InFlight' /\ InStep'
<1>1. UNCHANGED <<sent, net, buf, cur, forwarded, client, eof, errored, closed>>
  BY DEF PollHeaders, PollReset, Pending, NextCycle, clientVars, framedVars
<1>2. /\ InFlight' /\ (AtLine' <=> AtLine) /\ Start(Gone)' = Start(Gone)
      /\ Gone' = Gone /\ Current' = Current /\ Script' = Script
  BY <1>1, StillInFlight, SameClient
<1>3. CASE PollHeaders
  BY <1>1, <1>2, <1>3 DEF PollHeaders, Polled, InStep, codecVars, streamVars
<1>4. CASE PollReset
  BY <1>1, <1>2, <1>4 DEF PollReset, Polled, InStep
<1>5. CASE Pending
  BY <1>1, <1>2, <1>5 DEF Pending, InStep, codecVars, streamVars
<1>6. CASE NextCycle
  BY <1>1, <1>2, <1>6 DEF NextCycle, InStep, codecVars, streamVars
<1> QED BY <1>3, <1>4, <1>5, <1>6

\* The decoder finds no line: FramedRead reads on.
LEMMA NothingStep ==
  ASSUME InFlight, InStep, DecodeNothing
  PROVE  InFlight' /\ InStep'
<1>1. ~eof BY DEF InStep
<1>2. UNCHANGED <<sent, net, buf, cur, forwarded, client, eof, errored, polling, phase,
                  done, first_line, headers_done, yielded_none>>
  BY <1>1 DEF DecodeNothing, clientVars, codecVars, streamVars
<1>3. /\ InFlight' /\ (AtLine' <=> AtLine) /\ Start(Gone)' = Start(Gone)
      /\ Gone' = Gone /\ Current' = Current /\ Script' = Script
  BY <1>2, StillInFlight, SameClient
<1> QED BY <1>2, <1>3 DEF InStep

\* The client sends the next piece of the request it has begun.
LEMMA SendInFlight ==
  ASSUME RequestType, Plain, InFlight, InStep, NEW n \in 1..Len(Input), Send(n)
  PROVE  InFlight' /\ InStep'
<1> DEFINE a == Start(Gone)
           k == (Len(cur) + Len(buf)) + Len(net)
           y == SubSeq(Input, sent + 1, sent + n)
<1>1. /\ net \in Seq(Atom) /\ buf \in Seq(Atom) /\ cur \in Seq(Held) /\ client \in Clients
  BY DEF RequestType
<1>2. Input \in Seq(Atom) /\ Script \in Seq(Seq(Atom)) BY <1>1, InputType
<1>3. Len(Input) \in Nat /\ n \in Nat /\ n >= 1 /\ Len(Script) \in Nat
  <2>1. Len(Input) \in Nat /\ Len(Script) \in Nat BY <1>2
  <2> QED BY <2>1
<1>4. /\ sent + n <= Allowed /\ net' = net \o y /\ sent' = sent + n
      /\ UNCHANGED <<buf, cur, forwarded, client, eof, errored, polling, phase,
                     done, first_line, headers_done, yielded_none>>
  BY DEF Send, framedVars, codecVars, streamVars
<1>5. /\ Gone \in 0..Len(Script) /\ a \in Nat
      /\ Gone < Len(Script) =>
           /\ Current \in Seq(Atom) /\ Holds(Input, a, Current)
  BY CurrentRequest
<1>6. sent = a + k /\ k \in Nat
  <2>1. sent = ((a + Len(cur)) + Len(buf)) + Len(net) BY DEF InFlight
  <2>2. Len(cur) \in Nat /\ Len(buf) \in Nat /\ Len(net) \in Nat BY <1>1
  <2> HIDE DEF a
  <2> QED BY <1>5, <2>1, <2>2
<1>7. phase # "busy" /\ Gone < Len(Script)
  <2>1. ASSUME phase = "busy" \/ Gone = Len(Script) PROVE FALSE
    <3>1. Allowed = a BY <2>1, MayBeSent
    <3>2. sent = a BY <2>1 DEF InStep, InFlight
    <3> HIDE DEF a, k
    <3> QED BY <1>3, <1>4, <1>5, <3>1, <3>2
  <2> QED BY <1>3, <1>5, <2>1
<1>8. Allowed = a + Len(Current) BY <1>7, MayBeSent
<1>9. Current \in Seq(Atom) /\ Holds(Input, a, Current) BY <1>5, <1>7
<1> DEFINE r == Current
<1>10. y = SubSeq(Input, (a + k) + 1, (a + k) + n) BY <1>6
<1> HIDE DEF a, k, r, y
<1>11. k + n <= Len(r)
  <2>1. Len(r) \in Nat BY <1>9 DEF r
  <2>2. (a + k) + n <= a + Len(r) BY <1>4, <1>6, <1>8 DEF r
  <2> QED BY <1>3, <1>5, <1>6, <2>1, <2>2
<1>12. y \in Seq(Atom) /\ Len(y) = n /\ Holds(r, k, y)
  <2>1. r \in Seq(Atom) /\ Holds(Input, a, r) BY <1>9 DEF r
  <2>2. a \in Nat /\ k \in Nat /\ n \in Nat BY <1>3, <1>5, <1>6
  <2> DEFINE Piece(d, j, i, l) == SubSeq(d, (j + i) + 1, (j + i) + l)
  <2>3. \A d, s \in Seq(Atom) : \A j, i, l \in Nat :
          Holds(d, j, s) /\ i + l <= Len(s) =>
            Piece(d, j, i, l) \in Seq(Atom) /\ Len(Piece(d, j, i, l)) = l /\ Holds(s, i, Piece(d, j, i, l))
    BY HoldsPiece, ZenonT(40)
  <2>4. y = Piece(Input, a, k, n) BY <1>10
  <2> HIDE DEF Piece
  <2>5. /\ Piece(Input, a, k, n) \in Seq(Atom) /\ Len(Piece(Input, a, k, n)) = n
        /\ Holds(r, k, Piece(Input, a, k, n))
    BY <1>2, <1>11, <2>1, <2>2, <2>3
  <2> QED BY <2>4, <2>5
<1>13. Placed(r, cur, buf, net \o y)
  <2>1. Placed(r, cur, buf, net) BY <1>7 DEF InFlight, r
  <2>2. Holds(r, (Len(cur) + Len(buf)) + Len(net), y) BY <1>12 DEF k
  <2>3. r \in Seq(Atom) /\ y \in Seq(Atom) BY <1>9, <1>12 DEF r
  <2> QED BY <1>1, <2>1, <2>2, <2>3, PlacedSend
<1>14. sent' = ((a + Len(cur)) + Len(buf)) + Len(net')
  <2>1. Len(net') = Len(net) + n
    <3>1. net \in Seq(Atom) /\ y \in Seq(Atom) BY <1>1, <1>12
    <3>2. Len(net \o y) = Len(net) + Len(y) BY <3>1, CatType
    <3> QED BY <1>4, <1>12, <3>2
  <2>2. sent' = (a + k) + n BY <1>4, <1>6
  <2>3. Len(cur) \in Nat /\ Len(buf) \in Nat /\ Len(net) \in Nat BY <1>1
  <2> QED BY <1>3, <1>5, <2>1, <2>2, <2>3 DEF k
<1>15. /\ Gone' = Gone /\ a' = a /\ Script' = Script /\ Current' = Current /\ (AtLine' <=> AtLine)
  BY <1>4 DEF Gone, Start, Script, Current, AtLine, a
<1>16. Start(Gone)' = a BY <1>15 DEF a
<1>17. InFlight'
  <2>1. Placed(Current, cur, buf, net)' BY <1>4, <1>13, <1>15 DEF r
  <2>2. Gone' # Len(Script)' BY <1>3, <1>5, <1>7, <1>15
  <2>3. sent' = ((Start(Gone)' + Len(cur')) + Len(buf')) + Len(net') BY <1>4, <1>14, <1>16
  <2>4. Gone' <= Len(Script)' /\ \A i \in 1..Gone' : forwarded'[i] = Rewrite(Script'[i])
    BY <1>4, <1>15 DEF InFlight
  <2>5. InFlight' <=>
          /\ Gone' <= Len(Script)' /\ \A i \in 1..Gone' : forwarded'[i] = Rewrite(Script'[i])
          /\ sent' = ((Start(Gone)' + Len(cur')) + Len(buf')) + Len(net')
          /\ Gone' = Len(Script)' => sent' = Start(Gone)'
          /\ Gone' < Len(Script)' => Placed(Current, cur, buf, net)'
    BY DEF InFlight
  <2> QED BY <2>1, <2>2, <2>3, <2>4, <2>5
<1>18. InStep' BY <1>4, <1>7, <1>15 DEF InStep
<1> QED BY <1>17, <1>18

\* FramedRead takes atoms from the socket.
LEMMA ReadInFlight ==
  ASSUME RequestType, Plain, InFlight, InStep, NEW n \in 1..Len(net), Read(n)
  PROVE  InFlight' /\ InStep'
<1> DEFINE x == SubSeq(net, 1, n)
           y == SubSeq(net, n + 1, Len(net))
           a == Start(Gone)
           r == Current
<1>1. /\ net \in Seq(Atom) /\ buf \in Seq(Atom) /\ cur \in Seq(Held) BY DEF RequestType
<1>2. /\ Gone \in 0..Len(Script) /\ a \in Nat
      /\ Gone < Len(Script) => r \in Seq(Atom)
      /\ Gone = Len(Script) => net = <<>>
  BY CurrentRequest
<1>3. /\ buf' = buf \o x /\ net' = y /\ ~eof' /\ Inner
      /\ UNCHANGED <<sent, cur, forwarded, client, errored, polling, phase,
                     done, first_line, headers_done, yielded_none>>
  BY DEF Read, codecVars, streamVars
<1>4. n \in 0..Len(net) /\ Gone < Len(Script)
  <2>1. Len(net) \in Nat /\ n \in 0..Len(net) BY <1>1
  <2>2. Gone # Len(Script) BY <1>2, <2>1
  <2> QED BY <1>2, <2>1, <2>2
<1>5. r \in Seq(Atom) /\ Placed(r, cur, buf, net) BY <1>2, <1>4 DEF InFlight
<1>6. sent = ((a + Len(cur)) + Len(buf)) + Len(net) BY DEF InFlight
<1> HIDE DEF a, r
<1>7. Placed(r, cur, buf \o x, y) /\ Len(buf \o x) + Len(y) = Len(buf) + Len(net)
  <2>1. r \in Seq(Atom) /\ cur \in Seq(Held) /\ buf \in Seq(Atom) /\ net \in Seq(Atom)
    BY <1>1, <1>5
  <2>2. n \in 0..Len(net) /\ Placed(r, cur, buf, net) BY <1>4, <1>5
  <2> QED BY <2>1, <2>2, PlacedRead, ZenonT(40)
<1>8. x \in Seq(Atom) /\ y \in Seq(Atom) BY <1>1, <1>4, CutAt
<1> HIDE DEF x, y
<1>9. sent' = ((a + Len(cur)) + Len(buf')) + Len(net')
  <2>1. Len(buf') \in Nat /\ Len(net') \in Nat
    <3>1. buf \in Seq(Atom) /\ x \in Seq(Atom) BY <1>1, <1>8
    <3>2. buf \o x \in Seq(Atom) BY <3>1, CatType
    <3>3. buf' \in Seq(Atom) /\ net' \in Seq(Atom) BY <1>3, <1>8, <3>2
    <3> QED BY <3>3
  <2>2. Len(buf') + Len(net') = Len(buf) + Len(net) BY <1>3, <1>7
  <2>3. Len(cur) \in Nat /\ Len(buf) \in Nat /\ Len(net) \in Nat BY <1>1
  <2>4. sent' = sent BY <1>3
  <2> QED BY <1>2, <1>6, <2>1, <2>2, <2>3, <2>4
<1>10. /\ Gone' = Gone /\ a' = a /\ Script' = Script /\ Current' = Current /\ (AtLine' <=> AtLine)
  BY <1>3 DEF Gone, Start, Script, Current, AtLine, a
<1>11. InFlight'
  <2>1. Placed(Current, cur, buf, net)' BY <1>3, <1>7, <1>10 DEF r
  <2>2. Gone' # Len(Script)' BY <1>2, <1>4, <1>10
  <2>3. sent' = ((Start(Gone)' + Len(cur')) + Len(buf')) + Len(net') BY <1>3, <1>9, <1>10 DEF a
  <2>4. Gone' <= Len(Script)' /\ \A i \in 1..Gone' : forwarded'[i] = Rewrite(Script'[i])
    BY <1>3, <1>10 DEF InFlight
  <2>5. InFlight' <=>
          /\ Gone' <= Len(Script)' /\ \A i \in 1..Gone' : forwarded'[i] = Rewrite(Script'[i])
          /\ sent' = ((Start(Gone)' + Len(cur')) + Len(buf')) + Len(net')
          /\ Gone' = Len(Script)' => sent' = Start(Gone)'
          /\ Gone' < Len(Script)' => Placed(Current, cur, buf, net)'
    BY DEF InFlight
  <2> QED BY <2>1, <2>2, <2>3, <2>4, <2>5
<1>12. InStep' BY <1>3, <1>10 DEF InStep, Inner, a
<1> QED BY <1>11, <1>12

\* The first line found in the buffer lies inside the current request, and only
\* the last one is empty.
LEMMA LineOfRequest ==
  ASSUME RequestType, Plain, InFlight, InStep, ~headers_done, HasLine
  PROVE  /\ Gone < Len(Script) /\ Current \in Seq(Atom) /\ Placed(Current, cur, buf, net)
         /\ FindCrlf \in 1..Len(buf)
         /\ first_line => cur = <<>> /\ FindCrlf = 2 /\ Len(Current) > 2 /\ buf[1] = "rl" /\ buf[2] = "nl"
         /\ ~first_line => buf[1] # "ws"
         /\ ~first_line /\ FindCrlf = 1 => Len(cur) + 1 = Len(Current) /\ buf[1] = "nl"
         /\ ~first_line /\ FindCrlf > 1 => Len(cur) + FindCrlf < Len(Current)
         /\ Current[Len(cur) + FindCrlf] = "nl"
<1> DEFINE r == Current
           n == Len(r)
           p == Len(cur)
           f == FindCrlf
           m == Len(buf)
<1>1. buf \in Seq(Atom) /\ cur \in Seq(Held) /\ net \in Seq(Atom) BY DEF RequestType
<1>2. f \in 1..m /\ buf[f] = "nl" /\ \A j \in 1..(f - 1) : buf[j] # "nl" BY <1>1, FirstCrlf
<1>3. /\ Gone \in 0..Len(Script)
      /\ Gone < Len(Script) => r \in Seq(Atom) /\ WellFormed(r)
      /\ Gone = Len(Script) => buf = <<>>
  BY CurrentRequest
<1>4. Gone < Len(Script)
  <2>1. buf # <<>> BY <1>1, <1>2
  <2> QED BY <1>3, <2>1
<1>5. r \in Seq(Atom) /\ WellFormed(r) /\ Placed(r, cur, buf, net) BY <1>3, <1>4 DEF InFlight
<1>6. /\ n \in Nat /\ p \in Nat /\ m \in Nat /\ Len(net) \in Nat /\ (p + m) + Len(net) <= n
      /\ \A i \in 1..m : r[p + i] = buf[i]
  BY <1>1, <1>5, PlacedEnds
<1>7. /\ n >= 3 /\ r[1] = "rl" /\ r[2] = "nl" /\ r[n - 1] = "nl" /\ r[n] = "nl"
      /\ \A i \in 1..(n - 2) : r[i] = "nl" => r[i + 1] \notin {"nl", "ws"}
  BY <1>5 DEF WellFormed
<1>8. first_line => cur = <<>> BY DEF InStep
<1>9. ~first_line => p >= 1 /\ p < n /\ r[p] = "nl" BY DEF InStep, AtLine
<1>10. cur = <<>> => p = 0 OBVIOUS
<1> HIDE DEF r, n, p, f, m
<1>11. f \in Nat /\ f >= 1 /\ f <= m /\ p + m <= n BY <1>2, <1>6
<1>12. r[p + f] = "nl" BY <1>2, <1>6
<1>13. r[p + 1] = buf[1]
  <2>1. 1 \in 1..m BY <1>6, <1>11
  <2> QED BY <1>6, <2>1
<1>14. ASSUME first_line PROVE f = 2 /\ buf[1] = "rl" /\ buf[2] = "nl"
  <2>1. p = 0 BY <1>8, <1>10, <1>14
  <2>2. \A i \in 1..m : r[i] = buf[i]
    <3>1. \A i \in 1..m : 0 + i = i BY <1>6
    <3> QED BY <1>6, <2>1, <3>1
  <2>3. buf[1] = "rl"
    <3>1. 1 \in 1..m BY <1>6, <1>11
    <3> QED BY <1>7, <2>2, <3>1
  <2>4. f # 1 BY <1>2, <2>3
  <2>5. 2 \in 1..m BY <1>6, <1>11, <2>4
  <2>6. buf[2] = "nl" BY <1>7, <2>2, <2>5
  <2>7. ~(f > 2)
    <3>1. f > 2 => 2 \in 1..(f - 1) BY <1>11
    <3> QED BY <1>2, <2>6, <3>1
  <2> QED BY <1>11, <2>3, <2>4, <2>6, <2>7
<1>15. ASSUME ~first_line PROVE buf[1] # "ws" /\ (buf[1] = "nl" => p + 1 = n)
  <2>1. CASE p <= n - 2
    <3>1. p \in 1..(n - 2) BY <1>6, <1>9, <1>15, <2>1
    <3>2. r[p + 1] \notin {"nl", "ws"} BY <1>7, <1>9, <1>15, <3>1
    <3> QED BY <1>13, <3>2
  <2>2. CASE p > n - 2
    <3>1. p + 1 = n BY <1>6, <1>9, <1>15, <2>2
    <3>2. buf[1] = "nl" BY <1>7, <1>13, <3>1
    <3> QED BY <3>1, <3>2
  <2> QED BY <1>6, <2>1, <2>2
<1>16. ASSUME ~first_line, f > 1 PROVE p + f < n
  <2>1. ASSUME p + f = n PROVE FALSE
    <3>1. f - 1 \in 1..m /\ f - 1 \in 1..(f - 1) /\ p + (f - 1) = n - 1 BY <1>6, <1>11, <1>16, <2>1
    <3>2. buf[f - 1] = r[n - 1] BY <1>6, <3>1
    <3> QED BY <1>2, <1>7, <3>1, <3>2
  <2> QED BY <1>6, <1>11, <2>1
<1>17. n > 2 BY <1>6, <1>7
<1>18. f = 1 => buf[1] = "nl" BY <1>2
<1> QED BY <1>2, <1>4, <1>5, <1>8, <1>12, <1>14, <1>15, <1>16, <1>17, <1>18 DEF r, n, p, f, m

\* What the decoder moves stays in flight: k atoms leave the buffer for what is
\* collected, rewritten.
LEMMA LineInFlight ==
  ASSUME RequestType, Plain, InFlight, Gone < Len(Script), Current \in Seq(Atom),
         NEW k \in 0..Len(buf),
         cur' = cur \o Rewrite(SubSeq(buf, 1, k)), buf' = SubSeq(buf, k + 1, Len(buf)),
         UNCHANGED <<sent, net, forwarded, client>>
  PROVE  /\ InFlight' /\ Len(cur') = Len(cur) + k /\ Len(buf') = Len(buf) - k
         /\ Gone' = Gone /\ Script' = Script /\ Current' = Current /\ Start(Gone)' = Start(Gone)
<1> DEFINE a == Start(Gone)
           r == Current
<1>1. net \in Seq(Atom) /\ buf \in Seq(Atom) /\ cur \in Seq(Held) BY DEF RequestType
<1>2. Gone \in 0..Len(Script) /\ a \in Nat BY CurrentRequest
<1>3. Placed(r, cur, buf, net) /\ r \in Seq(Atom) BY DEF InFlight
<1>4. sent = ((a + Len(cur)) + Len(buf)) + Len(net) BY DEF InFlight
<1>5. /\ Gone' = Gone /\ Start(Gone)' = a /\ Script' = Script /\ Current' = Current
  BY DEF Gone, Start, Script, Current
<1> HIDE DEF a, r
<1>6. /\ Placed(r, cur \o Rewrite(SubSeq(buf, 1, k)), SubSeq(buf, k + 1, Len(buf)), net)
      /\ Len(cur \o Rewrite(SubSeq(buf, 1, k))) = Len(cur) + k
      /\ Len(SubSeq(buf, k + 1, Len(buf))) = Len(buf) - k
  <2>1. r \in Seq(Atom) /\ cur \in Seq(Held) /\ buf \in Seq(Atom) /\ net \in Seq(Atom)
    BY <1>1, <1>3
  <2>2. k \in 0..Len(buf) /\ Placed(r, cur, buf, net) BY <1>3
  <2> DEFINE Moved(c, b, n, i) ==
               /\ Placed(r, c \o Rewrite(SubSeq(b, 1, i)), SubSeq(b, i + 1, Len(b)), n)
               /\ Len(c \o Rewrite(SubSeq(b, 1, i))) = Len(c) + i
               /\ Len(SubSeq(b, i + 1, Len(b))) = Len(b) - i
  <2>3. \A c \in Seq(Held) : \A b, n \in Seq(Atom) : \A i \in 0..Len(b) :
          Placed(r, c, b, n) => Moved(c, b, n, i)
    BY <2>1, PlacedLine
  <2> HIDE DEF Moved
  <2>4. Moved(cur, buf, net, k) BY <2>1, <2>2, <2>3
  <2> QED BY <2>4 DEF Moved
<1>7. Placed(r, cur', buf', net) /\ Len(cur') = Len(cur) + k /\ Len(buf') = Len(buf) - k BY <1>6
<1>8. sent' = ((a + Len(cur')) + Len(buf')) + Len(net')
  <2>1. Len(cur) \in Nat /\ Len(buf) \in Nat /\ Len(net) \in Nat /\ k \in Nat BY <1>1
  <2>2. sent' = sent /\ Len(net') = Len(net) OBVIOUS
  <2> DEFINE c == Len(cur)
             b == Len(buf)
             d == Len(cur')
             e == Len(buf')
  <2>3. d = c + k /\ e = b - k /\ c \in Nat /\ b \in Nat BY <1>7, <2>1
  <2> HIDE DEF b, c, d, e
  <2>4. (a + d) + e = (a + c) + b BY <1>2, <2>1, <2>3
  <2> QED BY <1>4, <2>2, <2>4 DEF b, c, d, e
<1>9. InFlight'
  <2>1. Placed(Current, cur, buf, net)' BY <1>5, <1>7 DEF r
  <2>2. Gone' # Len(Script)' BY <1>2, <1>5
  <2>3. sent' = ((Start(Gone)' + Len(cur')) + Len(buf')) + Len(net') BY <1>5, <1>8
  <2>4. Gone' <= Len(Script)' /\ \A i \in 1..Gone' : forwarded'[i] = Rewrite(Script'[i])
    BY <1>5 DEF InFlight
  <2>5. InFlight' <=>
          /\ Gone' <= Len(Script)' /\ \A i \in 1..Gone' : forwarded'[i] = Rewrite(Script'[i])
          /\ sent' = ((Start(Gone)' + Len(cur')) + Len(buf')) + Len(net')
          /\ Gone' = Len(Script)' => sent' = Start(Gone)'
          /\ Gone' < Len(Script)' => Placed(Current, cur, buf, net)'
    BY DEF InFlight
  <2> QED BY <2>1, <2>2, <2>3, <2>4, <2>5
<1> QED BY <1>5, <1>7, <1>9 DEF a

\* A line with text: the request line or a header.
LEMMA LineWhole ==
  ASSUME RequestType, Plain, InFlight, InStep, DecodeLine
  PROVE  InFlight' /\ InStep'
<1> DEFINE k == FindCrlf
           u == SubSeq(buf, 1, k)
           n == Len(Current)
<1>1. buf \in Seq(Atom) /\ cur \in Seq(Held) BY DEF RequestType
<1>2. /\ HasLine /\ Inner /\ k > 1 /\ first_line' = FALSE
      /\ buf' = SubSeq(buf, k + 1, Len(buf)) /\ polling' = "idle"
      /\ cur' = cur \o (IF first_line THEN u ELSE Rewrite(u))
      /\ phase' = IF first_line THEN "post" ELSE phase
      /\ UNCHANGED <<sent, net, forwarded, client, eof, errored, done, headers_done, yielded_none>>
  BY DEF DecodeLine, Keep, Idle, clientVars, streamVars
<1>3. ~headers_done BY <1>2 DEF InStep, Inner
<1>4. /\ Gone < Len(Script) /\ Current \in Seq(Atom)
      /\ k \in 1..Len(buf)
      /\ first_line => cur = <<>> /\ k = 2 /\ n > 2 /\ buf[1] = "rl" /\ buf[2] = "nl"
      /\ ~first_line /\ k > 1 => Len(cur) + k < n
      /\ Current[Len(cur) + k] = "nl"
  BY <1>2, <1>3, LineOfRequest
<1>5. k \in 0..Len(buf) BY <1>4
<1>6. u \in Seq(Atom) /\ Len(u) = k /\ \A i \in 1..k : u[i] = buf[i] BY <1>1, <1>5, CutAt
<1>7. first_line => Rewrite(u) = u
  <2> HIDE DEF u, k
  <2>1. ASSUME first_line PROVE \A i \in 1..Len(u) : u[i] # "m"
    <3>1. \A i \in 1..2 : u[i] \in {"rl", "nl"} BY <1>4, <1>6, <2>1
    <3>2. Len(u) = 2 BY <1>4, <1>6, <2>1
    <3> QED BY <3>1, <3>2
  <2> QED BY <1>6, <2>1, NothingToRewrite
<1>8. cur' = cur \o Rewrite(u) BY <1>2, <1>7
<1>9. /\ InFlight' /\ Len(cur') = Len(cur) + k
      /\ Gone' = Gone /\ Script' = Script /\ Current' = Current /\ Start(Gone)' = Start(Gone)
  BY <1>2, <1>4, <1>5, <1>8, LineInFlight
<1> HIDE DEF u, k, n
<1>10. Len(cur) \in Nat /\ k \in Nat /\ k >= 1 BY <1>1, <1>4
<1>11. Len(cur) + k < n
  <2>1. CASE first_line
    <3>1. Len(cur) = 0 BY <1>4, <2>1
    <3> QED BY <1>4, <2>1, <3>1
  <2>2. CASE ~first_line BY <1>2, <1>4, <2>2
  <2> QED BY <2>1, <2>2
<1>12. AtLine'
  <2>1. Len(cur') >= 1 /\ Len(cur') < Len(Current') BY <1>9, <1>10, <1>11 DEF n
  <2>2. Current'[Len(cur')] = "nl" BY <1>4, <1>9
  <2>3. Gone' < Len(Script') BY <1>4, <1>9
  <2> QED BY <2>1, <2>2, <2>3 DEF AtLine
<1>13. phase' = "post" BY <1>2, <1>3 DEF InStep
<1>14. InStep' BY <1>2, <1>3, <1>12, <1>13 DEF InStep
<1> QED BY <1>9, <1>14

\* The empty line: nothing of the request is left behind it.
LEMMA EmptyLineWhole ==
  ASSUME RequestType, Plain, InFlight, InStep, DecodeEndOfHeaders
  PROVE  InFlight' /\ InStep'
<1> DEFINE n == Len(Current)
<1>1. buf \in Seq(Atom) /\ cur \in Seq(Held) /\ net \in Seq(Atom) BY DEF RequestType
<1>2. /\ HasLine /\ Inner /\ FindCrlf = 1 /\ polling' = "idle"
      /\ UNCHANGED <<sent, net, forwarded, client, eof, errored, first_line, yielded_none, phase>>
  BY DEF DecodeEndOfHeaders, Keep, Idle, clientVars
<1>3. ~headers_done BY <1>2 DEF InStep, Inner
<1>4. /\ Gone < Len(Script) /\ Current \in Seq(Atom) /\ Placed(Current, cur, buf, net)
      /\ 1 \in 1..Len(buf)
      /\ first_line => FindCrlf = 2
      /\ ~first_line /\ FindCrlf = 1 => Len(cur) + 1 = n /\ buf[1] = "nl"
  BY <1>2, <1>3, LineOfRequest
<1>5. ~first_line /\ Len(cur) + 1 = n /\ buf[1] = "nl"
  <2>1. ~first_line BY <1>2, <1>4
  <2> QED BY <1>2, <1>4, <2>1
<1>6. phase = "post" /\ polling = "normal" /\ ~yielded_none
  BY <1>2, <1>3, <1>5 DEF InStep, Inner
<1>7. headers_done' = TRUE /\ buf' = <<>> /\ cur' = cur \o buf
  BY <1>6 DEF DecodeEndOfHeaders, Keep
<1>8. Len(buf) = 1
  <2>1. /\ n \in Nat /\ Len(cur) \in Nat /\ Len(buf) \in Nat /\ Len(net) \in Nat
        /\ (Len(cur) + Len(buf)) + Len(net) <= n
    BY <1>1, <1>4, PlacedEnds
  <2> HIDE DEF n
  <2>2. Len(buf) >= 1 BY <1>4, <2>1
  <2> QED BY <1>5, <2>1, <2>2
<1>9. /\ SubSeq(buf, 1, 1) = buf /\ SubSeq(buf, 2, Len(buf)) = <<>> /\ Rewrite(buf) = buf
  <2>1. \A i \in 1..Len(buf) : buf[i] # "m" BY <1>5, <1>8
  <2>2. Rewrite(buf) = buf BY <1>1, <2>1, NothingToRewrite
  <2>3. SubSeq(buf, 1, 1) = buf /\ SubSeq(buf, 2, Len(buf)) = <<>> BY <1>1, <1>8
  <2> QED BY <2>2, <2>3
<1>10. 1 \in 0..Len(buf) /\ 1 + 1 = 2 BY <1>8
<1>11. /\ InFlight' /\ Len(cur') = Len(cur) + 1
       /\ Gone' = Gone /\ Script' = Script /\ Current' = Current /\ Start(Gone)' = Start(Gone)
  BY <1>2, <1>4, <1>7, <1>9, <1>10, LineInFlight
<1>12. InStep'
  BY <1>2, <1>4, <1>5, <1>6, <1>7, <1>11 DEF InStep
<1> QED BY <1>11, <1>12

\* The None of the stream: the request is forwarded, and it is whole.
LEMMA EndWhole ==
  ASSUME RequestType, Plain, InFlight, InStep, PollEnd
  PROVE  InFlight' /\ InStep'
<1> DEFINE n == Len(Current)
           a == Start(Gone)
<1>1. /\ buf \in Seq(Atom) /\ cur \in Seq(Held) /\ net \in Seq(Atom) /\ client \in Clients
      /\ forwarded \in Seq(Seq(Held))
  BY DEF RequestType
<1>2. headers_done /\ ~yielded_none /\ buf = <<>> /\ yielded_none' = TRUE BY DEF PollEnd
<1>3. phase = "post" /\ Gone < Len(Script) /\ Len(cur) = n BY <1>2 DEF InStep
<1>4. /\ forwarded' = Append(forwarded, cur) /\ cur' = <<>> /\ phase' = "busy" /\ polling' = "idle"
      /\ UNCHANGED <<sent, net, buf, client, eof, errored, done, first_line, headers_done>>
  BY <1>3 DEF PollEnd, Stop, Idle, clientVars, framedVars, codecVars
<1>5. /\ Gone \in 0..Len(Script) /\ a \in Nat
      /\ Current \in Seq(Atom) /\ Start(Gone + 1) = a + n
  BY <1>3, CurrentRequest
<1>6. Placed(Current, cur, buf, net) BY <1>3 DEF InFlight
<1>7. Len(net) = 0 /\ net = <<>>
  <2>1. /\ n \in Nat /\ Len(cur) \in Nat /\ Len(buf) \in Nat /\ Len(net) \in Nat
        /\ (Len(cur) + Len(buf)) + Len(net) <= n
    BY <1>1, <1>5, <1>6, PlacedEnds
  <2> HIDE DEF n
  <2>2. Len(net) = 0 BY <1>3, <2>1
  <2> QED BY <1>1, <2>2
<1>8. cur = Rewrite(Current) BY <1>1, <1>3, <1>5, <1>6, CollectedWhole DEF Placed
<1>9. sent = a + n
  <2>1. sent = ((a + Len(cur)) + Len(buf)) + Len(net) BY DEF InFlight
  <2>2. Len(buf) = 0 /\ n \in Nat BY <1>2, <1>5
  <2> HIDE DEF a, n
  <2> QED BY <1>3, <1>5, <1>7, <2>1, <2>2
<1>10. Gone' = Gone + 1 /\ Script' = Script
  BY <1>1, <1>4 DEF Gone, Script
<1>11. Start(Gone)' = a + n
  <2>1. Start(Gone)' = Start(Gone + 1) BY <1>10 DEF Start
  <2> QED BY <1>5, <2>1
<1>12. Gone' \in 0..Len(Script) /\ Gone' <= Len(Script')
  <2>1. Len(Script) \in Nat
    <3>1. Script \in Seq(Seq(Atom)) BY <1>1, InputType
    <3> QED BY <3>1
  <2> QED BY <1>3, <1>5, <1>10, <2>1
<1>13. \A i \in 1..Gone' : forwarded'[i] = Rewrite(Script'[i])
  <2> SUFFICES ASSUME NEW i \in 1..(Gone + 1) PROVE forwarded'[i] = Rewrite(Script[i])
    BY <1>10
  <2>1. CASE i = Gone + 1
    <3>1. forwarded'[i] = cur BY <1>1, <1>4, <2>1 DEF Gone
    <3> QED BY <1>8, <2>1, <3>1 DEF Current
  <2>2. CASE i # Gone + 1
    <3>1. i \in 1..Gone BY <1>5, <2>2
    <3>2. forwarded'[i] = forwarded[i] BY <1>1, <1>4, <3>1 DEF Gone
    <3> QED BY <3>1, <3>2 DEF InFlight
  <2> QED BY <2>1, <2>2
<1>14. Gone' < Len(Script') => Placed(Current', <<>>, <<>>, <<>>)
  <2> SUFFICES ASSUME Gone' < Len(Script') PROVE Placed(Current', <<>>, <<>>, <<>>) OBVIOUS
  <2>1. Gone' < Len(Script) => Script[Gone' + 1] \in Seq(Atom) BY <1>1, <1>12, RequestPlaces
  <2>2. Current' \in Seq(Atom) BY <1>10, <2>1 DEF Current
  <2> QED BY <2>2, NothingPlaced
<1>15. sent' = ((Start(Gone)' + Len(cur')) + Len(buf')) + Len(net')
  <2>1. sent' = Start(Gone)' BY <1>4, <1>9, <1>11
  <2>2. Len(cur') = 0 /\ Len(buf') = 0 /\ Len(net') = 0 BY <1>2, <1>4, <1>7
  <2>3. Start(Gone)' \in Nat
    <3>1. n \in Nat BY <1>5
    <3> HIDE DEF a, n
    <3> QED BY <1>5, <1>11, <3>1
  <2> QED BY <2>1, <2>2, <2>3
<1>16. InFlight'
  <2>1. Gone' < Len(Script') => Placed(Current', cur', buf', net') BY <1>2, <1>4, <1>7, <1>14
  <2>2. sent' = Start(Gone)' BY <1>4, <1>9, <1>11
  <2>3. InFlight' <=>
          /\ Gone' <= Len(Script') /\ \A i \in 1..Gone' : forwarded'[i] = Rewrite(Script'[i])
          /\ sent' = ((Start(Gone)' + Len(cur')) + Len(buf')) + Len(net')
          /\ Gone' = Len(Script') => sent' = Start(Gone)'
          /\ Gone' < Len(Script') => Placed(Current', cur', buf', net')
    BY DEF InFlight
  <2> QED BY <1>12, <1>13, <1>15, <2>1, <2>2, <2>3
<1>17. InStep'
  <2>1. sent' = Start(Gone)' BY <1>4, <1>9, <1>11
  <2> QED BY <1>2, <1>4, <2>1 DEF InStep
<1> QED BY <1>16, <1>17

\* Nothing is on its way at the start.
LEMMA WholeStarts == Init => WholeInv
<1> SUFFICES ASSUME Init, Plain PROVE InFlight /\ InStep BY DEF WholeInv
<1>1. /\ client \in Clients /\ sent = 0 /\ net = <<>> /\ buf = <<>> /\ cur = <<>> /\ forwarded = <<>>
  BY DEF Init
<1>2. Script \in Seq(Seq(Atom)) BY <1>1, InputType
<1>3. Gone = 0 /\ 0 \in 0..Len(Script) /\ Len(Script) \in Nat BY <1>1, <1>2 DEF Gone
<1>4. 0 < Len(Script) => Script[0 + 1] \in Seq(Atom) BY <1>1, <1>3, RequestPlaces
<1>5. Start(Gone) = 0
  <2>1. SubSeq(Script, 1, 0) = <<>> BY <1>2
  <2>2. FlattenSeq(SubSeq(Script, 1, Gone)) = <<>> BY <1>3, <2>1, FlattenEmpty
  <2>3. Len(<<>>) = 0 OBVIOUS
  <2> QED BY <2>2, <2>3 DEF Start
<1>6. Gone < Len(Script) => Placed(Current, cur, buf, net)
  BY <1>1, <1>3, <1>4, NothingPlaced DEF Current
<1>7. Len(cur) = 0 /\ Len(buf) = 0 /\ Len(net) = 0 BY <1>1
<1>8. sent = ((Start(Gone) + Len(cur)) + Len(buf)) + Len(net) BY <1>1, <1>5, <1>7
<1>9. \A i \in 1..Gone : forwarded[i] = Rewrite(Script[i]) BY <1>3
<1>10. InFlight BY <1>1, <1>3, <1>5, <1>6, <1>8, <1>9 DEF InFlight
<1>11. InStep BY <1>1 DEF InStep, Init
<1> QED BY <1>10, <1>11

\* Every step keeps the requests whole.
LEMMA WholeSteps ==
  ASSUME RequestInv, WholeInv, [Next]_vars
  PROVE  WholeInv'
<1> SUFFICES ASSUME Plain', ~closed' PROVE InFlight' /\ InStep' BY DEF WholeInv
<1>1. UNCHANGED client
  BY DEF Next, StreamStep, ClientStep, PollHeaders, PollEnd, PollReset, AfterError, DecodeEndOfHeaders,
         DecodeLine, DecodeFold, DecodeNothing, Read, Pending, ReadEof, NextCycle, Send, Close, clientVars, vars
<1>2. ~closed
  BY DEF Next, StreamStep, ClientStep, PollHeaders, PollEnd, PollReset, AfterError, DecodeEndOfHeaders,
         DecodeLine, DecodeFold, DecodeNothing, Read, Pending, ReadEof, NextCycle, Send, Close, clientVars, vars
<1>3. Plain BY <1>1, SameClient
<1>4. InFlight /\ InStep BY <1>2, <1>3 DEF WholeInv
<1>5. RequestType BY DEF RequestInv
<1>6. CASE PollHeaders \/ PollReset \/ Pending \/ NextCycle BY <1>4, <1>6, ControlStep
<1>7. CASE PollEnd BY <1>3, <1>4, <1>5, <1>7, EndWhole
<1>8. CASE AfterError \/ DecodeFold \/ ReadEof \/ Close
  <2>1. ~errored BY <1>4 DEF InStep
  <2>2. CASE DecodeFold
    <3>1. HasLine /\ Inner /\ ~first_line /\ buf[1] = "ws" BY <2>2 DEF DecodeFold
    <3>2. ~headers_done BY <1>4, <3>1 DEF InStep, Inner
    <3>3. buf[1] # "ws" BY <1>3, <1>4, <1>5, <3>1, <3>2, LineOfRequest
    <3> QED BY <3>1, <3>3
  <2> QED BY <1>2, <1>8, <2>1, <2>2 DEF AfterError, ReadEof, Close
<1>9. CASE DecodeNothing BY <1>4, <1>9, NothingStep
<1>10. CASE DecodeEndOfHeaders BY <1>3, <1>4, <1>5, <1>10, EmptyLineWhole
<1>11. CASE DecodeLine BY <1>3, <1>4, <1>5, <1>11, LineWhole
<1>12. ASSUME NEW n \in 1..Len(net), Read(n) PROVE InFlight' /\ InStep'
  BY <1>3, <1>4, <1>5, <1>12, ReadInFlight
<1>13. ASSUME NEW n \in 1..Len(Input), Send(n) PROVE InFlight' /\ InStep'
  BY <1>3, <1>4, <1>5, <1>13, SendInFlight
<1>14. CASE UNCHANGED vars
  <2>1. UNCHANGED <<sent, net, buf, cur, forwarded, client, eof, errored, polling, phase,
                    done, first_line, headers_done, yielded_none>>
    BY <1>14 DEF vars
  <2>2. /\ InFlight' /\ (AtLine' <=> AtLine) /\ Start(Gone)' = Start(Gone)
        /\ Gone' = Gone /\ Current' = Current /\ Script' = Script
    BY <1>4, <2>1, StillInFlight, SameClient
  <2> QED BY <1>4, <2>1, <2>2 DEF InStep
<1> QED
  BY <1>6, <1>7, <1>8, <1>9, <1>10, <1>11, <1>12, <1>13, <1>14 DEF Next, StreamStep, ClientStep

\* Whatever well-formed requests without a body a client sends one after the
\* other, and however the socket cuts them: each is forwarded whole, rewritten
\* and alone, where the stream of HttpFrameStream says None.
THEOREM RequestsComeOutWhole == Spec => []WholeWithoutBody
<1>1. Init => RequestInv /\ WholeInv BY RequestStarts, WholeStarts
<1>2. RequestInv /\ WholeInv /\ [Next]_vars => RequestInv' /\ WholeInv' BY RequestSteps, WholeSteps
<1>3. RequestInv /\ WholeInv => WholeWithoutBody
  <2> SUFFICES ASSUME RequestInv, WholeInv, Plain, ~closed, NEW i \in 1..Len(forwarded)
               PROVE  i <= Len(Script) /\ forwarded[i] = Rewrite(Script[i])
    BY DEF WholeWithoutBody, WholeRequests
  <2>1. Gone <= Len(Script) /\ \A j \in 1..Gone : forwarded[j] = Rewrite(Script[j])
    BY DEF WholeInv, InFlight
  <2>2. i \in 1..Gone /\ Gone \in Nat BY DEF Gone, RequestInv, RequestType
  <2>3. Len(Script) \in Nat
    <3>1. Script \in Seq(Seq(Atom)) BY InputType DEF RequestInv, RequestType
    <3> QED BY <3>1
  <2> QED BY <2>1, <2>2, <2>3
<1> QED BY <1>1, <1>2, <1>3, PTL DEF Spec
================================================================================
