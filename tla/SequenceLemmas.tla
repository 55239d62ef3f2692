---------------------------- MODULE SequenceLemmas ----------------------------
(***************************************************************************)
(* What FlattenSeq does when a sequence of sequences grows at its end: the *)
(* models use it for the bytes in a list of frames, requests or files; and *)
(* where a sequence is found inside another one.                           *)
(* FlattenSeq is a function defined by recursion; what it computes is      *)
(* proved by looking at the least length at which it would be wrong.       *)
(***************************************************************************)
EXTENDS Integers, Sequences, SequencesExt, SequenceTheorems, WellFoundedInduction, TLAPS

\* A set of numbers that is not empty has a least member.
LEMMA Least ==
  ASSUME NEW T \in SUBSET Nat, T # {}
  PROVE  \E m \in T : \A k \in T : m <= k
<1>1. PICK x \in T : \A y \in T : ~(<<y, x>> \in OpToRel(<, Nat))
  BY NatLessThanWellFounded, WFMin
<1>2. \A y \in T : ~(y < x)
  BY <1>1 DEF OpToRel
<1> QED BY <1>2

\* The order in which sequences are put together does not matter.
LEMMA CatAssociative ==
  ASSUME NEW S, NEW a \in Seq(S), NEW b \in Seq(S), NEW c \in Seq(S)
  PROVE  a \o (b \o c) = (a \o b) \o c
BY ConcatAssociative

\* Sequences with the same members are equal.
LEMMA SameSequence ==
  ASSUME NEW S, NEW a \in Seq(S), NEW b \in Seq(S), Len(a) = Len(b), \A i \in 1..Len(a) : a[i] = b[i]
  PROVE  a = b
OBVIOUS

\* A sequence cut in two.
LEMMA CutAt ==
  ASSUME NEW S, NEW s \in Seq(S), NEW k \in 0..Len(s)
  PROVE  /\ SubSeq(s, 1, k) \in Seq(S) /\ Len(SubSeq(s, 1, k)) = k
         /\ \A i \in 1..k : SubSeq(s, 1, k)[i] = s[i]
         /\ SubSeq(s, k + 1, Len(s)) \in Seq(S) /\ Len(SubSeq(s, k + 1, Len(s))) = Len(s) - k
         /\ \A i \in 1..(Len(s) - k) : SubSeq(s, k + 1, Len(s))[i] = s[k + i]
         /\ SubSeq(s, 1, k) \o SubSeq(s, k + 1, Len(s)) = s
<1>1. /\ SubSeq(s, 1, k) \in Seq(S) /\ Len(SubSeq(s, 1, k)) = k
      /\ \A i \in 1..k : SubSeq(s, 1, k)[i] = s[i]
  OBVIOUS
<1>2. /\ SubSeq(s, k + 1, Len(s)) \in Seq(S) /\ Len(SubSeq(s, k + 1, Len(s))) = Len(s) - k
      /\ \A i \in 1..(Len(s) - k) : SubSeq(s, k + 1, Len(s))[i] = s[k + i]
  OBVIOUS
<1>3. SubSeq(s, 1, k) \o SubSeq(s, k + 1, Len(s)) = s
  <2> DEFINE a == SubSeq(s, 1, k)
             b == SubSeq(s, k + 1, Len(s))
  <2>1. a \in Seq(S) /\ Len(a) = k /\ \A i \in 1..k : a[i] = s[i] BY <1>1
  <2>2. b \in Seq(S) /\ Len(b) = Len(s) - k /\ \A i \in 1..(Len(s) - k) : b[i] = s[k + i] BY <1>2
  <2> HIDE DEF a, b
  <2>3. a \o b \in Seq(S) /\ Len(a \o b) = Len(s) /\ \A i \in 1..Len(s) : (a \o b)[i] = s[i]
    <3>1. a \o b \in Seq(S) /\ Len(a \o b) = Len(s)
      <4>1. a \in Seq(S) /\ b \in Seq(S) BY <2>1, <2>2
      <4>2. a \o b \in Seq(S) /\ Len(a \o b) = Len(a) + Len(b) BY <4>1
      <4>3. Len(a) + Len(b) = Len(s)
        <5>1. Len(a) = k /\ Len(b) = Len(s) - k /\ Len(s) \in Nat BY <2>1, <2>2
        <5> QED BY <5>1
      <4> QED BY <4>2, <4>3
    <3>2. ASSUME NEW i \in 1..Len(s) PROVE (a \o b)[i] = s[i]
      <4>1. CASE i <= k
        <5>1. a \in Seq(S) /\ b \in Seq(S) /\ i \in 1..Len(a) BY <2>1, <2>2, <4>1
        <5>2. (a \o b)[i] = a[i] BY <5>1
        <5> QED BY <2>1, <4>1, <5>2
      <4>2. CASE i > k
        <5>1. (a \o b)[i] = b[i - k] BY <2>1, <2>2, <4>2
        <5>2. i - k \in 1..(Len(s) - k) /\ k + (i - k) = i BY <4>2
        <5> QED BY <2>2, <5>1, <5>2
      <4>3. i <= k \/ i > k OBVIOUS
      <4> QED BY <4>1, <4>2, <4>3, Zenon
    <3> QED BY <3>1, <3>2
  <2>4. a \o b = s BY <2>3, SeqEqual
  <2> QED BY <2>4 DEF a, b
<1> QED BY <1>1, <1>2, <1>3

-----------------------------------------------------------------------------
(* The function in the definition of FlattenSeq *)

\* Concatenation, under a name that can be left unexpanded.
Cat(a, b) == a \o b

\* g flattens the first n members of s.
Flattens(g, s, n) == g = [i \in 1..n |-> IF i = 1 THEN s[i] ELSE Cat(g[i - 1], s[i])]

\* The recursion, member by member.
LEMMA FlattensAt ==
  ASSUME NEW g, NEW s, NEW n \in Nat, Flattens(g, s, n)
  PROVE  /\ n >= 1 => g[1] = s[1]
         /\ \A i \in 2..n : g[i] = Cat(g[i - 1], s[i])
<1>1. \A i \in 1..n : g[i] = IF i = 1 THEN s[i] ELSE Cat(g[i - 1], s[i])
  BY DEF Flattens
<1> QED BY <1>1

\* There is such a function for n + 1 if there is one for n.
LEMMA FlattensNext ==
  ASSUME NEW s, NEW n \in Nat, \E f : Flattens(f, s, n)
  PROVE  \E f : Flattens(f, s, n + 1)
<1>1. PICK f : Flattens(f, s, n)
  OBVIOUS
<1> DEFINE g == [i \in 1..(n + 1) |-> IF i = 1 THEN s[i] ELSE Cat(f[i - 1], s[i])]
<1>2. \A i \in 1..n : g[i] = f[i]
  <2>1. \A i \in 1..n : f[i] = IF i = 1 THEN s[i] ELSE Cat(f[i - 1], s[i])
    BY <1>1 DEF Flattens
  <2> QED BY <2>1
<1>3. \A i \in 1..(n + 1) : (IF i = 1 THEN s[i] ELSE Cat(f[i - 1], s[i])) = (IF i = 1 THEN s[i] ELSE Cat(g[i - 1], s[i]))
  <2> SUFFICES ASSUME NEW i \in 1..(n + 1), i # 1 PROVE f[i - 1] = g[i - 1]
    OBVIOUS
  <2>1. i - 1 \in 1..n OBVIOUS
  <2> HIDE DEF g
  <2> QED BY <1>2, <2>1
<1>4. g = [i \in 1..(n + 1) |-> IF i = 1 THEN s[i] ELSE Cat(g[i - 1], s[i])]
  BY <1>3
<1>5. Flattens(g, s, n + 1)
  BY <1>4 DEF Flattens
<1> QED BY <1>5

\* There is one for every n.
LEMMA FlattensExists ==
  ASSUME NEW s, NEW n \in Nat
  PROVE  \E f : Flattens(f, s, n)
<1> DEFINE Bad == {k \in Nat : ~\E f : Flattens(f, s, k)}
<1> SUFFICES ASSUME Bad # {} PROVE FALSE
  OBVIOUS
<1>0. Flattens([i \in 1..0 |-> <<>>], s, 0) BY DEF Flattens
<1>1. Bad \in SUBSET Nat /\ 0 \notin Bad BY <1>0
<1>2. \A k \in Nat : k \notin Bad => k + 1 \notin Bad BY FlattensNext
<1> HIDE DEF Bad
<1>3. PICK m \in Bad : \A k \in Bad : m <= k BY <1>1, Least
<1>4. m - 1 \in Nat /\ m - 1 \notin Bad BY <1>1, <1>3
<1>5. m - 1 + 1 \notin Bad BY <1>2, <1>4
<1> QED BY <1>1, <1>3, <1>5

\* The function FlattenSeq chooses is one of them.
LEMMA FlattenSeqDef ==
  ASSUME NEW s, Len(s) \in Nat, Len(s) # 0
  PROVE  \E f : Flattens(f, s, Len(s)) /\ FlattenSeq(s) = f[Len(s)]
<1> DEFINE flatten[i \in 1..Len(s)] == IF i = 1 THEN s[i] ELSE flatten[i - 1] \o s[i]
<1>1. FlattenSeq(s) = flatten[Len(s)]
  BY DEF FlattenSeq
<1>2. flatten = CHOOSE g : g = [i \in 1..Len(s) |-> IF i = 1 THEN s[i] ELSE g[i - 1] \o s[i]]
  BY DEF flatten
<1>3. flatten = CHOOSE g : Flattens(g, s, Len(s))
  BY <1>2 DEF Flattens, Cat
<1>4. Flattens(flatten, s, Len(s))
  BY <1>3, FlattensExists
<1> QED BY <1>1, <1>4

\* Two sequences that agree on their first members are flattened alike so far.
LEMMA FlattensAlike ==
  ASSUME NEW s, NEW t, NEW n \in Nat, NEW m \in Nat, NEW f, NEW g,
         Flattens(f, s, n), Flattens(g, t, m),
         NEW k \in Nat, k >= 1, k <= n, k <= m, \A i \in 1..k : s[i] = t[i]
  PROVE  f[k] = g[k]
<1> DEFINE Bad == {i \in Nat : i \in 1..k /\ f[i] # g[i]}
<1> SUFFICES ASSUME Bad # {} PROVE FALSE
  OBVIOUS
<1>1. f[1] = g[1] BY FlattensAt
<1>2. \A i \in 2..k : f[i] = Cat(f[i - 1], s[i]) /\ g[i] = Cat(g[i - 1], s[i])
  <2>1. \A i \in 2..n : f[i] = Cat(f[i - 1], s[i]) BY FlattensAt
  <2>2. \A i \in 2..m : g[i] = Cat(g[i - 1], t[i]) BY FlattensAt
  <2> QED BY <2>1, <2>2
<1>3. Bad \in SUBSET Nat OBVIOUS
<1>4. \A i \in 2..k : i - 1 \notin Bad => i \notin Bad
  <2> SUFFICES ASSUME NEW i \in 2..k, i - 1 \notin Bad PROVE f[i] = g[i]
    OBVIOUS
  <2>1. f[i - 1] = g[i - 1] OBVIOUS
  <2> QED BY <1>2, <2>1
<1>5. \A i \in Bad : i \in 2..k BY <1>1
<1> HIDE DEF Bad
<1>6. PICK i \in Bad : \A j \in Bad : i <= j BY <1>3, Least
<1>7. i \in 2..k /\ i - 1 \notin Bad BY <1>3, <1>5, <1>6
<1> QED BY <1>4, <1>6, <1>7

-----------------------------------------------------------------------------
(* The facts the proofs use *)

\* Nothing is flattened to nothing.
LEMMA FlattenEmpty == FlattenSeq(<<>>) = <<>>
BY DEF FlattenSeq

\* A member that is added comes at the end.
LEMMA FlattenAppend ==
  ASSUME NEW S, NEW s \in Seq(Seq(S)), NEW x \in Seq(S)
  PROVE  FlattenSeq(Append(s, x)) = FlattenSeq(s) \o x
<1> DEFINE n == Len(s)
           a == Append(s, x)
<1>1. n \in Nat /\ Len(a) = n + 1 /\ a[n + 1] = x /\ \A i \in 1..n : a[i] = s[i] OBVIOUS
<1> HIDE DEF a
<1>2. PICK f : Flattens(f, a, n + 1) /\ FlattenSeq(a) = f[n + 1]
  BY <1>1, FlattenSeqDef
<1>3. CASE n = 0
  <2>1. s = <<>> BY <1>3
  <2>2. f[1] = a[1] BY <1>2, <1>3, FlattensAt
  <2> QED BY <1>1, <1>2, <1>3, <2>1, <2>2, FlattenEmpty DEF a
<1>4. CASE n # 0
  <2>1. PICK g : Flattens(g, s, n) /\ FlattenSeq(s) = g[n]
    BY <1>1, <1>4, FlattenSeqDef
  <2>2. f[n] = g[n]
    <3>1. n + 1 \in Nat /\ n >= 1 /\ n <= n + 1 /\ n <= n BY <1>1, <1>4
    <3> HIDE DEF n
    <3> QED BY <1>1, <1>2, <2>1, <3>1, FlattensAlike
  <2>3. f[n + 1] = Cat(f[n], a[n + 1])
    <3>1. \A i \in 2..(n + 1) : f[i] = Cat(f[i - 1], a[i])
      <4>1. n + 1 \in Nat BY <1>1
      <4> QED BY <1>2, <4>1, FlattensAt
    <3>2. n + 1 \in 2..(n + 1) /\ n + 1 - 1 = n BY <1>1, <1>4
    <3> QED BY <3>1, <3>2
  <2> QED BY <1>1, <1>2, <2>1, <2>2, <2>3 DEF a, Cat
<1> QED BY <1>3, <1>4

\* Flattened sequences over S are a sequence over S.
LEMMA FlattenType ==
  ASSUME NEW S, NEW s \in Seq(Seq(S))
  PROVE  FlattenSeq(s) \in Seq(S)
<1>1. CASE Len(s) = 0
  <2>1. s = <<>> BY <1>1
  <2>2. <<>> \in Seq(S) OBVIOUS
  <2> QED BY <2>1, <2>2, FlattenEmpty, Zenon
<1>2. CASE Len(s) # 0
  <2>1. Len(s) \in Nat /\ \A i \in 1..Len(s) : s[i] \in Seq(S) OBVIOUS
  <2>2. PICK f : Flattens(f, s, Len(s)) /\ FlattenSeq(s) = f[Len(s)]
    BY <1>2, <2>1, FlattenSeqDef
  <2> DEFINE Bad == {i \in Nat : i \in 1..Len(s) /\ f[i] \notin Seq(S)}
  <2>3. f[1] \in Seq(S) /\ \A i \in 2..Len(s) : f[i] = Cat(f[i - 1], s[i])
    <3>1. Len(s) >= 1 => f[1] = s[1] BY <2>1, <2>2, FlattensAt
    <3>2. 1 \in 1..Len(s) BY <1>2, <2>1
    <3>3. \A i \in 2..Len(s) : f[i] = Cat(f[i - 1], s[i]) BY <2>1, <2>2, FlattensAt
    <3> QED BY <2>1, <3>1, <3>2, <3>3
  <2>4. ASSUME Bad # {} PROVE FALSE
    <3>1. Bad \in SUBSET Nat OBVIOUS
    <3>2. \A i \in 2..Len(s) : i - 1 \notin Bad => i \notin Bad
      <4> SUFFICES ASSUME NEW i \in 2..Len(s), i - 1 \notin Bad PROVE f[i] \in Seq(S)
        OBVIOUS
      <4>1. f[i - 1] \in Seq(S) BY <2>1
      <4>2. s[i] \in Seq(S) BY <2>1
      <4>3. Cat(f[i - 1], s[i]) \in Seq(S) BY <4>1, <4>2, ConcatProperties DEF Cat
      <4> QED BY <2>3, <4>3
    <3>3. \A i \in Bad : i \in 2..Len(s) BY <2>1, <2>3
    <3> HIDE DEF Bad
    <3>4. PICK i \in Bad : \A j \in Bad : i <= j BY <2>4, <3>1, Least
    <3>5. i \in 2..Len(s) /\ i - 1 \notin Bad BY <2>1, <3>1, <3>3, <3>4
    <3> QED BY <3>2, <3>4, <3>5
  <2>5. Len(s) \in 1..Len(s) BY <1>2, <2>1
  <2> QED BY <2>1, <2>2, <2>4, <2>5
<1> QED BY <1>1, <1>2

\* What is added to the last member comes at the end too.
LEMMA FlattenExtend ==
  ASSUME NEW S, NEW s \in Seq(Seq(S)), s # <<>>, NEW x \in Seq(S)
  PROVE  FlattenSeq([s EXCEPT ![Len(s)] = @ \o x]) = FlattenSeq(s) \o x
<1> DEFINE n == Len(s)
           front == SubSeq(s, 1, n - 1)
           y == s[n]
<1>0. n \in Nat /\ n >= 1 /\ n \in 1..n OBVIOUS
<1>1. n \in Nat /\ n >= 1 /\ y \in Seq(S) /\ front \in Seq(Seq(S)) /\ Len(front) = n - 1
  <2>1. s[n] \in Seq(S) BY <1>0, ElementOfSeq
  <2>2. SubSeq(s, 1, n - 1) \in Seq(Seq(S)) /\ Len(SubSeq(s, 1, n - 1)) = n - 1
    <3>1. n - 1 \in 0..Len(s) BY <1>0
    <3> QED BY <3>1, CutAt, ZenonT(40)
  <2> QED BY <1>0, <2>1, <2>2
<1>2. \A i \in 1..(n - 1) : front[i] = s[i] BY <1>0
<1> HIDE DEF front, y
<1>3. s = Append(front, y)
  <2>1. Append(front, y) \in Seq(Seq(S)) /\ Len(Append(front, y)) = n BY <1>1
  <2>2. \A i \in 1..n : Append(front, y)[i] = s[i]
    <3> SUFFICES ASSUME NEW i \in 1..n PROVE Append(front, y)[i] = s[i]
      OBVIOUS
    <3>1. CASE i = n BY <1>1, <3>1 DEF y
    <3>2. CASE i # n
      <4>1. i \in 1..(n - 1) BY <1>1, <3>2
      <4> QED BY <1>1, <1>2, <4>1
    <3> QED BY <3>1, <3>2
  <2> QED BY <2>1, <2>2, SeqEqual
<1>4. [s EXCEPT ![n] = @ \o x] = Append(front, y \o x)
  <2> DEFINE e == [s EXCEPT ![n] = @ \o x]
             z == y \o x
  <2>0. z \in Seq(S) BY <1>1
  <2>1. e \in Seq(Seq(S)) /\ Len(e) = n BY <1>1 DEF y
  <2>2. Append(front, z) \in Seq(Seq(S)) /\ Len(Append(front, z)) = n BY <1>1, <2>0
  <2>3. \A i \in 1..n : e[i] = Append(front, z)[i]
    <3> SUFFICES ASSUME NEW i \in 1..n PROVE e[i] = Append(front, z)[i]
      OBVIOUS
    <3>1. CASE i = n BY <1>1, <2>0, <3>1 DEF y
    <3>2. CASE i # n
      <4>1. i \in 1..(n - 1) BY <1>1, <3>2
      <4> QED BY <1>1, <1>2, <2>0, <4>1
    <3> QED BY <3>1, <3>2
  <2>4. e = Append(front, z)
    <3> HIDE DEF e, z
    <3> QED BY <2>1, <2>2, <2>3, SeqEqual
  <2> QED BY <2>4
<1>5. FlattenSeq(s) = FlattenSeq(front) \o y BY <1>1, <1>3, FlattenAppend
<1>6. FlattenSeq(Append(front, y \o x)) = FlattenSeq(front) \o (y \o x)
  <2> DEFINE z == y \o x
  <2>1. z \in Seq(S) BY <1>1
  <2>2. FlattenSeq(Append(front, z)) = FlattenSeq(front) \o z
    <3> HIDE DEF z
    <3> QED BY <1>1, <2>1, FlattenAppend
  <2> QED BY <2>2
<1>7. FlattenSeq(front) \in Seq(S) BY <1>1, FlattenType
<1>8. FlattenSeq(front) \o (y \o x) = (FlattenSeq(front) \o y) \o x
  <2> DEFINE w == FlattenSeq(front)
  <2>1. w \in Seq(S) BY <1>7
  <2> HIDE DEF w
  <2>2. w \o (y \o x) = (w \o y) \o x BY <1>1, <2>1, CatAssociative, SMTT(30)
  <2> QED BY <2>2 DEF w
<1> QED BY <1>4, <1>5, <1>6, <1>8

\* A piece and the piece behind it.
LEMMA JoinPieces ==
  ASSUME NEW S, NEW s \in Seq(S), NEW k \in Nat, NEW n \in Nat, k + n <= Len(s)
  PROVE  /\ SubSeq(s, k + 1, k + n) \in Seq(S)
         /\ SubSeq(s, 1, k) \o SubSeq(s, k + 1, k + n) = SubSeq(s, 1, k + n)
<1> DEFINE a == SubSeq(s, 1, k)
           b == SubSeq(s, k + 1, k + n)
           c == SubSeq(s, 1, k + n)
<1>0. Len(s) \in Nat /\ k \in 0..Len(s) /\ k + n \in 0..Len(s) OBVIOUS
<1>1. a \in Seq(S) /\ Len(a) = k /\ \A i \in 1..k : a[i] = s[i] BY <1>0
<1>2. b \in Seq(S) /\ Len(b) = n /\ \A i \in 1..n : b[i] = s[k + i] BY <1>0
<1>3. c \in Seq(S) /\ Len(c) = k + n /\ \A i \in 1..(k + n) : c[i] = s[i] BY <1>0
<1> HIDE DEF a, b, c
<1>4. /\ a \o b \in Seq(S) /\ Len(a \o b) = Len(a) + Len(b)
      /\ \A i \in 1..(Len(a) + Len(b)) : (a \o b)[i] = IF i <= Len(a) THEN a[i] ELSE b[i - Len(a)]
  <2>1. a \in Seq(S) /\ b \in Seq(S) BY <1>1, <1>2
  <2> QED BY <2>1
<1>5. ASSUME NEW i \in 1..(k + n) PROVE (a \o b)[i] = c[i]
  <2>0. (a \o b)[i] = IF i <= k THEN a[i] ELSE b[i - k] BY <1>1, <1>2, <1>4
  <2>1. CASE i <= k
    <3>1. i \in 1..k BY <2>1
    <3> QED BY <1>1, <1>3, <2>0, <2>1, <3>1
  <2>2. CASE i > k
    <3>1. i - k \in 1..n /\ k + (i - k) = i /\ ~(i <= k) BY <2>2
    <3> QED BY <1>2, <1>3, <2>0, <3>1
  <2>3. i <= k \/ i > k OBVIOUS
  <2> QED BY <2>1, <2>2, <2>3
<1>6. a \o b = c
  <2>1. Len(a \o b) = k + n BY <1>1, <1>2, <1>4
  <2> QED BY <1>3, <1>4, <1>5, <2>1
<1> QED BY <1>2, <1>6 DEF a, b, c

\* The next member goes behind the first m.
LEMMA FrontGrows ==
  ASSUME NEW S, NEW s \in Seq(S), NEW m \in Nat, m + 1 <= Len(s)
  PROVE  SubSeq(s, 1, m + 1) = Append(SubSeq(s, 1, m), s[m + 1])
OBVIOUS

\* The first k members are flattened to the first part of the whole.
LEMMA FlattenPrefix ==
  ASSUME NEW S, NEW s \in Seq(Seq(S)), NEW k \in 0..Len(s)
  PROVE  \E rest \in Seq(S) : FlattenSeq(s) = FlattenSeq(SubSeq(s, 1, k)) \o rest
<1> DEFINE P(j) == \E rest \in Seq(S) : FlattenSeq(s) = FlattenSeq(SubSeq(s, 1, j)) \o rest
           n == Len(s)
           Bad == {d \in Nat : d <= n /\ ~P(n - d)}
<1>0. n \in Nat /\ k \in 0..n OBVIOUS
<1>1. P(n)
  <2>1. SubSeq(s, 1, n) = s OBVIOUS
  <2>2. FlattenSeq(s) \in Seq(S) BY FlattenType
  <2>3. \A f \in Seq(S) : f = f \o <<>> OBVIOUS
  <2>4. <<>> \in Seq(S) OBVIOUS
  <2> QED BY <2>1, <2>2, <2>3, <2>4
<1>2. ASSUME NEW j \in Nat, j + 1 <= n, P(j + 1) PROVE P(j)
  <2> DEFINE a == SubSeq(s, 1, j)
             x == s[j + 1]
  <2>1. a \in Seq(Seq(S)) /\ x \in Seq(S) BY <1>2
  <2>2. SubSeq(s, 1, j + 1) = Append(a, x) BY <1>2, FrontGrows
  <2> HIDE DEF a, x
  <2>3. FlattenSeq(SubSeq(s, 1, j + 1)) = FlattenSeq(a) \o x BY <2>1, <2>2, FlattenAppend
  <2>4. FlattenSeq(a) \in Seq(S) BY <2>1, FlattenType
  <2>5. PICK rest \in Seq(S) : FlattenSeq(s) = (FlattenSeq(a) \o x) \o rest BY <1>2, <2>3
  <2>6. FlattenSeq(a) \o (x \o rest) = (FlattenSeq(a) \o x) \o rest 
    <3> DEFINE f == FlattenSeq(a)
    <3> HIDE DEF f
    <3>1. f \in Seq(S) => f \o (x \o rest) = (f \o x) \o rest BY <2>1, CatAssociative
    <3> QED BY <2>4, <3>1 DEF f
  <2>7. x \o rest \in Seq(S) BY <2>1
  <2> QED BY <2>5, <2>6, <2>7 DEF a
<1> HIDE DEF P
<1>3. Bad \in SUBSET Nat /\ 0 \notin Bad BY <1>1, <1>0
<1>4. ASSUME Bad # {} PROVE FALSE
  <2>1. PICK d \in Bad : \A e \in Bad : d <= e BY <1>3, <1>4, Least
  <2>2. d \in Nat /\ d # 0 /\ d <= n /\ ~P(n - d) BY <1>3, <2>1
  <2>3. d - 1 \in Nat /\ d - 1 \notin Bad /\ d - 1 <= n
    <3> HIDE DEF Bad
    <3> QED BY <1>0, <2>1, <2>2
  <2>4. P(n - (d - 1)) BY <2>3
  <2>5. n - d \in Nat /\ n - d + 1 <= n /\ n - (d - 1) = n - d + 1 BY <1>0, <2>2
  <2>6. P(n - d) BY <1>2, <2>4, <2>5
  <2> QED BY <2>2, <2>6
<1>5. n - k \in Nat /\ n - k <= n /\ n - (n - k) = k BY <1>0
<1>6. P(k) BY <1>4, <1>5
<1> QED BY <1>6 DEF P

-----------------------------------------------------------------------------
(* Sequences inside sequences *)

\* d has the members of s behind its first j.
Holds(d, j, s) == j + Len(s) <= Len(d) /\ \A i \in 1..Len(s) : d[j + i] = s[i]

\* Two sequences make one.
LEMMA CatType ==
  ASSUME NEW S, NEW a \in Seq(S), NEW b \in Seq(S)
  PROVE  a \o b \in Seq(S) /\ Len(a \o b) = Len(a) + Len(b)
OBVIOUS

\* What holds two things one after the other holds each.
LEMMA HoldsCat ==
  ASSUME NEW S, NEW d \in Seq(S), NEW j \in Nat, NEW a \in Seq(S), NEW b \in Seq(S), Holds(d, j, a \o b)
  PROVE  Holds(d, j, a) /\ Holds(d, j + Len(a), b)
<1> DEFINE c == a \o b
           n == Len(a)
           m == Len(b)
<1>1. c \in Seq(S) /\ Len(c) = n + m /\ (\A i \in 1..n : c[i] = a[i]) /\ \A i \in 1..m : c[n + i] = b[i]
  OBVIOUS
<1>2. n \in Nat /\ m \in Nat /\ Len(d) \in Nat OBVIOUS
<1> HIDE DEF c
<1>3. j + (n + m) <= Len(d) /\ \A i \in 1..(n + m) : d[j + i] = c[i]
  <2>1. Holds(d, j, c) BY DEF c
  <2> QED BY <1>1, <2>1 DEF Holds
<1> HIDE DEF n, m
<1>4. ASSUME NEW i \in 1..n PROVE d[j + i] = a[i]
  <2>1. i \in 1..(n + m) BY <1>2
  <2> QED BY <1>1, <1>3, <2>1
<1>5. ASSUME NEW i \in 1..m PROVE d[(j + n) + i] = b[i]
  <2>1. n + i \in 1..(n + m) /\ j + (n + i) = (j + n) + i BY <1>2
  <2> QED BY <1>1, <1>3, <2>1
<1>6. j + n <= Len(d) /\ (j + n) + m <= Len(d) BY <1>2, <1>3
<1> QED BY <1>4, <1>5, <1>6 DEF Holds, n, m

\* A sequence holds itself.
LEMMA HoldsItself ==
  ASSUME NEW S, NEW d \in Seq(S)
  PROVE  Holds(d, 0, d)
<1>1. Len(d) \in Nat /\ \A i \in 1..Len(d) : 0 + i = i OBVIOUS
<1> QED BY <1>1 DEF Holds

\* Cutting it out again.
LEMMA HeldPart ==
  ASSUME NEW S, NEW d \in Seq(S), NEW j \in Nat, NEW s \in Seq(S), Holds(d, j, s)
  PROVE  SubSeq(d, j + 1, j + Len(s)) = s
<1> DEFINE n == Len(s)
           x == SubSeq(d, j + 1, j + n)
<1>1. n \in Nat /\ Len(d) \in Nat /\ j + n <= Len(d) /\ \A i \in 1..n : d[j + i] = s[i] BY DEF Holds
<1> HIDE DEF n
<1>2. x \in Seq(S) BY <1>1, JoinPieces
<1>3. j + 1 \in Nat /\ j + n \in Nat /\ j + 1 >= 1 BY <1>1
<1>4. Len(x) = n /\ \A i \in 1..n : x[i] = d[(j + 1) + i - 1] BY <1>1, <1>3
<1>5. \A i \in 1..n : (j + 1) + i - 1 = j + i BY <1>1
<1> HIDE DEF x
<1>6. \A i \in 1..n : x[i] = s[i] BY <1>1, <1>4, <1>5
<1>7. x = s BY <1>2, <1>4, <1>6, SameSequence DEF n
<1> QED BY <1>7 DEF x, n

\* What holds two things where they follow each other holds both as one.
LEMMA HoldsJoin ==
  ASSUME NEW S, NEW d \in Seq(S), NEW j \in Nat, NEW a \in Seq(S), NEW b \in Seq(S),
         Holds(d, j, a), Holds(d, j + Len(a), b)
  PROVE  Holds(d, j, a \o b)
<1> DEFINE c == a \o b
           n == Len(a)
           m == Len(b)
<1>1. c \in Seq(S) /\ Len(c) = n + m /\ (\A i \in 1..n : c[i] = a[i]) /\ \A i \in 1..m : c[n + i] = b[i]
  OBVIOUS
<1>2. n \in Nat /\ m \in Nat /\ Len(d) \in Nat OBVIOUS
<1>3. (j + n) + m <= Len(d) /\ (\A i \in 1..n : d[j + i] = a[i]) /\ \A i \in 1..m : d[(j + n) + i] = b[i]
  BY DEF Holds
<1> HIDE DEF c, n, m
<1>4. ASSUME NEW i \in 1..(n + m) PROVE d[j + i] = c[i]
  <2>1. CASE i <= n
    <3>1. i \in 1..n BY <1>2, <2>1
    <3> QED BY <1>1, <1>3, <3>1
  <2>2. CASE i > n
    <3>1. i - n \in 1..m /\ n + (i - n) = i /\ (j + n) + (i - n) = j + i BY <1>2, <2>2
    <3> QED BY <1>1, <1>3, <3>1
  <2>3. i <= n \/ i > n BY <1>2
  <2> QED BY <2>1, <2>2, <2>3
<1>5. j + (n + m) <= Len(d) BY <1>2, <1>3
<1>6. Holds(d, j, c) BY <1>1, <1>4, <1>5 DEF Holds
<1> QED BY <1>6 DEF c

\* A piece of what is held.
LEMMA HoldsPiece ==
  ASSUME NEW S, NEW d \in Seq(S), NEW j \in Nat, NEW s \in Seq(S), Holds(d, j, s),
         NEW k \in Nat, NEW n \in Nat, k + n <= Len(s)
  PROVE  /\ SubSeq(d, (j + k) + 1, (j + k) + n) \in Seq(S) /\ Len(SubSeq(d, (j + k) + 1, (j + k) + n)) = n
         /\ Holds(s, k, SubSeq(d, (j + k) + 1, (j + k) + n))
<1> DEFINE x == SubSeq(d, (j + k) + 1, (j + k) + n)
<1>1. Len(s) \in Nat /\ Len(d) \in Nat /\ j + Len(s) <= Len(d) /\ \A i \in 1..Len(s) : d[j + i] = s[i] BY DEF Holds
<1>2. (j + k) + 1 \in Nat /\ (j + k) + n \in Nat /\ (j + k) + 1 >= 1 /\ (j + k) + n <= Len(d) BY <1>1
<1>3. x \in Seq(S) BY <1>1, <1>2, JoinPieces
<1>4. Len(x) = n /\ \A i \in 1..n : x[i] = d[((j + k) + 1) + i - 1] BY <1>1, <1>2
<1> HIDE DEF x
<1>5. ASSUME NEW i \in 1..n PROVE s[k + i] = x[i]
  <2>1. k + i \in 1..Len(s) /\ ((j + k) + 1) + i - 1 = j + (k + i) BY <1>1
  <2> QED BY <1>1, <1>4, <2>1
<1>6. Holds(s, k, x) BY <1>4, <1>5 DEF Holds
<1> QED BY <1>3, <1>4, <1>6 DEF x
===============================================================================
