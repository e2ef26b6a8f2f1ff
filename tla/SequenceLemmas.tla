--------------------------- MODULE SequenceLemmas ---------------------------
(***************************************************************************)
(* Facts about the call stacks and queues of the models, and about numbers, *)
(* for the provers.                                                        *)
(***************************************************************************)
EXTENDS SequencesExt, SequenceTheorems, WellFoundedInduction, TLAPS

(* A sequence cut off after its element n. *)
LEMMA PrefixOfSeq ==
  ASSUME NEW S, NEW s, NEW n \in Int, \A i \in 1 .. n : s[i] \in S
  PROVE  /\ SubSeq(s, 1, n) \in Seq(S)
         /\ Len(SubSeq(s, 1, n)) = IF 1 <= n THEN n ELSE 0
         /\ \A i \in 1 .. n : SubSeq(s, 1, n)[i] = s[i]
OBVIOUS

(* The last element and the rest of a non-empty sequence. *)
LEMMA FrontLast ==
  ASSUME NEW S, NEW s \in Seq(S), s # << >>
  PROVE  /\ Front(s) \in Seq(S)
         /\ Last(s) \in S
         /\ Len(Front(s)) = Len(s) - 1
         /\ \A i \in 1 .. Len(s) - 1 : Front(s)[i] = s[i]
<1>1. Len(s) \in Nat \ {0} /\ \A i \in 1 .. Len(s) : s[i] \in S
  BY EmptySeq, LenProperties
<1>2. PICK n \in Nat : n = Len(s) - 1
  BY <1>1
<1>3. n \in Int /\ \A i \in 1 .. n : s[i] \in S
  BY <1>1, <1>2
<1>4. /\ SubSeq(s, 1, n) \in Seq(S)
      /\ Len(SubSeq(s, 1, n)) = IF 1 <= n THEN n ELSE 0
      /\ \A i \in 1 .. n : SubSeq(s, 1, n)[i] = s[i]
  BY <1>3, PrefixOfSeq
<1> QED BY <1>1, <1>2, <1>4 DEF Front, Last

(* An element added at the end, and the others. *)
LEMMA Appended ==
  ASSUME NEW S, NEW s \in Seq(S), NEW e \in S
  PROVE  /\ Append(s, e) \in Seq(S)
         /\ Len(Append(s, e)) = Len(s) + 1
         /\ DOMAIN Append(s, e) = 1 .. Len(s) + 1
         /\ Append(s, e)[Len(s) + 1] = e
         /\ \A i \in 1 .. Len(s) : Append(s, e)[i] = s[i]
BY AppendProperties, LenProperties

LEMMA ConcatOne ==
  ASSUME NEW S, NEW s \in Seq(S), NEW e \in S
  PROVE  s \o <<e>> = Append(s, e)
BY AppendIsConcat

LEMMA ConcatTwo ==
  ASSUME NEW S, NEW s \in Seq(S), NEW d \in S, NEW e \in S
  PROVE  s \o <<d, e>> = Append(Append(s, d), e)
<1>1. <<d>> \in Seq(S) /\ <<e>> \in Seq(S) /\ <<d>> \o <<e>> = <<d, e>>
  <2>1. <<d>> \in Seq(S) /\ Len(<<d>>) = 1 /\ <<d>>[1] = d /\ <<e>> \in Seq(S)
    OBVIOUS
  <2>2. <<d, e>> \in Seq(S) /\ Len(<<d, e>>) = 2 /\ <<d, e>>[1] = d /\ <<d, e>>[2] = e
    OBVIOUS
  <2>3. /\ Append(<<d>>, e) \in Seq(S) /\ Len(Append(<<d>>, e)) = 2
        /\ Append(<<d>>, e)[1] = d /\ Append(<<d>>, e)[2] = e
    BY <2>1, Appended
  <2>4. \A i \in 1 .. 2 : i = 1 \/ i = 2
    OBVIOUS
  <2>5. \A i \in 1 .. 2 : Append(<<d>>, e)[i] = <<d, e>>[i]
    <3> DEFINE a == Append(<<d>>, e)
               b == <<d, e>>
    <3>1. a[1] = b[1] /\ a[2] = b[2]
      BY <2>2, <2>3
    <3> HIDE DEF a, b
    <3>2. \A i \in 1 .. 2 : a[i] = b[i]
      BY <2>4, <3>1
    <3> QED BY <3>2 DEF a, b
  <2>6. Append(<<d>>, e) = <<d, e>>
    BY <2>2, <2>3, <2>5, SeqEqual
  <2> QED BY <2>1, <2>6, ConcatOne
<1>2. (s \o <<d>>) \o <<e>> = s \o (<<d>> \o <<e>>)
  BY <1>1, ConcatAssociative
<1>3. s \o <<d>> = Append(s, d) /\ Append(s, d) \in Seq(S)
  BY ConcatOne, Appended
<1>4. Append(s, d) \o <<e>> = Append(Append(s, d), e)
  BY <1>3, ConcatOne
<1> QED BY <1>1, <1>2, <1>3, <1>4

(* The last element replaced. *)
LEMMA LastReplaced ==
  ASSUME NEW S, NEW s \in Seq(S), s # << >>, NEW e \in S
  PROVE  /\ Append(Front(s), e) \in Seq(S)
         /\ Len(Append(Front(s), e)) = Len(s)
         /\ DOMAIN Append(Front(s), e) = 1 .. Len(s)
         /\ Append(Front(s), e)[Len(s)] = e
         /\ \A i \in 1 .. Len(s) - 1 : Append(Front(s), e)[i] = s[i]
<1>1. /\ Front(s) \in Seq(S)
      /\ Len(Front(s)) = Len(s) - 1
      /\ \A i \in 1 .. Len(s) - 1 : Front(s)[i] = s[i]
  BY FrontLast
<1>2. Len(s) \in Nat
  BY LenProperties
<1> QED BY <1>1, <1>2, Appended

(* The first element and the rest. *)
LEMMA HeadTail ==
  ASSUME NEW S, NEW s \in Seq(S), s # << >>
  PROVE  Head(s) \in S /\ Tail(s) \in Seq(S) /\ Len(Tail(s)) = Len(s) - 1
OBVIOUS

(* One more element at the end. *)
LEMMA AppendOne ==
  ASSUME NEW S, NEW s \in Seq(S), NEW e \in S
  PROVE  /\ Append(s, e) \in Seq(S)
         /\ Len(Append(s, e)) = Len(s) + 1
         /\ Append(s, e)[1] = IF s = << >> THEN e ELSE s[1]
OBVIOUS

-----------------------------------------------------------------------------
(* A set of numbers has a least one. *)
LEMMA LeastNumber ==
  ASSUME NEW T, T \subseteq Nat, T # {}
  PROVE  \E n \in T : \A k \in T : n <= k
<1> DEFINE Less == OpToRel(<, Nat)
<1>1. IsWellFoundedOn(Less, Nat)
  BY NatLessThanWellFounded
<1>2. \A j, k \in Nat : j < k => <<j, k>> \in Less
  BY DEF OpToRel
<1> HIDE DEF Less
<1>3. PICK n \in T : \A k \in T : <<k, n>> \notin Less
  BY <1>1, WFMin
<1>4. \A k \in T : ~ k < n
  BY <1>2, <1>3
<1> QED BY <1>4

(* A bounded set of numbers has a greatest one. *)
LEMMA GreatestNumber ==
  ASSUME NEW m \in Nat, NEW T, T \subseteq 0 .. m, T # {}
  PROVE  \E n \in T : \A k \in T : k <= n
<1> DEFINE U == {u \in 0 .. m : m - u \in T}
<1>1. PICK t \in T : t \in 0 .. m
  OBVIOUS
<1>2. m - t \in 0 .. m /\ m - (m - t) = t
  BY <1>1
<1>3. U \subseteq Nat /\ U # {}
  BY <1>1, <1>2
<1>4. PICK u \in U : \A v \in U : u <= v
  BY <1>3, LeastNumber
<1>5. ASSUME NEW k \in T PROVE k <= m - u
  <2>1. k \in 0 .. m /\ m - k \in 0 .. m /\ m - (m - k) = k
    OBVIOUS
  <2>2. u <= m - k
    BY <1>4, <2>1
  <2> QED BY <1>4, <2>1, <2>2
<1> QED BY <1>4, <1>5

-----------------------------------------------------------------------------
(* The recursive function that FlattenSeq is defined by, cut off at m: the *)
(* concatenation of the first elements.                                    *)
IsFlatten(g, ss, m) ==
  g = [i \in 1 .. m |-> IF i = 1 THEN ss[i] ELSE g[i - 1] \o ss[i]]

(* There is such a function for each length: it is built one element after *)
(* another.                                                                *)
LEMMA FlattenExists ==
  ASSUME NEW ss, NEW n \in Nat
  PROVE  \E g : IsFlatten(g, ss, n)
<1> DEFINE T == {m \in Nat : ~ \E g : IsFlatten(g, ss, m)}
<1>1. SUFFICES ASSUME T # {} PROVE FALSE
  OBVIOUS
<1>2. PICK m \in T : \A k \in T : m <= k
  BY <1>1, LeastNumber
<1>3. m \in Nat /\ ~ \E g : IsFlatten(g, ss, m)
  OBVIOUS
<1>4. CASE m = 0
  <2> DEFINE g == [i \in 1 .. 0 |-> ss[i]]
  <2>1. g = [i \in 1 .. 0 |-> IF i = 1 THEN ss[i] ELSE g[i - 1] \o ss[i]]
    OBVIOUS
  <2>2. IsFlatten(g, ss, m)
    BY <1>4, <2>1 DEF IsFlatten
  <2> QED BY <1>3, <2>2
<1>5. CASE m # 0
  <2>1. m - 1 \in Nat /\ m - 1 \notin T
    BY <1>2, <1>3, <1>5
  <2>2. PICK h : IsFlatten(h, ss, m - 1)
    BY <2>1
  <2>3. h = [i \in 1 .. m - 1 |-> IF i = 1 THEN ss[i] ELSE h[i - 1] \o ss[i]]
    BY <2>2 DEF IsFlatten
  <2> DEFINE g == [i \in 1 .. m |-> IF i = 1 THEN ss[i] ELSE h[i - 1] \o ss[i]]
  <2>4. \A i \in 1 .. m - 1 : g[i] = h[i]
    <3>1. ASSUME NEW i \in 1 .. m - 1
          PROVE  g[i] = h[i]
      <4>1. i \in 1 .. m
        BY <1>3
      <4>2. h[i] = IF i = 1 THEN ss[i] ELSE h[i - 1] \o ss[i]
        BY <2>3
      <4> QED BY <4>1, <4>2
    <3> QED BY <3>1
  <2>5. ASSUME NEW i \in 1 .. m, i # 1
        PROVE  g[i - 1] = h[i - 1]
    <3> HIDE DEF g
    <3>1. i - 1 \in 1 .. m - 1
      BY <1>3, <2>5
    <3> QED BY <2>4, <3>1
  <2>6. g = [i \in 1 .. m |-> IF i = 1 THEN ss[i] ELSE g[i - 1] \o ss[i]]
    <3> HIDE DEF g
    <3>1. g = [i \in 1 .. m |-> IF i = 1 THEN ss[i] ELSE h[i - 1] \o ss[i]]
      BY DEF g
    <3> QED BY <2>5, <3>1
  <2>7. IsFlatten(g, ss, m)
    BY <2>6 DEF IsFlatten
  <2> QED BY <1>3, <2>7
<1> QED BY <1>4, <1>5

(* What is flattened is a sequence of elements of the parts.               *)
LEMMA Flattened ==
  ASSUME NEW S, NEW n \in Nat, NEW ss, DOMAIN ss = 1 .. n, Len(ss) = n,
         ss = << >> \/ n > 0, \A i \in 1 .. n : ss[i] \in Seq(S)
  PROVE  FlattenSeq(ss) \in Seq(S)
<1>1. CASE n = 0
  BY <1>1, EmptySeq DEF FlattenSeq
<1>2. CASE n > 0
  <2> DEFINE flatten == CHOOSE g : IsFlatten(g, ss, n)
  <2>1. IsFlatten(flatten, ss, n)
    BY FlattenExists
  <2>2. FlattenSeq(ss) = flatten[n]
    BY <1>2 DEF FlattenSeq, IsFlatten
  <2> HIDE DEF flatten
  <2>3. flatten = [i \in 1 .. n |-> IF i = 1 THEN ss[i] ELSE flatten[i - 1] \o ss[i]]
    BY <2>1 DEF IsFlatten
  <2>4. \A i \in 1 .. n : flatten[i] = IF i = 1 THEN ss[i] ELSE flatten[i - 1] \o ss[i]
    BY <2>3
  <2> DEFINE T == {m \in 1 .. n : flatten[m] \notin Seq(S)}
  <2>5. ASSUME T # {} PROVE FALSE
    <3>1. T \subseteq Nat
      OBVIOUS
    <3>2. PICK m \in T : \A k \in T : m <= k
      BY <2>5, <3>1, LeastNumber
    <3>3. m \in 1 .. n /\ flatten[m] \notin Seq(S) /\ ss[m] \in Seq(S)
      OBVIOUS
    <3>4. m # 1
      BY <2>4, <3>3
    <3>5. m - 1 \in 1 .. n /\ m - 1 \notin T
      BY <3>2, <3>3, <3>4
    <3>6. flatten[m - 1] \in Seq(S)
      BY <3>5
    <3>7. flatten[m] = flatten[m - 1] \o ss[m]
      BY <2>4, <3>3, <3>4
    <3> QED BY <3>3, <3>6, <3>7, ConcatProperties
  <2> QED BY <1>2, <2>2, <2>5
<1> QED BY <1>1, <1>2

(* An element taken out. *)
LEMMA TakenOut ==
  ASSUME NEW S, NEW s \in Seq(S), NEW k \in 1 .. Len(s)
  PROVE  RemoveAt(s, k) \in Seq(S)
<1>1. Len(s) \in Nat /\ \A i \in 1 .. Len(s) : s[i] \in S
  BY LenProperties
<1>2. SubSeq(s, 1, k - 1) \in Seq(S) /\ SubSeq(s, k + 1, Len(s)) \in Seq(S)
  BY <1>1, SubSeqProperties
<1> QED BY <1>2, ConcatProperties DEF RemoveAt

(* The elements of a sequence. *)
LEMMA Elements ==
  ASSUME NEW S, NEW s \in Seq(S)
  PROVE  /\ Len(s) \in Nat /\ DOMAIN s = 1 .. Len(s)
         /\ \A i \in 1 .. Len(s) : s[i] \in S /\ s[i] \in ToSet(s)
         /\ ToSet(s) \subseteq S
         /\ \A e \in ToSet(s) : \E i \in 1 .. Len(s) : s[i] = e
         /\ s = << >> <=> Len(s) = 0
<1>1. Len(s) \in Nat /\ DOMAIN s = 1 .. Len(s) /\ \A i \in 1 .. Len(s) : s[i] \in S
  BY LenProperties
<1>2. s = << >> <=> Len(s) = 0
  BY EmptySeq
<1> QED BY <1>1, <1>2 DEF ToSet


(* A sequence is its front and its last element.                           *)
LEMMA FrontAndLast ==
  ASSUME NEW S, NEW s \in Seq(S), s # << >>
  PROVE  s = Append(Front(s), Last(s))
<1> DEFINE t == Append(Front(s), Last(s))
<1>1. /\ Front(s) \in Seq(S) /\ Last(s) \in S /\ Len(Front(s)) = Len(s) - 1
      /\ \A i \in 1 .. Len(s) - 1 : Front(s)[i] = s[i]
      /\ Len(s) \in Nat \ {0} /\ Last(s) = s[Len(s)]
  BY FrontLast, EmptySeq, LenProperties DEF Last
<1>2. /\ t \in Seq(S) /\ Len(t) = Len(Front(s)) + 1
      /\ t[Len(Front(s)) + 1] = Last(s)
      /\ \A i \in 1 .. Len(Front(s)) : t[i] = Front(s)[i]
  BY <1>1, Appended
<1> HIDE DEF t
<1>3. Len(t) = Len(s) /\ \A i \in 1 .. Len(s) : s[i] = t[i]
  BY <1>1, <1>2
<1>4. s = t
  BY <1>2, <1>3, SeqEqual
<1> QED BY <1>4 DEF t

LEMMA AppendedFront ==
  ASSUME NEW S, NEW s \in Seq(S), NEW e \in S
  PROVE  Append(s, e) # << >> /\ Front(Append(s, e)) = s /\ Last(Append(s, e)) = e
<1> DEFINE t == Append(s, e)
<1>1. /\ t \in Seq(S) /\ Len(t) = Len(s) + 1 /\ Len(s) \in Nat
      /\ t[Len(s) + 1] = e
      /\ \A i \in 1 .. Len(s) : t[i] = s[i]
  BY Appended, LenProperties
<1> HIDE DEF t
<1>2. t # << >>
  BY <1>1, EmptySeq
<1>3. /\ Front(t) \in Seq(S) /\ Len(Front(t)) = Len(s)
      /\ \A i \in 1 .. Len(s) : Front(t)[i] = t[i]
  <2>1. /\ Front(t) \in Seq(S) /\ Len(Front(t)) = Len(t) - 1
        /\ \A i \in 1 .. Len(t) - 1 : Front(t)[i] = t[i]
    BY <1>1, <1>2, FrontLast
  <2>2. Len(t) - 1 = Len(s)
    BY <1>1
  <2> QED BY <2>1, <2>2
<1>4. Front(t) = s
  BY <1>1, <1>3, SeqEqual
<1>5. Last(t) = e
  BY <1>1 DEF Last
<1> QED BY <1>2, <1>4, <1>5 DEF t
-----------------------------------------------------------------------------
(* The elements of sequences that are put together and taken apart.        *)
LEMMA ConcatElements ==
  ASSUME NEW S, NEW s \in Seq(S), NEW t \in Seq(S)
  PROVE  s \o t \in Seq(S) /\ ToSet(s \o t) = ToSet(s) \cup ToSet(t)
<1> DEFINE u == s \o t
<1>1. /\ u \in Seq(S) /\ Len(u) = Len(s) + Len(t)
      /\ \A i \in 1 .. Len(u) : u[i] = IF i <= Len(s) THEN s[i] ELSE t[i - Len(s)]
  BY ConcatProperties
<1> HIDE DEF u
<1>2. /\ Len(s) \in Nat /\ DOMAIN s = 1 .. Len(s)
      /\ Len(t) \in Nat /\ DOMAIN t = 1 .. Len(t)
      /\ Len(u) \in Nat /\ DOMAIN u = 1 .. Len(u)
  BY <1>1, LenProperties
<1>3. ASSUME NEW e \in ToSet(s)
      PROVE  e \in ToSet(u)
  <2>1. PICK i \in 1 .. Len(s) : s[i] = e
    BY <1>2 DEF ToSet
  <2>2. i \in 1 .. Len(u) /\ u[i] = e
    BY <1>1, <1>2, <2>1
  <2> QED BY <1>2, <2>2 DEF ToSet
<1>4. ASSUME NEW e \in ToSet(t)
      PROVE  e \in ToSet(u)
  <2>1. PICK i \in 1 .. Len(t) : t[i] = e
    BY <1>2 DEF ToSet
  <2>2. PICK j \in 1 .. Len(u) : j = Len(s) + i
    BY <1>1, <1>2
  <2>3. u[j] = t[j - Len(s)] /\ j - Len(s) = i
    BY <1>1, <1>2, <2>2
  <2> QED BY <1>2, <2>1, <2>2, <2>3 DEF ToSet
<1>5. ASSUME NEW e \in ToSet(u)
      PROVE  e \in ToSet(s) \cup ToSet(t)
  <2>1. PICK i \in 1 .. Len(u) : u[i] = e
    BY <1>2, <1>5 DEF ToSet
  <2>2. CASE i <= Len(s)
    <3>1. i \in 1 .. Len(s) /\ s[i] = e
      BY <1>1, <1>2, <2>1, <2>2
    <3> QED BY <1>2, <3>1 DEF ToSet
  <2>3. CASE ~ i <= Len(s)
    <3>1. PICK j \in 1 .. Len(t) : j = i - Len(s)
      BY <1>1, <1>2, <2>3
    <3>2. t[j] = e
      BY <1>1, <2>1, <2>3, <3>1
    <3> QED BY <1>2, <3>2 DEF ToSet
  <2> QED BY <2>2, <2>3
<1>6. ToSet(u) = ToSet(s) \cup ToSet(t)
  BY <1>3, <1>4, <1>5
<1> QED BY <1>1, <1>6 DEF u

LEMMA OthersTaken ==
  ASSUME NEW S, NEW s \in Seq(S), NEW k \in 1 .. Len(s)
  PROVE  ToSet(s) = ToSet(RemoveAt(s, k)) \cup {s[k]}
<1>1. Len(s) \in Nat /\ DOMAIN s = 1 .. Len(s) /\ \A i \in 1 .. Len(s) : s[i] \in S
  BY LenProperties
<1> DEFINE a == SubSeq(s, 1, k - 1)
           b == SubSeq(s, k + 1, Len(s))
<1>2. /\ a \in Seq(S) /\ Len(a) = k - 1 /\ \A i \in 1 .. k - 1 : a[i] = s[i]
      /\ b \in Seq(S) /\ Len(b) = Len(s) - k /\ \A i \in 1 .. Len(s) - k : b[i] = s[k + i]
  <2>1. a \in Seq(S) /\ Len(a) = k - 1 /\ \A i \in 1 .. k - 1 : a[i] = s[i]
    BY <1>1
  <2>2. b \in Seq(S) /\ Len(b) = Len(s) - k
    <3>1. k + 1 \in Int /\ Len(s) \in Int /\ \A i \in k + 1 .. Len(s) : s[i] \in S
      BY <1>1
    <3>2. b \in Seq(S) /\ Len(b) = IF k + 1 <= Len(s) THEN Len(s) - (k + 1) + 1 ELSE 0
      BY <3>1, SubSeqProperties
    <3>3. PICK n \in Nat : n = Len(s) /\ k \in 1 .. n
      BY <1>1
    <3> HIDE DEF b
    <3>4. b \in Seq(S) /\ Len(b) = IF k + 1 <= n THEN n - (k + 1) + 1 ELSE 0
      BY <3>2, <3>3
    <3>5. Len(b) = n - k
      BY <3>3, <3>4
    <3> QED BY <3>3, <3>4, <3>5
  <2>3. ASSUME NEW i \in 1 .. Len(s) - k
        PROVE  b[i] = s[k + i]
    BY <1>1
  <2> QED BY <2>1, <2>2, <2>3
<1>3. RemoveAt(s, k) = a \o b
  BY DEF RemoveAt
<1> HIDE DEF a, b
<1>4. ToSet(RemoveAt(s, k)) = ToSet(a) \cup ToSet(b)
  BY <1>2, <1>3, ConcatElements
<1>5. DOMAIN a = 1 .. k - 1 /\ DOMAIN b = 1 .. Len(s) - k
  BY <1>2, LenProperties
<1>6. ASSUME NEW i \in 1 .. Len(s)
      PROVE  s[i] \in ToSet(a) \cup ToSet(b) \cup {s[k]}
  <2>1. CASE i < k
    BY <1>1, <1>2, <1>5, <2>1 DEF ToSet
  <2>2. CASE i > k
    <3>1. PICK j \in 1 .. Len(s) - k : k + j = i
      <4>1. i - k \in 1 .. Len(s) - k /\ k + (i - k) = i
        BY <1>1, <2>2
      <4> QED BY <4>1
    <3> QED BY <1>2, <1>5, <3>1 DEF ToSet
  <2> QED BY <1>1, <2>1, <2>2
<1>7. ASSUME NEW e \in ToSet(a) \cup ToSet(b)
      PROVE  e \in ToSet(s)
  <2>1. CASE e \in ToSet(a)
    <3>1. PICK i \in 1 .. k - 1 : a[i] = e
      BY <1>5, <2>1 DEF ToSet
    <3>2. i \in 1 .. Len(s) /\ s[i] = e
      BY <1>1, <1>2, <3>1
    <3> QED BY <1>1, <3>2 DEF ToSet
  <2>2. CASE e \in ToSet(b)
    <3>1. PICK i \in 1 .. Len(s) - k : b[i] = e
      BY <1>5, <2>2 DEF ToSet
    <3>2. k + i \in 1 .. Len(s) /\ s[k + i] = e
      BY <1>1, <1>2, <3>1
    <3> QED BY <1>1, <3>2 DEF ToSet
  <2> QED BY <1>7, <2>1, <2>2
<1>8. s[k] \in ToSet(s)
  BY <1>1 DEF ToSet
<1>9. \A e \in ToSet(s) : \E i \in 1 .. Len(s) : s[i] = e
  BY <1>1 DEF ToSet
<1> QED BY <1>4, <1>6, <1>7, <1>8, <1>9

(* What is flattened has the elements of the parts.                        *)
LEMMA FlattenedElements ==
  ASSUME NEW S, NEW n \in Nat, NEW ss, DOMAIN ss = 1 .. n, Len(ss) = n,
         ss = << >> \/ n > 0, \A i \in 1 .. n : ss[i] \in Seq(S)
  PROVE  \A e : e \in ToSet(FlattenSeq(ss)) <=> \E i \in 1 .. n : e \in ToSet(ss[i])
<1>1. CASE n = 0
  <2>1. FlattenSeq(ss) = << >>
    BY <1>1, EmptySeq DEF FlattenSeq
  <2> QED BY <1>1, <2>1 DEF ToSet
<1>2. CASE n > 0
  <2> DEFINE flatten == CHOOSE g : IsFlatten(g, ss, n)
  <2>1. IsFlatten(flatten, ss, n)
    BY FlattenExists
  <2>2. FlattenSeq(ss) = flatten[n]
    BY <1>2 DEF FlattenSeq, IsFlatten
  <2> HIDE DEF flatten
  <2>3. flatten = [i \in 1 .. n |-> IF i = 1 THEN ss[i] ELSE flatten[i - 1] \o ss[i]]
    BY <2>1 DEF IsFlatten
  <2>4. \A i \in 1 .. n : flatten[i] = IF i = 1 THEN ss[i] ELSE flatten[i - 1] \o ss[i]
    BY <2>3
  <2> DEFINE Parts(m) == UNION {ToSet(ss[i]) : i \in 1 .. m}
             T == {m \in 1 .. n : ~ (flatten[m] \in Seq(S) /\ ToSet(flatten[m]) = Parts(m))}
  <2>5. ASSUME T # {} PROVE FALSE
    <3>1. T \subseteq Nat
      OBVIOUS
    <3>2. PICK m \in T : \A k \in T : m <= k
      BY <2>5, <3>1, LeastNumber
    <3>3. m \in 1 .. n /\ ss[m] \in Seq(S)
      OBVIOUS
    <3>4. CASE m = 1
      <4>1. flatten[m] = ss[m] /\ 1 .. m = {m}
        BY <2>4, <3>3, <3>4
      <4>2. Parts(m) = ToSet(ss[m])
        BY <4>1
      <4> QED BY <3>2, <3>3, <4>1, <4>2
    <3>5. CASE m # 1
      <4>1. m - 1 \in 1 .. n /\ m - 1 \notin T
        <5>1. m - 1 \in 1 .. n /\ ~ m <= m - 1
          BY <3>3, <3>5
        <5> HIDE DEF T
        <5> QED BY <3>2, <5>1
      <4>2. flatten[m - 1] \in Seq(S) /\ ToSet(flatten[m - 1]) = Parts(m - 1)
        BY <4>1
      <4>3. flatten[m] = flatten[m - 1] \o ss[m]
        BY <2>4, <3>3, <3>5
      <4>4. flatten[m] \in Seq(S) /\ ToSet(flatten[m]) = Parts(m - 1) \cup ToSet(ss[m])
        BY <3>3, <4>2, <4>3, ConcatElements
      <4>5. 1 .. m = (1 .. m - 1) \cup {m}
        BY <3>3
      <4>6. Parts(m) = Parts(m - 1) \cup ToSet(ss[m])
        BY <4>5
      <4> QED BY <3>2, <4>4, <4>6
    <3> QED BY <3>4, <3>5
  <2>6. n \in 1 .. n /\ n \notin T
    <3>1. n \in 1 .. n
      BY <1>2
    <3> HIDE DEF T
    <3> QED BY <2>5, <3>1
  <2> QED BY <2>2, <2>6
<1> QED BY <1>1, <1>2

-----------------------------------------------------------------------------
(* A recursive definition, F, whose value at each point depends on values  *)
(* at lower points only, is that of a function.                            *)
LooksDown(F, D, V, height, top) ==
  /\ V # {} /\ top \in Nat /\ height \in [D -> 0 .. top]
  /\ F \in [[D -> V] -> [D -> V]]
  /\ \A g, h \in [D -> V] : \A d \in D :
       (\A e \in D : height[e] < height[d] => g[e] = h[e]) => F[g][d] = F[h][d]

LEMMA FixedPoint ==
  ASSUME NEW D, NEW V, NEW top, NEW height, NEW F, LooksDown(F, D, V, height, top)
  PROVE  \E g \in [D -> V] : g = F[g]
<1>0. /\ top \in Nat /\ height \in [D -> 0 .. top] /\ F \in [[D -> V] -> [D -> V]]
      /\ \A g, h \in [D -> V] : \A d \in D :
           (\A e \in D : height[e] < height[d] => g[e] = h[e]) => F[g][d] = F[h][d]
      /\ \E v : v \in V
  BY DEF LooksDown
<1> DEFINE Fixed(g, n) == \A d \in D : height[d] < n => g[d] = F[g][d]
           T == {n \in Nat : ~ \E g \in [D -> V] : Fixed(g, n)}
<1>1. ASSUME T # {} PROVE FALSE
  <2>1. PICK m \in T : \A k \in T : m <= k
    BY <1>1, LeastNumber
  <2>2. m \in Nat /\ ~ \E g \in [D -> V] : Fixed(g, m)
    OBVIOUS
  <2>3. CASE m = 0
    <3>1. PICK v \in V : TRUE
      BY <1>0
    <3>2. [d \in D |-> v] \in [D -> V]
      BY <3>1
    <3>3. \A d \in D : ~ height[d] < 0
      BY <1>0
    <3> QED BY <2>2, <2>3, <3>2, <3>3
  <2>4. CASE m # 0
    <3>1. m - 1 \in Nat /\ m - 1 \notin T
      BY <2>1, <2>2, <2>4
    <3>2. PICK g \in [D -> V] : Fixed(g, m - 1)
      BY <3>1
    <3>3. PICK h \in [D -> V] : h = F[g]
      BY <1>0
    <3>4. ASSUME NEW d \in D, height[d] < m
          PROVE  h[d] = F[h][d]
      <4>1. ASSUME NEW e \in D, height[e] < height[d]
            PROVE  g[e] = h[e]
        <5>1. height[e] < m - 1
          <6>1. height[e] \in Nat /\ height[d] \in Nat
            BY <1>0
          <6> QED BY <2>2, <3>4, <4>1, <6>1
        <5> QED BY <3>2, <3>3, <5>1
      <4>2. F[g][d] = F[h][d]
        BY <1>0, <4>1
      <4> QED BY <3>3, <4>2
    <3> QED BY <2>2, <3>4
  <2> QED BY <2>3, <2>4
<1>2. top + 1 \in Nat /\ \A n \in Nat : \E g \in [D -> V] : Fixed(g, n)
  <2>1. \A n \in Nat : n \notin T
    BY <1>1
  <2>2. top + 1 \in Nat
    BY <1>0
  <2> HIDE DEF Fixed
  <2> QED BY <2>1, <2>2
<1>3. PICK g \in [D -> V] : Fixed(g, top + 1)
  BY <1>2
<1>4. \A d \in D : height[d] \in Nat /\ height[d] < top + 1
  BY <1>0
<1>5. F[g] \in [D -> V] /\ \A d \in D : g[d] = F[g][d]
  BY <1>0, <1>3, <1>4
<1>6. g = F[g]
  BY <1>5
<1> QED BY <1>6

=============================================================================
