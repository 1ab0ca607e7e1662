------------------------ MODULE LruRefinementProofs ------------------------
(***************************************************************************)
(* Proofs about LruRefinement: as long as no two lookups hold the lock      *)
(* together, the ring stays whole and the cache is that of Lru, for every   *)
(* set of goroutines, keys, elements and values and for every limit.        *)
(***************************************************************************)
EXTENDS LruRefinement, LruCacheProofs, SequenceTheorems

-----------------------------------------------------------------------------
(* Sequences without an element, or with one more *)

\* s without what stands at place j.
Without(s, j) == [i \in 1 .. Len(s) - 1 |-> IF i < j THEN s[i] ELSE s[i + 1]]

\* s with what stands at place j in front.
Fronted(s, j) == <<s[j]>> \o Without(s, j)

\* What is left of a sequence when one of its places is taken out.
LEMMA WithoutIs ==
  ASSUME NEW S, NEW s \in Seq(S), IsInjective(s), NEW j \in 1 .. Len(s)
  PROVE  /\ Without(s, j) \in Seq(S)
         /\ Len(Without(s, j)) = Len(s) - 1
         /\ \A i \in 1 .. Len(s) - 1 : Without(s, j)[i] = IF i < j THEN s[i] ELSE s[i + 1]
         /\ IsInjective(Without(s, j))
         /\ ToSet(Without(s, j)) = ToSet(s) \ {s[j]}
<1> DEFINE r == Without(s, j)
<1>1. Len(s) \in Nat /\ DOMAIN s = 1 .. Len(s) /\ \A i \in 1 .. Len(s) : s[i] \in S
  OBVIOUS
<1>2. /\ DOMAIN r = 1 .. Len(s) - 1
      /\ \A i \in 1 .. Len(s) - 1 : r[i] = IF i < j THEN s[i] ELSE s[i + 1]
  BY DEF Without
<1>3. r \in Seq(S) /\ Len(r) = Len(s) - 1
  <2>1. Len(s) - 1 \in Nat
    BY <1>1
  <2>2. r \in [1 .. Len(s) - 1 -> S]
    BY <1>1 DEF Without
  <2>3. r \in Seq(S)
    BY <2>1, <2>2, SeqDef
  <2>4. DOMAIN r = 1 .. Len(r) /\ Len(r) \in Nat
    BY <2>3, LenProperties
  <2> HIDE DEF r
  <2>5. Len(r) = Len(s) - 1
    BY <1>2, <2>1, <2>4
  <2>6. QED
    BY <2>3, <2>5
<1>4. IsInjective(r)
  BY <1>1, <1>2 DEF IsInjective
<1>5. ToSet(r) = ToSet(s) \ {s[j]}
  <2>1. ASSUME NEW i \in 1 .. Len(s) - 1 PROVE r[i] \in ToSet(s) \ {s[j]}
    <3>1. CASE i < j
      BY <1>1, <1>2, <3>1 DEF ToSet, IsInjective
    <3>2. CASE ~(i < j)
      BY <1>1, <1>2, <3>2 DEF ToSet, IsInjective
    <3>3. QED
      BY <3>1, <3>2
  <2>2. ASSUME NEW i \in 1 .. Len(s), i # j PROVE s[i] \in ToSet(r)
    <3>1. CASE i < j
      BY <1>1, <1>2, <3>1 DEF ToSet
    <3>2. CASE ~(i < j)
      <4>1. i - 1 \in 1 .. Len(s) - 1 /\ ~(i - 1 < j) /\ (i - 1) + 1 = i
        BY <1>1, <2>2, <3>2
      <4>2. QED
        BY <1>2, <4>1 DEF ToSet
    <3>3. QED
      BY <3>1, <3>2
  <2> HIDE DEF r
  <2>3. QED
    BY <1>1, <1>2, <2>1, <2>2 DEF ToSet
<1>6. QED
  BY <1>2, <1>3, <1>4, <1>5

\* RemoveFirst takes out the one place where the element stands, if it does.
LEMMA RemoveFirstIs ==
  ASSUME NEW S, NEW s \in Seq(S), IsInjective(s)
  PROVE  /\ \A j \in 1 .. Len(s) : RemoveFirst(s, s[j]) = Without(s, j)
         /\ \A e : e \notin ToSet(s) => RemoveFirst(s, e) = s
<1>1. Len(s) \in Nat /\ DOMAIN s = 1 .. Len(s) /\ \A i \in 1 .. Len(s) : s[i] \in S
  OBVIOUS
<1>2. ASSUME NEW j \in 1 .. Len(s) PROVE RemoveFirst(s, s[j]) = Without(s, j)
  <2>1. {i \in 1 .. Len(s) : s[i] = s[j]} = {j}
    BY <1>1 DEF IsInjective
  <2>2. SelectInSeq(s, LAMBDA v : v = s[j]) = j
    BY <2>1 DEF SelectInSeq, Min
  <2>3. RemoveFirst(s, s[j]) = SubSeq(s, 1, j - 1) \o SubSeq(s, j + 1, Len(s))
    BY <2>2 DEF RemoveFirst, RemoveAt
  <2> DEFINE a == SubSeq(s, 1, j - 1)
             b == SubSeq(s, j + 1, Len(s))
  <2>4. /\ a \in Seq(S) /\ Len(a) = j - 1
        /\ \A i \in 1 .. j - 1 : a[i] = s[i]
    <3>1. \A i \in 1 .. j - 1 : s[i] \in S
      BY <1>1
    <3>2. j - 1 \in Int /\ 1 \in Int
      OBVIOUS
    <3>3. /\ a \in Seq(S)
          /\ Len(a) = IF 1 <= j - 1 THEN (j - 1) - 1 + 1 ELSE 0
          /\ \A i \in 1 .. (j - 1) - 1 + 1 : a[i] = s[1 + i - 1]
      BY <3>1, <3>2, SubSeqProperties
    <3> HIDE DEF a
    <3>4. QED
      BY <1>1, <3>3
  <2>5. /\ b \in Seq(S) /\ Len(b) = Len(s) - j
        /\ \A i \in 1 .. Len(s) - j : b[i] = s[j + i]
    <3>1. \A i \in j + 1 .. Len(s) : s[i] \in S
      BY <1>1
    <3>2. j + 1 \in Int /\ Len(s) \in Int
      BY <1>1
    <3>3. /\ b \in Seq(S)
          /\ Len(b) = IF j + 1 <= Len(s) THEN Len(s) - (j + 1) + 1 ELSE 0
          /\ \A i \in 1 .. Len(s) - (j + 1) + 1 : b[i] = s[(j + 1) + i - 1]
      BY <3>1, <3>2, SubSeqProperties
    <3> HIDE DEF b
    <3>4. Len(b) = Len(s) - j
      <4>1. Len(b) = IF j + 1 <= Len(s) THEN Len(s) - (j + 1) + 1 ELSE 0
        BY <3>3
      <4>2. Len(s) \in Nat /\ j \in Nat /\ j <= Len(s)
        BY <1>1
      <4>3. QED
        BY <4>1, <4>2
    <3>5. ASSUME NEW i \in 1 .. Len(s) - j PROVE b[i] = s[j + i]
      <4>1. i \in 1 .. Len(s) - (j + 1) + 1 /\ (j + 1) + i - 1 = j + i
        BY <1>1
      <4>2. QED
        BY <3>3, <4>1
    <3>6. QED
      BY <3>3, <3>4, <3>5
  <2> HIDE DEF a, b
  <2>6. /\ a \o b \in Seq(S)
        /\ Len(a \o b) = Len(s) - 1
        /\ \A i \in 1 .. Len(s) - 1 : (a \o b)[i] = IF i < j THEN s[i] ELSE s[i + 1]
    <3>1. /\ a \o b \in Seq(S)
          /\ Len(a \o b) = Len(a) + Len(b)
          /\ \A i \in 1 .. Len(a) + Len(b) :
               (a \o b)[i] = IF i <= Len(a) THEN a[i] ELSE b[i - Len(a)]
      BY <2>4, <2>5, ConcatProperties
    <3>2. Len(a) + Len(b) = Len(s) - 1
      BY <1>1, <2>4, <2>5
    <3>3. ASSUME NEW i \in 1 .. Len(s) - 1
          PROVE  (a \o b)[i] = IF i < j THEN s[i] ELSE s[i + 1]
      <4>1. (a \o b)[i] = IF i <= j - 1 THEN a[i] ELSE b[i - (j - 1)]
        BY <2>4, <3>1, <3>2
      <4>2. CASE i < j
        BY <1>1, <2>4, <4>1, <4>2
      <4>3. CASE ~(i < j)
        <5>1. i - (j - 1) \in 1 .. Len(s) - j /\ j + (i - (j - 1)) = i + 1 /\ ~(i <= j - 1)
          BY <1>1, <4>3
        <5>2. b[i - (j - 1)] = s[i + 1]
          BY <2>5, <5>1
        <5>3. QED
          BY <4>1, <4>3, <5>1, <5>2
      <4>4. QED
        BY <4>2, <4>3
    <3>4. QED
      BY <3>1, <3>2, <3>3
  <2>7. a \o b = Without(s, j)
    <3>1. Without(s, j) \in Seq(S) /\ Len(Without(s, j)) = Len(s) - 1
      BY WithoutIs
    <3>2. \A i \in 1 .. Len(s) - 1 : (a \o b)[i] = Without(s, j)[i]
      BY <2>6, WithoutIs
    <3>3. QED
      BY <2>6, <3>1, <3>2, SeqEqual
  <2>8. QED
    BY <2>3, <2>7 DEF a, b
<1>3. ASSUME NEW e, e \notin ToSet(s) PROVE RemoveFirst(s, e) = s
  BY <1>1, <1>3 DEF RemoveFirst, ToSet
<1>4. QED
  BY <1>2, <1>3

\* A sequence with one more element in front.
LEMMA ConsIs ==
  ASSUME NEW S, NEW s \in Seq(S), IsInjective(s), NEW e \in S, e \notin ToSet(s)
  PROVE  /\ <<e>> \o s \in Seq(S)
         /\ Len(<<e>> \o s) = Len(s) + 1
         /\ (<<e>> \o s)[1] = e
         /\ \A i \in 1 .. Len(s) : (<<e>> \o s)[i + 1] = s[i]
         /\ IsInjective(<<e>> \o s)
         /\ ToSet(<<e>> \o s) = ToSet(s) \cup {e}
<1> DEFINE t == <<e>> \o s
<1>1. Len(s) \in Nat /\ DOMAIN s = 1 .. Len(s) /\ \A i \in 1 .. Len(s) : s[i] \in S
  OBVIOUS
<1>2. <<e>> \in Seq(S) /\ Len(<<e>>) = 1 /\ <<e>>[1] = e
  OBVIOUS
<1>3. /\ t \in Seq(S)
      /\ Len(t) = 1 + Len(s)
      /\ \A i \in 1 .. 1 + Len(s) : t[i] = IF i <= 1 THEN <<e>>[i] ELSE s[i - 1]
  <2>1. /\ t \in Seq(S)
        /\ Len(t) = Len(<<e>>) + Len(s)
        /\ \A i \in 1 .. Len(<<e>>) + Len(s) :
             t[i] = IF i <= Len(<<e>>) THEN <<e>>[i] ELSE s[i - Len(<<e>>)]
    BY <1>2, ConcatProperties
  <2> HIDE DEF t
  <2>2. QED
    BY <1>2, <2>1
<1> HIDE DEF t
<1>4. t[1] = e
  BY <1>1, <1>2, <1>3
<1>5. \A i \in 1 .. Len(s) : t[i + 1] = s[i]
  <2>1. TAKE i \in 1 .. Len(s)
  <2>2. i + 1 \in 1 .. 1 + Len(s) /\ ~(i + 1 <= 1) /\ (i + 1) - 1 = i
    BY <1>1
  <2>3. QED
    BY <1>3, <2>2
<1>6. DOMAIN t = 1 .. Len(s) + 1
  BY <1>1, <1>3, LenProperties
<1>7. \A i \in 1 .. Len(s) + 1 : i = 1 \/ (i - 1 \in 1 .. Len(s) /\ t[i] = s[i - 1])
  BY <1>1, <1>3
<1>8. IsInjective(t)
  <2>1. SUFFICES ASSUME NEW i \in 1 .. Len(s) + 1, NEW k \in 1 .. Len(s) + 1, t[i] = t[k]
                 PROVE  i = k
    BY <1>6 DEF IsInjective
  <2>2. CASE i = 1 /\ k = 1
    BY <2>2
  <2>3. CASE i = 1 /\ k # 1
    BY <1>1, <1>4, <1>7, <2>1, <2>3 DEF ToSet
  <2>4. CASE i # 1 /\ k = 1
    BY <1>1, <1>4, <1>7, <2>1, <2>4 DEF ToSet
  <2>5. CASE i # 1 /\ k # 1
    <3>1. i - 1 \in 1 .. Len(s) /\ k - 1 \in 1 .. Len(s) /\ s[i - 1] = s[k - 1]
      BY <1>7, <2>1, <2>5
    <3>2. i - 1 = k - 1
      BY <1>1, <3>1 DEF IsInjective
    <3>3. QED
      BY <3>2
  <2>6. QED
    BY <2>2, <2>3, <2>4, <2>5
<1>9. ToSet(t) = ToSet(s) \cup {e}
  <2>1. \A i \in 1 .. Len(s) + 1 : t[i] \in ToSet(s) \cup {e}
    BY <1>1, <1>4, <1>7 DEF ToSet
  <2>2. \A i \in 1 .. Len(s) : s[i] \in ToSet(t)
    <3>1. TAKE i \in 1 .. Len(s)
    <3>2. i + 1 \in 1 .. Len(s) + 1
      BY <1>1
    <3>3. QED
      BY <1>5, <1>6, <3>2 DEF ToSet
  <2>3. e \in ToSet(t)
    BY <1>1, <1>4, <1>6 DEF ToSet
  <2>4. QED
    BY <1>1, <1>6, <2>1, <2>2, <2>3 DEF ToSet
<1>10. QED
  BY <1>1, <1>3, <1>4, <1>5, <1>8, <1>9 DEF t

\* What comes to the front leaves the elements as they are.
LEMMA FrontedIs ==
  ASSUME NEW S, NEW s \in Seq(S), IsInjective(s), NEW j \in 1 .. Len(s)
  PROVE  /\ Fronted(s, j) \in Seq(S)
         /\ IsInjective(Fronted(s, j))
         /\ ToSet(Fronted(s, j)) = ToSet(s)
<1> DEFINE r == Without(s, j)
<1>1. r \in Seq(S) /\ IsInjective(r) /\ ToSet(r) = ToSet(s) \ {s[j]}
  BY WithoutIs
<1> HIDE DEF r
<1>2. s[j] \in ToSet(s)
  <2>1. DOMAIN s = 1 .. Len(s)
    OBVIOUS
  <2>2. QED
    BY <2>1 DEF ToSet
<1>3. PICK e \in S : e = s[j]
  OBVIOUS
<1>4. e \notin ToSet(r)
  BY <1>1, <1>3
<1>5. /\ <<e>> \o r \in Seq(S) /\ IsInjective(<<e>> \o r)
      /\ ToSet(<<e>> \o r) = ToSet(r) \cup {e}
  BY <1>1, <1>4, ConsIs
<1>6. Fronted(s, j) = <<e>> \o r
  BY <1>3 DEF Fronted, r
<1>7. QED
  BY <1>1, <1>2, <1>3, <1>5, <1>6

-----------------------------------------------------------------------------
(* Rings *)

\* What stands at each place of a ring: the sentinel at both ends, its elements
\* in between.
LEMMA AtIs ==
  ASSUME NEW s \in Seq(Nodes)
  PROVE  /\ Len(s) \in Nat
         /\ At(s, 0) = Root
         /\ At(s, Len(s) + 1) = Root
         /\ \A i \in 1 .. Len(s) : At(s, i) = s[i] /\ At(s, i) \in Nodes
         /\ \A i \in 0 .. Len(s) + 1 : At(s, i) \in Address
<1>1. Len(s) \in Nat /\ \A i \in 1 .. Len(s) : s[i] \in Nodes
  OBVIOUS
<1>2. 0 \notin 1 .. Len(s) /\ Len(s) + 1 \notin 1 .. Len(s)
  BY <1>1
<1>3. QED
  BY <1>1, <1>2 DEF At, Address

\* A ring does not come by the same place twice before it is closed.
LEMMA AtOnce ==
  ASSUME NEW s \in Seq(Nodes), IsInjective(s)
  PROVE  /\ \A i, k \in 0 .. Len(s) : At(s, i) = At(s, k) => i = k
         /\ \A i, k \in 1 .. Len(s) + 1 : At(s, i) = At(s, k) => i = k
<1>1. /\ \A i \in 1 .. Len(s) : At(s, i) # Root
      /\ \A i, k \in 1 .. Len(s) : At(s, i) = At(s, k) => i = k
  <2>1. DOMAIN s = 1 .. Len(s)
    OBVIOUS
  <2>2. QED
    BY <2>1, AtIs, NodesAssumption DEF IsInjective
<1>2. \A i \in 0 .. Len(s) : i = 0 \/ i \in 1 .. Len(s)
  BY AtIs
<1>3. \A i \in 1 .. Len(s) + 1 : i = Len(s) + 1 \/ i \in 1 .. Len(s)
  BY AtIs
<1>4. \A i, k \in 0 .. Len(s) : At(s, i) = At(s, k) => i = k
  BY <1>1, <1>2, AtIs
<1>5. \A i, k \in 1 .. Len(s) + 1 : At(s, i) = At(s, k) => i = k
  BY <1>1, <1>3, AtIs
<1>6. QED
  BY <1>4, <1>5

\* The places of a ring without one of its elements.
LEMMA AtOfWithout ==
  ASSUME NEW s \in Seq(Nodes), IsInjective(s), NEW j \in 1 .. Len(s)
  PROVE  /\ Without(s, j) \in Seq(Nodes)
         /\ Len(Without(s, j)) = Len(s) - 1
         /\ \A i \in 0 .. j - 1 : At(Without(s, j), i) = At(s, i)
         /\ \A i \in j .. Len(s) : At(Without(s, j), i) = At(s, i + 1)
<1> DEFINE r == Without(s, j)
<1>1. /\ r \in Seq(Nodes) /\ Len(r) = Len(s) - 1 /\ Len(s) \in Nat
      /\ \A i \in 1 .. Len(s) - 1 : r[i] = IF i < j THEN s[i] ELSE s[i + 1]
  BY WithoutIs, AtIs
<1> HIDE DEF r
<1>2. ASSUME NEW i \in 0 .. j - 1 PROVE At(r, i) = At(s, i)
  <2>1. CASE i = 0
    BY <1>1, <2>1, AtIs
  <2>2. CASE i # 0
    <3>1. i \in 1 .. Len(s) - 1 /\ i \in 1 .. Len(s) /\ i < j
      BY <1>1, <2>2
    <3>2. QED
      BY <1>1, <3>1 DEF At
  <2>3. QED
    BY <2>1, <2>2
<1>3. ASSUME NEW i \in j .. Len(s) PROVE At(r, i) = At(s, i + 1)
  <2>1. CASE i = Len(s)
    BY <1>1, <2>1 DEF At
  <2>2. CASE i # Len(s)
    <3>1. i \in 1 .. Len(s) - 1 /\ i + 1 \in 1 .. Len(s) /\ ~(i < j)
      BY <1>1, <2>2
    <3>2. QED
      BY <1>1, <3>1 DEF At
  <2>3. QED
    BY <2>1, <2>2
<1>4. QED
  BY <1>1, <1>2, <1>3 DEF r

\* The places of a ring with one more element in front.
LEMMA AtOfCons ==
  ASSUME NEW s \in Seq(Nodes), IsInjective(s), NEW e \in Nodes, e \notin ToSet(s)
  PROVE  /\ <<e>> \o s \in Seq(Nodes)
         /\ Len(<<e>> \o s) = Len(s) + 1
         /\ At(<<e>> \o s, 0) = Root
         /\ At(<<e>> \o s, 1) = e
         /\ \A i \in 1 .. Len(s) + 1 : At(<<e>> \o s, i + 1) = At(s, i)
<1> DEFINE t == <<e>> \o s
<1>1. /\ t \in Seq(Nodes) /\ Len(t) = Len(s) + 1 /\ t[1] = e /\ Len(s) \in Nat
      /\ \A i \in 1 .. Len(s) : t[i + 1] = s[i]
  BY ConsIs, AtIs
<1> HIDE DEF t
<1>2. At(t, 0) = Root /\ At(t, 1) = e
  BY <1>1 DEF At
<1>3. ASSUME NEW i \in 1 .. Len(s) + 1 PROVE At(t, i + 1) = At(s, i)
  <2>1. CASE i = Len(s) + 1
    BY <1>1, <2>1 DEF At
  <2>2. CASE i # Len(s) + 1
    <3>1. i \in 1 .. Len(s) /\ i + 1 \in 1 .. Len(s) + 1
      BY <1>1, <2>2
    <3>2. QED
      BY <1>1, <3>1 DEF At
  <2>3. QED
    BY <2>1, <2>2
<1>4. QED
  BY <1>1, <1>2, <1>3 DEF t

\* Leading past an element takes it out of what the next pointers spell.
LEMMA SkipNext ==
  ASSUME NEW s \in Seq(Nodes), IsInjective(s), NEW j \in 1 .. Len(s),
         NEW f \in [Address -> Pointer], Spells(f, s)
  PROVE  Spells([f EXCEPT ![At(s, j - 1)] = At(s, j + 1)], Without(s, j))
<1> DEFINE r == Without(s, j)
           g == [f EXCEPT ![At(s, j - 1)] = At(s, j + 1)]
<1>1. /\ Len(r) = Len(s) - 1 /\ Len(s) \in Nat
      /\ \A i \in 0 .. j - 1 : At(r, i) = At(s, i)
      /\ \A i \in j .. Len(s) : At(r, i) = At(s, i + 1)
  BY AtOfWithout, AtIs
<1>2. /\ \A i \in 0 .. Len(s) : At(s, i) \in Address
      /\ \A i, k \in 0 .. Len(s) : At(s, i) = At(s, k) => i = k
  BY AtIs, AtOnce
<1>3. /\ g[At(s, j - 1)] = At(s, j + 1)
      /\ \A i \in 0 .. Len(s) : i # j - 1 => g[At(s, i)] = At(s, i + 1)
  <2>1. j - 1 \in 0 .. Len(s)
    BY <1>1
  <2>2. \A i \in 0 .. Len(s) : f[At(s, i)] = At(s, i + 1)
    BY DEF Spells
  <2>3. QED
    BY <1>2, <2>1, <2>2
<1> HIDE DEF r, g
<1>4. SUFFICES ASSUME NEW i \in 0 .. Len(s) - 1 PROVE g[At(r, i)] = At(r, i + 1)
  BY <1>1 DEF Spells, r, g
<1>5. CASE i < j - 1
  <2>1. i \in 0 .. j - 1 /\ i + 1 \in 0 .. j - 1 /\ i \in 0 .. Len(s)
    BY <1>1, <1>5
  <2>2. QED
    BY <1>1, <1>3, <1>5, <2>1
<1>6. CASE i = j - 1
  <2>1. i \in 0 .. j - 1 /\ i + 1 \in j .. Len(s) /\ i + 1 = j
    BY <1>1, <1>6
  <2>2. QED
    BY <1>1, <1>3, <1>6, <2>1
<1>7. CASE i >= j
  <2>1. i \in j .. Len(s) /\ i + 1 \in j .. Len(s) /\ i + 1 \in 0 .. Len(s) /\ i + 1 # j - 1
    BY <1>1, <1>7
  <2>2. QED
    BY <1>1, <1>3, <2>1
<1>8. QED
  BY <1>1, <1>5, <1>6, <1>7

\* The same for the prev pointers.
LEMMA SkipPrev ==
  ASSUME NEW s \in Seq(Nodes), IsInjective(s), NEW j \in 1 .. Len(s),
         NEW f \in [Address -> Pointer], SpellsBack(f, s)
  PROVE  SpellsBack([f EXCEPT ![At(s, j + 1)] = At(s, j - 1)], Without(s, j))
<1> DEFINE r == Without(s, j)
           g == [f EXCEPT ![At(s, j + 1)] = At(s, j - 1)]
<1>1. /\ Len(r) = Len(s) - 1 /\ Len(s) \in Nat
      /\ \A i \in 0 .. j - 1 : At(r, i) = At(s, i)
      /\ \A i \in j .. Len(s) : At(r, i) = At(s, i + 1)
  BY AtOfWithout, AtIs
<1>2. /\ \A i \in 1 .. Len(s) + 1 : At(s, i) \in Address
      /\ \A i, k \in 1 .. Len(s) + 1 : At(s, i) = At(s, k) => i = k
  BY AtIs, AtOnce
<1>3. /\ g[At(s, j + 1)] = At(s, j - 1)
      /\ \A i \in 1 .. Len(s) + 1 : i # j + 1 => g[At(s, i)] = At(s, i - 1)
  <2>1. j + 1 \in 1 .. Len(s) + 1
    BY <1>1
  <2>2. \A i \in 1 .. Len(s) + 1 : f[At(s, i)] = At(s, i - 1)
    BY DEF SpellsBack
  <2>3. QED
    BY <1>2, <2>1, <2>2
<1> HIDE DEF r, g
<1>4. SUFFICES ASSUME NEW i \in 1 .. Len(s) PROVE g[At(r, i)] = At(r, i - 1)
  BY <1>1 DEF SpellsBack, r, g
<1>5. CASE i < j
  <2>1. i \in 0 .. j - 1 /\ i - 1 \in 0 .. j - 1 /\ i \in 1 .. Len(s) + 1 /\ i # j + 1
    BY <1>1, <1>5
  <2>2. QED
    BY <1>1, <1>3, <2>1
<1>6. CASE i = j
  <2>1. i \in j .. Len(s) /\ i - 1 \in 0 .. j - 1
    BY <1>1, <1>6
  <2>2. QED
    BY <1>1, <1>3, <1>6, <2>1
<1>7. CASE i > j
  <2>1. /\ i \in j .. Len(s) /\ i - 1 \in j .. Len(s)
        /\ i + 1 \in 1 .. Len(s) + 1 /\ i + 1 # j + 1 /\ (i + 1) - 1 = i /\ (i - 1) + 1 = i
    BY <1>1, <1>7
  <2>2. g[At(s, i + 1)] = At(s, i)
    BY <1>3, <2>1
  <2>3. QED
    BY <1>1, <2>1, <2>2
<1>8. QED
  BY <1>1, <1>5, <1>6, <1>7

\* The pointers of an element that is not in the ring do not matter to it.
LEMMA SpellsAside ==
  ASSUME NEW s \in Seq(Nodes), NEW e \in Nodes, e \notin ToSet(s),
         NEW f \in [Address -> Pointer], NEW x
  PROVE  /\ Spells(f, s) => Spells([f EXCEPT ![e] = x], s)
         /\ SpellsBack(f, s) => SpellsBack([f EXCEPT ![e] = x], s)
<1>1. \A i \in 0 .. Len(s) + 1 : At(s, i) \in Address /\ At(s, i) # e
  <2>1. DOMAIN s = 1 .. Len(s)
    OBVIOUS
  <2>2. e # Root
    BY NodesAssumption
  <2>3. \A i \in 0 .. Len(s) + 1 : At(s, i) # e
    BY <2>1, <2>2 DEF At, ToSet
  <2>4. QED
    BY <2>3, AtIs
<1>2. Len(s) \in Nat
  OBVIOUS
<1>3. \A i \in 0 .. Len(s) + 1 : [f EXCEPT ![e] = x][At(s, i)] = f[At(s, i)]
  BY <1>1
<1>4. QED
  BY <1>2, <1>3 DEF Spells, SpellsBack

\* An element that leads to the first one comes in front when the sentinel leads
\* to it.
LEMMA FrontNext ==
  ASSUME NEW s \in Seq(Nodes), IsInjective(s), NEW e \in Nodes, e \notin ToSet(s),
         NEW f \in [Address -> Pointer], Spells(f, s), f[e] = At(s, 1)
  PROVE  Spells([f EXCEPT ![Root] = e], <<e>> \o s)
<1> DEFINE t == <<e>> \o s
           g == [f EXCEPT ![Root] = e]
<1>1. /\ Len(t) = Len(s) + 1 /\ Len(s) \in Nat /\ At(t, 0) = Root /\ At(t, 1) = e
      /\ \A i \in 1 .. Len(s) + 1 : At(t, i + 1) = At(s, i)
  BY AtOfCons, AtIs
<1>2. /\ g[Root] = e /\ g[e] = At(s, 1)
      /\ \A i \in 1 .. Len(s) : g[At(s, i)] = At(s, i + 1)
  <2>1. Root \in Address /\ e # Root /\ \A i \in 1 .. Len(s) : At(s, i) # Root
    BY AtIs, NodesAssumption DEF Address
  <2>2. \A i \in 1 .. Len(s) : f[At(s, i)] = At(s, i + 1)
    BY <1>1 DEF Spells
  <2>3. QED
    BY <2>1, <2>2, AtIs
<1> HIDE DEF t, g
<1>3. SUFFICES ASSUME NEW i \in 0 .. Len(s) + 1 PROVE g[At(t, i)] = At(t, i + 1)
  BY <1>1 DEF Spells, t, g
<1>4. CASE i = 0
  BY <1>1, <1>2, <1>4
<1>5. CASE i = 1
  <2>1. 1 \in 1 .. Len(s) + 1
    BY <1>1
  <2>2. At(t, 1 + 1) = At(s, 1)
    BY <1>1, <2>1
  <2>3. QED
    BY <1>1, <1>2, <1>5, <2>2
<1>6. CASE i > 1
  <2>1. i - 1 \in 1 .. Len(s) /\ i - 1 \in 1 .. Len(s) + 1 /\ i \in 1 .. Len(s) + 1
        /\ (i - 1) + 1 = i
    BY <1>1, <1>6
  <2>2. At(t, i) = At(s, i - 1) /\ At(t, i + 1) = At(s, i) /\ g[At(s, i - 1)] = At(s, i)
    BY <1>1, <1>2, <2>1
  <2>3. QED
    BY <2>2
<1>7. QED
  BY <1>1, <1>4, <1>5, <1>6

\* The same for the prev pointers.
LEMMA FrontPrev ==
  ASSUME NEW s \in Seq(Nodes), IsInjective(s), NEW e \in Nodes, e \notin ToSet(s),
         NEW f \in [Address -> Pointer], SpellsBack(f, s), f[e] = Root
  PROVE  SpellsBack([f EXCEPT ![At(s, 1)] = e], <<e>> \o s)
<1> DEFINE t == <<e>> \o s
           g == [f EXCEPT ![At(s, 1)] = e]
<1>1. /\ Len(t) = Len(s) + 1 /\ Len(s) \in Nat /\ At(t, 0) = Root /\ At(t, 1) = e
      /\ \A i \in 1 .. Len(s) + 1 : At(t, i + 1) = At(s, i)
  BY AtOfCons, AtIs
<1>2. /\ g[At(s, 1)] = e /\ g[e] = Root
      /\ \A i \in 2 .. Len(s) + 1 : g[At(s, i)] = At(s, i - 1)
  <2>1. 1 \in 1 .. Len(s) + 1 /\ \A i \in 2 .. Len(s) + 1 : i \in 1 .. Len(s) + 1 /\ i # 1
    BY <1>1
  <2>2. \A i \in 1 .. Len(s) + 1 : At(s, i) \in Address /\ At(s, i) # e
    <3>1. DOMAIN s = 1 .. Len(s) /\ e # Root
      BY NodesAssumption
    <3>2. \A i \in 1 .. Len(s) + 1 : At(s, i) # e
      BY <3>1 DEF At, ToSet
    <3>3. QED
      BY <1>1, <3>2, AtIs
  <2>3. \A i \in 1 .. Len(s) + 1 : f[At(s, i)] = At(s, i - 1)
    BY DEF SpellsBack
  <2>4. \A i \in 2 .. Len(s) + 1 : At(s, i) # At(s, 1)
    BY <2>1, AtOnce
  <2>5. QED
    BY <2>1, <2>2, <2>3, <2>4
<1> HIDE DEF t, g
<1>3. SUFFICES ASSUME NEW i \in 1 .. Len(s) + 2 PROVE g[At(t, i)] = At(t, i - 1)
  BY <1>1 DEF SpellsBack, t, g
<1>4. CASE i = 1
  BY <1>1, <1>2, <1>4
<1>5. CASE i = 2
  <2>1. 1 \in 1 .. Len(s) + 1 /\ i = 1 + 1 /\ i - 1 = 1
    BY <1>1, <1>5
  <2>2. At(t, i) = At(s, 1)
    BY <1>1, <2>1
  <2>3. QED
    BY <1>1, <1>2, <2>1, <2>2
<1>6. CASE i > 2
  <2>1. /\ i - 1 \in 2 .. Len(s) + 1 /\ i - 1 \in 1 .. Len(s) + 1 /\ (i - 1) + 1 = i
        /\ (i - 1) - 1 \in 1 .. Len(s) + 1 /\ ((i - 1) - 1) + 1 = i - 1
    BY <1>1, <1>6
  <2>2. At(t, i) = At(s, i - 1) /\ At(t, i - 1) = At(s, (i - 1) - 1)
    BY <1>1, <2>1
  <2>3. g[At(s, i - 1)] = At(s, (i - 1) - 1)
    BY <1>2, <2>1
  <2>4. QED
    BY <2>2, <2>3
<1>7. QED
  BY <1>1, <1>4, <1>5, <1>6

\* Walk comes by the places of what the next pointers spell, and stays at the
\* sentinel once it is back there.
LEMMA WalkIs ==
  ASSUME NEW f, NEW s \in Seq(Nodes), Spells(f, s), Len(s) <= Cardinality(Nodes)
  PROVE  \A i \in 0 .. Cardinality(Nodes) + 1 : Walk(f)[i] = At(s, i)
<1> DEFINE N == Cardinality(Nodes)
           Way(w) == [i \in 0 .. N + 1 |->
                        IF i = 0 THEN Root
                        ELSE IF i > 1 /\ w[i - 1] = Root THEN Root ELSE f[w[i - 1]]]
<1>1. N \in Nat /\ Len(s) \in Nat
  BY FiniteNodesAssumption, FS_CardinalityType, AtIs
<1> HIDE DEF N
<1>2. ASSUME NEW i \in 1 .. N + 1
      PROVE  At(s, i) = IF i > 1 /\ At(s, i - 1) = Root THEN Root ELSE f[At(s, i - 1)]
  <2>1. CASE i - 1 \in 0 .. Len(s)
    <3>1. f[At(s, i - 1)] = At(s, i)
      BY <1>1, <2>1 DEF Spells
    <3>2. i > 1 => At(s, i - 1) # Root
      BY <1>1, <2>1, AtIs, NodesAssumption
    <3>3. QED
      BY <3>1, <3>2
  <2>2. CASE i - 1 \notin 0 .. Len(s)
    <3>1. i > 1 /\ i \notin 1 .. Len(s) /\ i - 1 \notin 1 .. Len(s)
      BY <1>1, <2>2
    <3>2. QED
      BY <3>1 DEF At
  <2>3. QED
    BY <2>1, <2>2
<1>3. \E w : w = Way(w)
  <2> DEFINE w == [i \in 0 .. N + 1 |-> At(s, i)]
  <2>1. ASSUME NEW i \in 0 .. N + 1 PROVE w[i] = Way(w)[i]
    <3>1. CASE i = 0
      BY <3>1, AtIs
    <3>2. CASE i # 0
      <4>1. i \in 1 .. N + 1 /\ i - 1 \in 0 .. N + 1
        BY <1>1, <3>2
      <4>2. QED
        BY <1>2, <3>2, <4>1
    <3>3. QED
      BY <3>1, <3>2
  <2>2. Way(w) = [i \in 0 .. N + 1 |-> Way(w)[i]]
    OBVIOUS
  <2>3. w = [i \in 0 .. N + 1 |-> w[i]]
    OBVIOUS
  <2> HIDE DEF w, Way
  <2>4. w = Way(w)
    BY <2>1, <2>2, <2>3, SMTT(20)
  <2>5. QED
    BY <2>4
<1>4. Walk(f) = Way(Walk(f))
  <2>1. Walk(f) = CHOOSE w : w = Way(w)
    BY DEF Walk, N
  <2>2. QED
    BY <1>3, <2>1
<1>5. /\ Walk(f)[0] = Root
      /\ \A i \in 1 .. N + 1 :
           Walk(f)[i] = IF i > 1 /\ Walk(f)[i - 1] = Root THEN Root ELSE f[Walk(f)[i - 1]]
  <2> DEFINE v == Walk(f)
  <2>1. v = Way(v)
    BY <1>4
  <2> HIDE DEF v
  <2>2. v[0] = Root
    <3>1. 0 \in 0 .. N + 1
      BY <1>1
    <3>2. v[0] = Way(v)[0]
      BY <2>1
    <3>3. QED
      BY <3>1, <3>2
  <2>3. ASSUME NEW i \in 1 .. N + 1
        PROVE  v[i] = IF i > 1 /\ v[i - 1] = Root THEN Root ELSE f[v[i - 1]]
    <3>1. i \in 0 .. N + 1 /\ i # 0
      BY <1>1
    <3>2. v[i] = Way(v)[i]
      BY <2>1
    <3>3. QED
      BY <3>1, <3>2
  <2>4. QED
    BY <2>2, <2>3 DEF v
<1> DEFINE Bad == {n \in 0 .. N + 1 : Walk(f)[n] # At(s, n)}
<1>6. Bad = {}
  <2>1. SUFFICES ASSUME Bad # {} PROVE FALSE
    OBVIOUS
  <2>2. PICK n \in Bad : \A m \in Bad : n <= m
    <3>1. Bad \in SUBSET Nat
      BY <1>1
    <3>2. QED
      BY <2>1, <3>1, LeastElement
  <2>3. n # 0
    BY <1>5, <2>2, AtIs
  <2>4. n \in 1 .. N + 1 /\ n - 1 \in 0 .. N + 1 /\ ~(n <= n - 1)
    BY <1>1, <2>3
  <2>5. Walk(f)[n - 1] = At(s, n - 1)
    BY <2>2, <2>4
  <2>6. Walk(f)[n] = At(s, n)
    BY <1>2, <1>5, <2>4, <2>5
  <2>7. QED
    BY <2>6
<1>7. QED
  BY <1>6 DEF N

\* RingOf is what the pointers spell.
LEMMA RingIs ==
  ASSUME NEW f, NEW s \in Seq(Nodes), IsInjective(s), Spells(f, s)
  PROVE  RingOf(f) = s
<1> DEFINE N == Cardinality(Nodes)
<1>1. N \in Nat
  BY FiniteNodesAssumption, FS_CardinalityType
<1>2. Len(s) \in Nat /\ s \in [1 .. Len(s) -> Nodes]
  BY LenProperties
<1>3. s \in Injection(1 .. Len(s), Nodes)
  BY <1>2 DEF Injection, IsInjective
<1>4. Cardinality(1 .. Len(s)) <= N
  BY <1>3, FS_Injection, FiniteNodesAssumption
<1>5. Cardinality(1 .. Len(s)) = Len(s)
  <2>1. Cardinality(1 .. Len(s)) = IF 1 > Len(s) THEN 0 ELSE Len(s) - 1 + 1
    BY <1>2, FS_Interval
  <2>2. QED
    BY <1>2, <2>1
<1>6. Len(s) \in 0 .. N
  BY <1>1, <1>2, <1>4, <1>5
<1>7. \A i \in 0 .. N + 1 : Walk(f)[i] = At(s, i)
  BY <1>1, <1>6, WalkIs
<1> DEFINE Closed(n) == Walk(f)[n + 1] = Root /\ \A j \in 1 .. n : Walk(f)[j] # Root
<1> HIDE DEF N
<1>8. Closed(Len(s))
  <2>1. Len(s) + 1 \in 0 .. N + 1 /\ \A j \in 1 .. Len(s) : j \in 0 .. N + 1
    BY <1>1, <1>2, <1>6
  <2>2. \A j \in 1 .. Len(s) : At(s, j) # Root
    BY AtIs, NodesAssumption
  <2>3. QED
    BY <1>7, <2>1, <2>2, AtIs
<1>9. ASSUME NEW n \in 0 .. N, Closed(n) PROVE n = Len(s)
  <2>1. CASE n < Len(s)
    <3>1. n + 1 \in 1 .. Len(s)
      BY <1>1, <1>2, <2>1
    <3>2. QED
      BY <1>8, <1>9, <3>1
  <2>2. CASE n > Len(s)
    <3>1. Len(s) + 1 \in 1 .. n
      BY <1>1, <1>2, <2>2
    <3>2. QED
      BY <1>8, <1>9, <3>1
  <2>3. n \in Int /\ Len(s) \in Int
    BY <1>1, <1>2
  <2>4. QED
    BY <2>1, <2>2, <2>3
<1>10. (CHOOSE n \in 0 .. N : Closed(n)) = Len(s)
  BY <1>6, <1>8, <1>9
<1> HIDE DEF Closed
<1>11. RingOf(f) = [i \in 1 .. (CHOOSE n \in 0 .. N : Closed(n)) |-> Walk(f)[i]]
  BY DEF RingOf, Closed, N
<1>12. RingOf(f) = [i \in 1 .. Len(s) |-> Walk(f)[i]]
  BY <1>10, <1>11
<1>13. \A i \in 1 .. Len(s) : Walk(f)[i] = s[i]
  <2>1. TAKE i \in 1 .. Len(s)
  <2>2. i \in 0 .. N + 1 /\ At(s, i) = s[i]
    BY <1>1, <1>6, AtIs
  <2>3. QED
    BY <1>7, <2>2
<1>14. [i \in 1 .. Len(s) |-> Walk(f)[i]] = s
  BY <1>2, <1>13
<1>15. QED
  BY <1>12, <1>14

-----------------------------------------------------------------------------
(* The invariant while no two moves race *)

\* At most one goroutine is in MoveToFront.
OneMover == \A g, h \in Goroutines : pc[g] = "move" /\ pc[h] = "move" => g = h

\* At most one goroutine holds the read side of the lock.
OneReader == \A g, h \in readers : g = h

\* What the pointers spell when the element at place j of s has i - 1 of the
\* six assignments of its move behind it, and where its own pointers lead.
Stage(s, j, i) ==
  /\ i = 1 => Spells(next, s)
  /\ i \in 2 .. 5 => Spells(next, Without(s, j))
  /\ i \in 2 .. 4 => next[s[j]] = At(s, j + 1)
  /\ i = 5 => next[s[j]] = At(Without(s, j), 1)
  /\ i = 6 => Spells(next, Fronted(s, j))
  /\ i \in 1 .. 2 => SpellsBack(prev, s)
  /\ i \in 3 .. 6 => SpellsBack(prev, Without(s, j))
  /\ i = 3 => prev[s[j]] = At(s, j - 1)
  /\ i \in 4 .. 6 => prev[s[j]] = Root

\* The list is a ring of its elements, or one that a move is rearranging.
RingInv ==
  \E s \in Seq(Nodes) :
    /\ IsInjective(s)
    /\ ToSet(s) = linked
    /\ (\A g \in Goroutines : pc[g] # "move") => Spells(next, s) /\ SpellsBack(prev, s)
    /\ \A g \in Goroutines : pc[g] = "move" =>
         \E j \in 2 .. Len(s) : s[j] = element[key[g]] /\ Stage(s, j, stmt[g])

\* The ring holds the elements of the map, and the assignment that a move is
\* about to make is that of the list as it is.
MapInv ==
  /\ linked = {element[k] : k \in Keys} \ {Nil}
  /\ \A k \in Keys : element[k] # Nil => value[k] # Nil
  /\ \A g \in Goroutines : pc[g] = "move" /\ store[g] # NoAssignment =>
       store[g] \in MoveAssignments(stmt[g], element[key[g]])
  /\ ~panicked

\* The assignments of MoveToFront, one by one.
LEMMA AssignmentIs ==
  ASSUME NEW e, NEW i, NEW a \in MoveAssignments(i, e)
  PROVE  /\ i = 1 => a = [field |-> "next", node |-> prev[e], target |-> next[e]]
         /\ i = 2 => a = [field |-> "prev", node |-> next[e], target |-> prev[e]]
         /\ i = 3 => a = [field |-> "prev", node |-> e, target |-> Root]
         /\ i = 4 => a = [field |-> "next", node |-> e, target |-> next[Root]]
         /\ i = 5 => \E n \in {prev[e], Root} : a = [field |-> "next", node |-> n, target |-> e]
         /\ i = 6 => a = [field |-> "prev", node |-> next[e], target |-> e]
BY DEF MoveAssignments

\* The store of an assignment to either field.
LEMMA AssignIs ==
  ASSUME NEW a, Assign(a)
  PROVE  /\ a.field = "next" => next' = [next EXCEPT ![a.node] = a.target] /\ prev' = prev
         /\ a.field = "prev" => prev' = [prev EXCEPT ![a.node] = a.target] /\ next' = next
BY DEF Assign

\* Each assignment of a move takes the list to its next stage, the last one to
\* the ring with the element in front.
LEMMA MoveStage ==
  ASSUME ListTypeOK, NEW s \in Seq(Nodes), IsInjective(s), NEW j \in 2 .. Len(s),
         NEW i \in 1 .. MoveLength, Stage(s, j, i),
         NEW a \in MoveAssignments(i, s[j]), Assign(a)
  PROVE  /\ i < 6 => Stage(s, j, i + 1)'
         /\ i = 6 => Spells(next', Fronted(s, j)) /\ SpellsBack(prev', Fronted(s, j))
<1> DEFINE r == Without(s, j)
           e == s[j]
<1>1. /\ next \in [Address -> Pointer] /\ prev \in [Address -> Pointer]
      /\ Address \subseteq Pointer /\ Root \in Address
  BY DEF ListTypeOK, Pointer, Address
<1>2. /\ j \in 1 .. Len(s) /\ j \in 0 .. Len(s) /\ j - 1 \in 0 .. Len(s)
      /\ j \in 1 .. Len(s) + 1 /\ j + 1 \in 1 .. Len(s) + 1 /\ j - 1 # j /\ j + 1 # j
      /\ j - 1 \in 0 .. Len(s) + 1 /\ j + 1 \in 0 .. Len(s) + 1
  BY AtIs
<1>3. e = At(s, j) /\ e \in Nodes /\ e \in Address /\ e # Root
  BY <1>2, AtIs, NodesAssumption DEF Address
<1>4. /\ At(s, j - 1) \in Address /\ At(s, j + 1) \in Address
      /\ At(s, j - 1) # e /\ At(s, j + 1) # e
  BY <1>2, <1>3, AtIs, AtOnce
<1>5. r \in Seq(Nodes) /\ IsInjective(r) /\ e \notin ToSet(r) /\ Len(r) \in Nat
  BY <1>2, WithoutIs, LenProperties
<1>6. i \in {1, 2, 3, 4, 5, 6}
  BY DEF MoveLength
<1> DEFINE t == <<e>> \o r
<1>0. Fronted(s, j) = t
  BY DEF Fronted
<1> HIDE DEF t
<1>7. CASE i = 1
  <2>1. Spells(next, s) /\ SpellsBack(prev, s)
    BY <1>7 DEF Stage
  <2>2. next[e] = At(s, j + 1) /\ prev[e] = At(s, j - 1)
    BY <1>2, <1>3, <2>1 DEF Spells, SpellsBack
  <2>3. next' = [next EXCEPT ![At(s, j - 1)] = At(s, j + 1)] /\ prev' = prev
    BY <1>7, <2>2, AssignmentIs, AssignIs
  <2>4. Spells(next', r)
    BY <1>1, <1>2, <2>1, <2>3, SkipNext
  <2>5. next'[e] = At(s, j + 1)
    BY <1>1, <1>3, <1>4, <2>2, <2>3
  <2>6. SpellsBack(prev', s)
    BY <2>1, <2>3
  <2>7. QED
    BY <1>7, <2>4, <2>5, <2>6 DEF Stage
<1>8. CASE i = 2
  <2>1. Spells(next, r) /\ next[e] = At(s, j + 1) /\ SpellsBack(prev, s)
    BY <1>8 DEF Stage
  <2>2. prev[e] = At(s, j - 1)
    BY <1>2, <1>3, <2>1 DEF SpellsBack
  <2>3. prev' = [prev EXCEPT ![At(s, j + 1)] = At(s, j - 1)] /\ next' = next
    BY <1>8, <2>1, <2>2, AssignmentIs, AssignIs
  <2>4. SpellsBack(prev', r)
    BY <1>1, <1>2, <2>1, <2>3, SkipPrev
  <2>5. prev'[e] = At(s, j - 1)
    BY <1>1, <1>3, <1>4, <2>2, <2>3
  <2>6. Spells(next', r) /\ next'[e] = At(s, j + 1)
    BY <2>1, <2>3
  <2>7. QED
    BY <1>8, <2>4, <2>5, <2>6 DEF Stage
<1>9. CASE i = 3
  <2>1. Spells(next, r) /\ next[e] = At(s, j + 1) /\ SpellsBack(prev, r)
    BY <1>9 DEF Stage
  <2>2. prev' = [prev EXCEPT ![e] = Root] /\ next' = next
    BY <1>9, AssignmentIs, AssignIs
  <2>3. SpellsBack(prev', r)
    BY <1>1, <1>3, <1>5, <2>1, <2>2, SpellsAside
  <2>4. prev'[e] = Root
    BY <1>1, <1>3, <2>2
  <2>5. Spells(next', r) /\ next'[e] = At(s, j + 1)
    BY <2>1, <2>2
  <2>6. QED
    BY <1>9, <2>3, <2>4, <2>5 DEF Stage
<1>10. CASE i = 4
  <2>1. Spells(next, r) /\ SpellsBack(prev, r) /\ prev[e] = Root
    BY <1>10 DEF Stage
  <2>2. next[Root] = At(r, 1)
    <3>1. 0 \in 0 .. Len(r)
      BY <1>5
    <3>2. next[At(r, 0)] = At(r, 0 + 1)
      BY <2>1, <3>1 DEF Spells
    <3>3. QED
      BY <1>5, <3>2, AtIs
  <2>3. next' = [next EXCEPT ![e] = At(r, 1)] /\ prev' = prev
    BY <1>10, <2>2, AssignmentIs, AssignIs
  <2>4. Spells(next', r)
    BY <1>1, <1>3, <1>5, <2>1, <2>3, SpellsAside
  <2>5. next'[e] = At(r, 1)
    BY <1>1, <1>3, <2>3
  <2>6. SpellsBack(prev', r) /\ prev'[e] = Root
    BY <2>1, <2>3
  <2>7. QED
    BY <1>10, <2>4, <2>5, <2>6 DEF Stage
<1>11. CASE i = 5
  <2>1. Spells(next, r) /\ next[e] = At(r, 1) /\ SpellsBack(prev, r) /\ prev[e] = Root
    BY <1>11 DEF Stage
  <2>2. next' = [next EXCEPT ![Root] = e] /\ prev' = prev
    BY <1>11, <2>1, AssignmentIs, AssignIs
  <2>3. Spells(next', t)
    BY <1>1, <1>3, <1>5, <2>1, <2>2, FrontNext DEF t
  <2>4. SpellsBack(prev', r) /\ prev'[e] = Root
    BY <2>1, <2>2
  <2>5. QED
    BY <1>0, <1>11, <2>3, <2>4 DEF Stage
<1>12. CASE i = 6
  <2>1. Spells(next, t) /\ SpellsBack(prev, r) /\ prev[e] = Root
    BY <1>0, <1>12 DEF Stage
  <2>2. next[e] = At(r, 1)
    <3>1. Len(t) = Len(r) + 1 /\ At(t, 1) = e /\ At(t, 1 + 1) = At(r, 1)
      <4>1. 1 \in 1 .. Len(r) + 1
        BY <1>5
      <4>2. QED
        BY <1>3, <1>5, <4>1, AtOfCons DEF t
    <3>2. 1 \in 0 .. Len(t) /\ Spells(next, t)
      BY <1>5, <2>1, <3>1
    <3>3. QED
      BY <3>1, <3>2 DEF Spells
  <2>3. prev' = [prev EXCEPT ![At(r, 1)] = e] /\ next' = next
    BY <1>12, <2>2, AssignmentIs, AssignIs
  <2>4. SpellsBack(prev', t)
    BY <1>1, <1>3, <1>5, <2>1, <2>3, FrontPrev DEF t
  <2>5. Spells(next', t)
    BY <2>1, <2>3
  <2>6. QED
    BY <1>0, <1>12, <2>4, <2>5
<1>13. QED
  BY <1>6, <1>7, <1>8, <1>9, <1>10, <1>11, <1>12

\* PushFront puts a new element in front.
LEMMA PushRing ==
  ASSUME ListTypeOK, NEW s \in Seq(Nodes), IsInjective(s), NEW n \in Nodes, n \notin ToSet(s),
         Spells(next, s), SpellsBack(prev, s), PushFront(n)
  PROVE  Spells(next', <<n>> \o s) /\ SpellsBack(prev', <<n>> \o s)
<1>1. /\ next \in [Address -> Pointer] /\ prev \in [Address -> Pointer]
      /\ Address \subseteq Pointer /\ Root \in Address /\ n \in Address /\ n # Root
  BY NodesAssumption DEF ListTypeOK, Pointer, Address
<1>2. next[Root] = At(s, 1) /\ At(s, 1) \in Address
  <2>1. 0 \in 0 .. Len(s) /\ 1 \in 0 .. Len(s) + 1
    BY AtIs
  <2>2. next[At(s, 0)] = At(s, 0 + 1)
    BY <2>1 DEF Spells
  <2>3. QED
    BY <2>1, <2>2, AtIs
<1>3. Spells(next', <<n>> \o s)
  <2> DEFINE f == [next EXCEPT ![n] = At(s, 1)]
  <2>1. f \in [Address -> Pointer] /\ f[n] = At(s, 1) /\ Spells(f, s)
    BY <1>1, <1>2, SpellsAside
  <2>2. next' = [f EXCEPT ![Root] = n]
    BY <1>1, <1>2 DEF PushFront
  <2> HIDE DEF f
  <2>3. QED
    BY <2>1, <2>2, FrontNext
<1>4. SpellsBack(prev', <<n>> \o s)
  <2> DEFINE f == [prev EXCEPT ![n] = Root]
  <2>1. f \in [Address -> Pointer] /\ f[n] = Root /\ SpellsBack(f, s)
    BY <1>1, SpellsAside
  <2>2. prev' = [f EXCEPT ![At(s, 1)] = n]
    BY <1>1, <1>2 DEF PushFront
  <2> HIDE DEF f
  <2>3. QED
    BY <2>1, <2>2, FrontPrev
<1>5. QED
  BY <1>3, <1>4

\* list.Remove takes an element out.
LEMMA UnlinkRing ==
  ASSUME ListTypeOK, NEW s \in Seq(Nodes), IsInjective(s), NEW j \in 1 .. Len(s),
         Spells(next, s), SpellsBack(prev, s), s[j] \in linked, Unlink(s[j])
  PROVE  Spells(next', Without(s, j)) /\ SpellsBack(prev', Without(s, j))
<1> DEFINE r == Without(s, j)
           e == s[j]
<1>1. /\ next \in [Address -> Pointer] /\ prev \in [Address -> Pointer]
      /\ Address \subseteq Pointer /\ Nil \in Pointer
  BY DEF ListTypeOK, Pointer, Address
<1>2. /\ j \in 0 .. Len(s) /\ j - 1 \in 0 .. Len(s) + 1 /\ j \in 1 .. Len(s) + 1
      /\ j + 1 \in 0 .. Len(s) + 1
  BY AtIs
<1>3. e = At(s, j) /\ e \in Nodes /\ e \in Address
  BY AtIs DEF Address
<1>4. At(s, j - 1) \in Address /\ At(s, j + 1) \in Address
  BY <1>2, AtIs
<1>5. next[e] = At(s, j + 1) /\ prev[e] = At(s, j - 1)
  BY <1>2, <1>3 DEF Spells, SpellsBack
<1>6. r \in Seq(Nodes) /\ e \notin ToSet(r)
  BY WithoutIs
<1>7. Spells(next', r)
  <2> DEFINE f == [next EXCEPT ![At(s, j - 1)] = At(s, j + 1)]
  <2>1. f \in [Address -> Pointer] /\ Spells(f, r)
    BY <1>1, <1>4, SkipNext
  <2>2. next' = [f EXCEPT ![e] = Nil]
    BY <1>5 DEF Unlink
  <2> HIDE DEF f
  <2>3. QED
    BY <1>3, <1>6, <2>1, <2>2, SpellsAside
<1>8. SpellsBack(prev', r)
  <2> DEFINE f == [prev EXCEPT ![At(s, j + 1)] = At(s, j - 1)]
  <2>1. f \in [Address -> Pointer] /\ SpellsBack(f, r)
    BY <1>1, <1>4, SkipPrev
  <2>2. prev' = [f EXCEPT ![e] = Nil]
    BY <1>5 DEF Unlink
  <2> HIDE DEF f
  <2>3. QED
    BY <1>3, <1>6, <2>1, <2>2, SpellsAside
<1>9. QED
  BY <1>7, <1>8

-----------------------------------------------------------------------------
(* Each step preserves the invariant *)

\* The list invariants see the map, the list and the moves only.
LEMMA RingKept ==
  ASSUME RingInv, MapInv, UNCHANGED <<listVars, element, panicked>>,
         \A k \in Keys : element[k] # Nil => value'[k] # Nil,
         \A h \in Goroutines : pc[h] = "move" <=> pc'[h] = "move",
         \A h \in Goroutines : pc[h] = "move" =>
           key'[h] = key[h] /\ stmt'[h] = stmt[h] /\ store'[h] = store[h]
  PROVE  RingInv' /\ MapInv'
<1>1. PICK s \in Seq(Nodes) :
        /\ IsInjective(s)
        /\ ToSet(s) = linked
        /\ (\A g \in Goroutines : pc[g] # "move") => Spells(next, s) /\ SpellsBack(prev, s)
        /\ \A g \in Goroutines : pc[g] = "move" =>
             \E j \in 2 .. Len(s) : s[j] = element[key[g]] /\ Stage(s, j, stmt[g])
  BY DEF RingInv
<1>2. ASSUME NEW g \in Goroutines, pc'[g] = "move"
      PROVE  \E j \in 2 .. Len(s) : s[j] = element'[key'[g]] /\ Stage(s, j, stmt[g])'
  <2>1. PICK j \in 2 .. Len(s) : s[j] = element[key[g]] /\ Stage(s, j, stmt[g])
    BY <1>1, <1>2
  <2>2. stmt'[g] = stmt[g] /\ next' = next /\ prev' = prev
    BY <1>2 DEF listVars
  <2>3. Stage(s, j, stmt[g])'
    BY <2>1, <2>2 DEF Stage
  <2>4. s[j] = element'[key'[g]]
    BY <1>2, <2>1
  <2>5. QED
    BY <2>3, <2>4
<1>3. RingInv'
  <2>1. ToSet(s) = linked'
    BY <1>1 DEF listVars
  <2>2. (\A g \in Goroutines : pc'[g] # "move") => Spells(next', s) /\ SpellsBack(prev', s)
    BY <1>1 DEF listVars
  <2>3. QED
    BY <1>1, <1>2, <2>1, <2>2 DEF RingInv
<1>4. MapInv'
  <2>1. \A g \in Goroutines : pc'[g] = "move" /\ store'[g] # NoAssignment =>
          store'[g] \in MoveAssignments(stmt[g], element[key[g]])'
    <3>1. SUFFICES ASSUME NEW g \in Goroutines, pc'[g] = "move", store'[g] # NoAssignment
                   PROVE  store'[g] \in MoveAssignments(stmt[g], element[key[g]])'
      OBVIOUS
    <3>2. store[g] \in MoveAssignments(stmt[g], element[key[g]])
      BY <3>1 DEF MapInv
    <3>3. MoveAssignments(stmt[g], element[key[g]])' = MoveAssignments(stmt[g], element[key[g]])
      <4>1. /\ stmt'[g] = stmt[g] /\ element'[key'[g]] = element[key[g]]
            /\ next' = next /\ prev' = prev
        BY <3>1 DEF listVars
      <4>2. QED
        BY <4>1 DEF MoveAssignments
    <3>4. QED
      BY <3>1, <3>2, <3>3
  <2>2. QED
    BY <2>1 DEF MapInv, listVars
<1>5. QED
  BY <1>3, <1>4

\* Under the write lock there are no readers, and nobody else moves an element.
LEMMA WriterAlone ==
  ASSUME IInv, NEW g \in Goroutines,
         pc[g] \in {"recheck", "create", "store", "evict", "unlock"}
  PROVE  readers = {} /\ \A h \in Goroutines : pc[h] # "move"
<1>1. writer = g /\ writer # NoGoroutine
  BY NoGoroutineAssumption DEF IInv, LockInv
<1>2. readers = {}
  BY <1>1 DEF IInv, LockInv
<1>3. QED
  BY <1>1, <1>2 DEF IInv, LockInv

\* A lookup or a store that finds its key begins to move its element, unless the
\* element is in front already.
LEMMA MoveBegins ==
  ASSUME IInv, RingInv, MapInv, OneMover', NEW g \in Goroutines,
         pc[g] # "move", key[g] \in Keys, element[key[g]] # Nil,
         NEW rest, rest # "move", StartMove(g, element[key[g]], rest),
         UNCHANGED <<listVars, element, panicked, key, store>>,
         \A k \in Keys : element[k] # Nil => value'[k] # Nil
  PROVE  RingInv' /\ MapInv'
<1> DEFINE e == element[key[g]]
<1>1. e \in linked
  BY DEF IInv, PointerInv
<1>2. pc \in [Goroutines -> Locations] /\ stmt \in [Goroutines -> 0 .. MoveLength]
  BY DEF IInv, TypeOK
<1>3. CASE AtFront(e)
  <2>1. pc' = [pc EXCEPT ![g] = rest] /\ stmt' = [stmt EXCEPT ![g] = 0]
    BY <1>3 DEF StartMove, Goto
  <2>2. \A h \in Goroutines : pc[h] = "move" <=> pc'[h] = "move"
    BY <1>2, <2>1
  <2>3. \A h \in Goroutines : pc[h] = "move" =>
          key'[h] = key[h] /\ stmt'[h] = stmt[h] /\ store'[h] = store[h]
    BY <1>2, <2>1
  <2>4. QED
    BY <2>2, <2>3, RingKept
<1>4. CASE ~AtFront(e)
  <2>1. pc' = [pc EXCEPT ![g] = "move"] /\ stmt' = [stmt EXCEPT ![g] = 1]
    BY <1>4 DEF StartMove, Goto
  <2>2. \A h \in Goroutines : pc'[h] = "move" <=> h = g
    BY <1>2, <2>1 DEF OneMover
  <2>3. \A h \in Goroutines : pc[h] # "move"
    BY <1>2, <2>1, <2>2
  <2>4. stmt'[g] = 1
    BY <1>2, <2>1
  <2>5. PICK s \in Seq(Nodes) :
          IsInjective(s) /\ ToSet(s) = linked /\ Spells(next, s) /\ SpellsBack(prev, s)
    BY <2>3 DEF RingInv
  <2>6. PICK j \in 1 .. Len(s) : s[j] = e
    <3>1. DOMAIN s = 1 .. Len(s)
      OBVIOUS
    <3>2. QED
      BY <1>1, <2>5, <3>1 DEF ToSet
  <2>7. j # 1
    <3>1. SUFFICES ASSUME j = 1 PROVE FALSE
      OBVIOUS
    <3>2. 0 \in 0 .. Len(s)
      BY AtIs
    <3>3. next[At(s, 0)] = At(s, 0 + 1)
      BY <2>5, <3>2 DEF Spells
    <3>4. next[Root] = e
      BY <2>6, <3>1, <3>3, AtIs
    <3>5. QED
      BY <1>1, <1>4, <3>4 DEF AtFront
  <2>8. j \in 2 .. Len(s)
    BY <2>7
  <2>9. Stage(s, j, stmt[g])'
    BY <2>4, <2>5 DEF Stage, listVars
  <2>10. RingInv'
    <3>1. s[j] = element'[key'[g]]
      BY <2>6
    <3>2. \A h \in Goroutines : pc'[h] = "move" =>
            \E i \in 2 .. Len(s) : s[i] = element'[key'[h]] /\ Stage(s, i, stmt[h])'
      BY <2>2, <2>8, <2>9, <3>1
    <3>3. ~(\A h \in Goroutines : pc'[h] # "move")
      BY <2>2
    <3>4. ToSet(s) = linked'
      BY <2>5 DEF listVars
    <3>5. QED
      BY <2>5, <3>2, <3>3, <3>4 DEF RingInv
  <2>11. MapInv'
    <3>1. store'[g] = NoAssignment
      BY DEF IInv, PointerInv
    <3>2. QED
      BY <2>2, <3>1 DEF MapInv, listVars
  <2>12. QED
    BY <2>10, <2>11
<1>5. QED
  BY <1>3, <1>4

\* A goroutine that moves an element evaluates and makes the assignments of its
\* move one after the other.
LEMMA MoveGoes ==
  ASSUME IInv, RingInv, MapInv, OneMover, NEW g \in Goroutines, MoveStep(g)
  PROVE  RingInv' /\ MapInv'
<1> DEFINE e == element[key[g]]
<1>1. /\ pc \in [Goroutines -> Locations] /\ stmt \in [Goroutines -> 0 .. MoveLength]
      /\ store \in [Goroutines -> Assignment] /\ ListTypeOK
  BY DEF IInv, TypeOK
<1>2. pc[g] = "move" /\ \A h \in Goroutines : pc[h] = "move" <=> h = g
  BY DEF MoveStep, MoveEvaluate, MoveAssign, OneMover
<1>3. stmt[g] \in 1 .. MoveLength /\ e \in linked
  BY <1>2 DEF IInv, CallInv, PointerInv
<1>4. CASE MoveEvaluate(g)
  <2>1. PICK a \in MoveAssignments(stmt[g], e) :
          IF a.node = Nil
          THEN panicked' = TRUE
          ELSE store' = [store EXCEPT ![g] = a]
    BY <1>4 DEF MoveEvaluate
  <2>2. UNCHANGED <<rwVars, listVars, dataVars, pc, callVars, stmt, panicked>>
    BY <1>4, MoveEvaluates
  <2>3. store' = [store EXCEPT ![g] = a]
    <3>1. a.node \in Known
      BY <1>3, MoveOperands DEF IInv
    <3>2. a.node # Nil
      BY <3>1, NodesAssumption DEF Known
    <3>3. QED
      BY <2>1, <3>2
  <2>4. RingInv'
    <3>1. next' = next /\ prev' = prev /\ linked' = linked /\ element' = element
          /\ key' = key /\ stmt' = stmt /\ pc' = pc
      BY <2>2 DEF listVars, dataVars, callVars
    <3>2. QED
      BY <3>1 DEF RingInv, Stage
  <2>5. MapInv'
    <3>1. MoveAssignments(stmt[g], e)' = MoveAssignments(stmt[g], e)
      BY <2>2 DEF MoveAssignments, listVars, dataVars, callVars
    <3>2. store'[g] = a
      BY <1>1, <2>3
    <3>3. \A h \in Goroutines : pc'[h] = "move" => h = g
      BY <1>2, <2>2
    <3>4. QED
      BY <2>2, <3>1, <3>2, <3>3 DEF MapInv, listVars, dataVars, callVars
  <2>6. QED
    BY <2>4, <2>5
<1>5. CASE MoveAssign(g)
  <2>1. PICK i \in 1 .. MoveLength : i = stmt[g]
    BY <1>3
  <2>2. PICK s \in Seq(Nodes) :
          /\ IsInjective(s)
          /\ ToSet(s) = linked
          /\ \E j \in 2 .. Len(s) : s[j] = e /\ Stage(s, j, i)
    BY <1>2, <2>1 DEF RingInv
  <2>3. PICK j \in 2 .. Len(s) : s[j] = e /\ Stage(s, j, i)
    BY <2>2
  <2>4. /\ i < 6 => Stage(s, j, i + 1)'
        /\ i = 6 => Spells(next', Fronted(s, j)) /\ SpellsBack(prev', Fronted(s, j))
    <3>1. PICK a : a = store[g]
      OBVIOUS
    <3>2. a \in MoveAssignments(i, s[j]) /\ Assign(a)
      BY <1>2, <1>5, <2>1, <2>3, <3>1 DEF MoveAssign, MapInv
    <3>3. /\ i < 6 => Stage(s, j, i + 1)'
          /\ i = 6 => Spells(next', Fronted(s, j)) /\ SpellsBack(prev', Fronted(s, j))
      BY <1>1, <2>2, <2>3, <3>2, MoveStage
    <3>4. QED
      BY <2>3, <3>3
  <2>5. store'[g] = NoAssignment /\ linked' = linked
    BY <1>1, <1>5 DEF MoveAssign, Assign
  <2>6. element' = element /\ key' = key /\ value' = value /\ panicked' = panicked
    BY <1>5 DEF MoveAssign, dataVars, callVars
  <2>7. CASE i < 6
    <3>1. pc' = pc /\ stmt' = [stmt EXCEPT ![g] = i + 1]
      BY <1>5, <2>1, <2>7 DEF MoveAssign, MoveLength
    <3>2. stmt'[g] = i + 1
      BY <1>1, <3>1
    <3>3. \E k \in 2 .. Len(s) : s[k] = element'[key'[g]] /\ Stage(s, k, stmt[g])'
      <4>1. Stage(s, j, i + 1)'
        BY <2>4, <2>7
      <4>2. Stage(s, j, stmt[g])'
        BY <3>2, <4>1 DEF Stage
      <4>3. QED
        BY <2>3, <2>6, <4>2
    <3>4. RingInv'
      BY <1>2, <2>2, <2>5, <3>1, <3>3 DEF RingInv
    <3>5. MapInv'
      BY <1>2, <2>5, <2>6, <3>1 DEF MapInv
    <3>6. QED
      BY <3>4, <3>5
  <2>8. CASE i = 6
    <3>1. pc' = [pc EXCEPT ![g] = AfterMove(g)]
      BY <1>5, <2>1, <2>8 DEF MoveAssign, MoveLength, Goto
    <3>2. \A h \in Goroutines : pc'[h] # "move"
      BY <1>1, <1>2, <3>1 DEF AfterMove
    <3>3. PICK t \in Seq(Nodes) : t = Fronted(s, j) /\ IsInjective(t) /\ ToSet(t) = linked
      <4>1. j \in 1 .. Len(s) /\ IsInjective(s) /\ ToSet(s) = linked
        BY <2>2
      <4>2. QED
        BY <4>1, FrontedIs
    <3>4. Spells(next', t) /\ SpellsBack(prev', t)
      BY <2>4, <2>8, <3>3
    <3>5. RingInv'
      BY <2>5, <3>2, <3>3, <3>4 DEF RingInv
    <3>6. MapInv'
      BY <2>5, <2>6, <3>2 DEF MapInv
    <3>7. QED
      BY <3>5, <3>6
  <2>9. QED
    <3>1. i \in Int /\ i <= 6
      BY DEF MoveLength
    <3>2. QED
      BY <2>7, <2>8, <3>1
<1>6. QED
  BY <1>4, <1>5 DEF MoveStep

\* A key that is stored anew puts its element in front.
LEMMA NewInRing ==
  ASSUME IInv, RingInv, MapInv, NEW g \in Goroutines, StoreNew(g)
  PROVE  RingInv' /\ MapInv'
<1>1. \A h \in Goroutines : pc[h] # "move"
  BY WriterAlone DEF StoreNew
<1>2. PICK s \in Seq(Nodes) :
        IsInjective(s) /\ ToSet(s) = linked /\ Spells(next, s) /\ SpellsBack(prev, s)
  BY <1>1 DEF RingInv
<1>3. PICK n \in Nodes : /\ n \notin linked
                         /\ PushFront(n)
                         /\ element' = [element EXCEPT ![key[g]] = n]
  BY DEF StoreNew, Unreferenced
<1> DEFINE t == <<n>> \o s
<1>4. Spells(next', t) /\ SpellsBack(prev', t)
  BY <1>2, <1>3, PushRing DEF IInv, TypeOK
<1>5. t \in Seq(Nodes) /\ IsInjective(t) /\ ToSet(t) = linked \cup {n}
  BY <1>2, <1>3, ConsIs
<1>6. linked' = linked \cup {n}
  BY <1>3 DEF PushFront
<1>7. \A h \in Goroutines : pc'[h] # "move"
  BY <1>1 DEF StoreNew, Goto, IInv, TypeOK
<1> HIDE DEF t
<1>8. RingInv'
  BY <1>4, <1>5, <1>6, <1>7 DEF RingInv
<1>9. MapInv'
  <2>1. key[g] \in Keys /\ val[g] \in Values /\ val[g] # Nil /\ n # Nil
    BY NilAssumption, NodesAssumption DEF StoreNew, IInv, CallInv
  <2>2. value' = [value EXCEPT ![key[g]] = val[g]] /\ panicked' = panicked
    BY DEF StoreNew
  <2>3. element[key[g]] = Nil
    BY DEF StoreNew
  <2>4. element \in [Keys -> Nodes \cup {Nil}] /\ value \in [Keys -> Values \cup {Nil}]
    BY DEF IInv, TypeOK
  <2>5. linked' = {element'[k] : k \in Keys} \ {Nil}
    BY <1>3, <1>6, <2>1, <2>3, <2>4 DEF MapInv
  <2>6. \A k \in Keys : element'[k] # Nil => value'[k] # Nil
    BY <1>3, <2>1, <2>2, <2>4 DEF MapInv
  <2>7. QED
    BY <1>7, <2>2, <2>5, <2>6 DEF MapInv
<1>10. QED
  BY <1>8, <1>9

\* A cache above its limit holds something, and the last element of its ring is
\* that of a key of the map.
LEMMA BackIs ==
  ASSUME IInv, AccountInv, MapInv, OverLimit, NEW s \in Seq(Nodes), IsInjective(s),
         ToSet(s) = linked, SpellsBack(prev, s)
  PROVE  /\ Len(s) \in 1 .. Len(s)
         /\ Back = s[Len(s)]
         /\ Back \in linked
         /\ keyOf[Back] \in Keys
         /\ element[keyOf[Back]] = Back
         /\ Back # Nil
<1>1. linked # {}
  <2>1. SUFFICES ASSUME linked = {} PROVE FALSE
    OBVIOUS
  <2>2. \A k \in Keys : value[k] = Nil
    BY <2>1 DEF MapInv, AccountInv
  <2>3. \A k \in Keys : Held[k] = 0
    BY <2>2 DEF Held, HeldCap
  <2>4. SumOver(Held, Keys) = 0
    BY <2>3, KeysAssumption, SumOfNoughts
  <2>5. size = 0
    BY <2>4 DEF AccountInv, SizeAccounts, Held
  <2>6. QED
    BY <2>5, MaxSizeAssumption DEF OverLimit
<1>2. Len(s) \in Nat /\ DOMAIN s = 1 .. Len(s)
  BY LenProperties
<1>3. Len(s) \in 1 .. Len(s)
  BY <1>1, <1>2 DEF ToSet
<1>4. prev[Root] = s[Len(s)]
  <2>1. Len(s) + 1 \in 1 .. Len(s) + 1
    BY <1>2
  <2>2. prev[At(s, Len(s) + 1)] = At(s, Len(s) + 1 - 1)
    BY <2>1 DEF SpellsBack
  <2>3. Len(s) + 1 - 1 = Len(s)
    BY <1>2
  <2>4. QED
    BY <1>3, <2>2, <2>3, AtIs
<1>5. Back = s[Len(s)]
  BY <1>1, <1>4 DEF Back
<1>6. Back \in linked
  BY <1>2, <1>3, <1>5 DEF ToSet
<1>7. PICK k \in Keys : element[k] = Back /\ Back # Nil
  BY <1>6 DEF MapInv
<1>8. keyOf[Back] = k
  BY <1>7 DEF IInv, PointerInv
<1>9. QED
  BY <1>3, <1>5, <1>6, <1>7, <1>8

\* The eviction takes the last element out, and its key out of the map: it does
\* not panic.
LEMMA EvictTakesBack ==
  ASSUME IInv, AccountInv, MapInv, NEW g \in Goroutines, EvictOne(g), NEW s \in Seq(Nodes),
         IsInjective(s), ToSet(s) = linked, SpellsBack(prev, s)
  PROVE  /\ Unlink(s[Len(s)])
         /\ element' = [element EXCEPT ![keyOf[s[Len(s)]]] = Nil]
         /\ value' = [value EXCEPT ![keyOf[s[Len(s)]]] = Nil]
         /\ UNCHANGED <<rwVars, keyOf, pc, callVars, moveVars, panicked>>
<1>1. OverLimit
  BY DEF EvictOne
<1>2. /\ Back = s[Len(s)] /\ Back \in linked /\ element[keyOf[Back]] = Back /\ Back # Nil
  BY <1>1, BackIs
<1>3. Back \in Nodes
  BY <1>2 DEF IInv, TypeOK, ListTypeOK
<1>4. QED
  BY <1>2, <1>3 DEF EvictOne, callVars

\* What is evicted leaves the ring and the map together.
LEMMA EvictFromRing ==
  ASSUME IInv, AccountInv, RingInv, MapInv, NEW g \in Goroutines, EvictOne(g)
  PROVE  RingInv' /\ MapInv'
<1>1. \A h \in Goroutines : pc[h] # "move"
  BY WriterAlone DEF EvictOne
<1>2. PICK s \in Seq(Nodes) :
        IsInjective(s) /\ ToSet(s) = linked /\ Spells(next, s) /\ SpellsBack(prev, s)
  BY <1>1 DEF RingInv
<1>3. PICK e : e = s[Len(s)]
  OBVIOUS
<1>4. PICK k \in Keys : k = keyOf[e] /\ element[k] = e
  BY <1>2, <1>3, BackIs DEF EvictOne
<1>5. Len(s) \in 1 .. Len(s) /\ e \in linked /\ e # Nil
  BY <1>2, <1>3, BackIs DEF EvictOne
<1>6. /\ Unlink(e)
      /\ element' = [element EXCEPT ![k] = Nil]
      /\ value' = [value EXCEPT ![k] = Nil]
      /\ UNCHANGED <<rwVars, keyOf, pc, callVars, moveVars, panicked>>
  BY <1>2, <1>3, <1>4, EvictTakesBack
<1>7. PICK r \in Seq(Nodes) :
        /\ IsInjective(r) /\ ToSet(r) = linked \ {e}
        /\ Spells(next', r) /\ SpellsBack(prev', r)
  <2> DEFINE r == Without(s, Len(s))
  <2>1. r \in Seq(Nodes) /\ IsInjective(r) /\ ToSet(r) = linked \ {e}
    <3>1. /\ r \in Seq(Nodes) /\ IsInjective(r)
          /\ ToSet(r) = ToSet(s) \ {s[Len(s)]}
      BY <1>2, <1>5, WithoutIs
    <3>2. QED
      BY <1>2, <1>3, <3>1
  <2>2. Spells(next', r) /\ SpellsBack(prev', r)
    <3>1. s[Len(s)] \in linked /\ Unlink(s[Len(s)]) /\ ListTypeOK
      BY <1>3, <1>5, <1>6 DEF IInv, TypeOK
    <3>2. QED
      BY <1>2, <1>5, <3>1, UnlinkRing
  <2> HIDE DEF r
  <2>3. QED
    BY <2>1, <2>2
<1>8. linked' = linked \ {e}
  BY <1>5, <1>6 DEF Unlink
<1>9. RingInv'
  BY <1>1, <1>6, <1>7, <1>8 DEF RingInv
<1>10. MapInv'
  <2>1. element \in [Keys -> Nodes \cup {Nil}] /\ value \in [Keys -> Values \cup {Nil}]
    BY DEF IInv, TypeOK
  <2>2. \A i \in Keys : element[i] = e => i = k
    BY <1>4, <1>5 DEF IInv, PointerInv
  <2>3. linked' = {element'[i] : i \in Keys} \ {Nil}
    <3>1. \A i \in Keys : element'[i] = IF i = k THEN Nil ELSE element[i]
      BY <1>6, <2>1
    <3>2. linked = {element[i] : i \in Keys} \ {Nil}
      BY DEF MapInv
    <3>3. QED
      BY <1>4, <1>8, <2>2, <3>1, <3>2
  <2>4. \A i \in Keys : element'[i] # Nil => value'[i] # Nil
    BY <1>6, <2>1 DEF MapInv
  <2>5. QED
    BY <1>1, <1>6, <2>3, <2>4 DEF MapInv
<1>11. QED
  BY <1>9, <1>10

\* While moves do not race, the list stays the ring of the elements of the map.
LEMMA RingStep ==
  ASSUME IInv, AccountInv, RingInv, MapInv, OneMover, OneMover', [Next]_vars
  PROVE  RingInv' /\ MapInv'
<1> USE DEF dataVars, callVars, moveVars
<1>1. ASSUME UNCHANGED <<listVars, element, value, panicked>>,
             \A h \in Goroutines : pc[h] = "move" <=> pc'[h] = "move",
             \A h \in Goroutines : pc[h] = "move" =>
               key'[h] = key[h] /\ stmt'[h] = stmt[h] /\ store'[h] = store[h]
      PROVE  RingInv' /\ MapInv'
  <2>1. \A k \in Keys : element[k] # Nil => value'[k] # Nil
    BY <1>1 DEF MapInv
  <2>2. QED
    BY <1>1, <2>1, RingKept
<1>2. CASE UNCHANGED vars
  BY <1>1, <1>2 DEF vars
<1>3. ASSUME NEW g \in Goroutines, Call(g) \/ Step(g)
      PROVE  RingInv' /\ MapInv'
  <2> USE DEF IInv, TypeOK, Goto
  <2>1. ASSUME NEW m \in Methods \ {"store"}, NEW k \in Keys, CallRead(g, m, k)
        PROVE  RingInv' /\ MapInv'
    BY <1>1, <2>1 DEF CallRead
  <2>2. ASSUME NEW k \in Keys, NEW v \in Made[k], CallStore(g, k, v)
        PROVE  RingInv' /\ MapInv'
    BY <1>1, <2>2 DEF CallStore
  <2>3. CASE LoadLock(g)
    BY <1>1, <2>3 DEF LoadLock
  <2>4. CASE LoadBlocked(g)
    BY <1>1, <2>4 DEF LoadBlocked
  <2>5. CASE Lookup(g)
    <3>1. CASE element[key[g]] = Nil
      BY <1>1, <2>5, <3>1 DEF Lookup
    <3>2. CASE element[key[g]] # Nil
      <4>1. pc[g] # "move" /\ key[g] \in Keys
        BY <2>5 DEF Lookup, CallInv
      <4>2. /\ StartMove(g, element[key[g]], "hit")
            /\ UNCHANGED <<listVars, element, panicked, key, store, value>>
        BY <2>5, <3>2 DEF Lookup
      <4>3. \A k \in Keys : element[k] # Nil => value'[k] # Nil
        BY <4>2 DEF MapInv
      <4>4. QED
        BY <3>2, <4>1, <4>2, <4>3, MoveBegins
    <3>3. QED
      BY <3>1, <3>2
  <2>6. CASE LoadHit(g)
    BY <1>1, <2>6 DEF LoadHit
  <2>7. CASE LoadMiss(g)
    BY <1>1, <2>7 DEF LoadMiss
  <2>8. CASE MoveStep(g)
    BY <2>8, MoveGoes
  <2>9. CASE LockWanted(g)
    BY <1>1, <2>9 DEF LockWanted
  <2>10. CASE LockHeld(g)
    BY <1>1, <2>10 DEF LockHeld
  <2>11. CASE Recheck(g)
    BY <1>1, <2>11 DEF Recheck
  <2>12. CASE Create(g)
    BY <1>1, <2>12 DEF Create
  <2>13. CASE CreateFailed(g)
    BY <1>1, <2>13 DEF CreateFailed
  <2>14. CASE StoreTooBig(g)
    BY <1>1, <2>14 DEF StoreTooBig
  <2>15. CASE StoreReplace(g)
    <3>1. pc[g] # "move" /\ key[g] \in Keys /\ element[key[g]] # Nil
      BY <2>15 DEF StoreReplace, CallInv
    <3>2. /\ StartMove(g, element[key[g]], "evict")
          /\ UNCHANGED <<listVars, element, panicked, key, store>>
      BY <2>15 DEF StoreReplace
    <3>3. \A k \in Keys : element[k] # Nil => value'[k] # Nil
      <4>1. val[g] \in Values /\ val[g] # Nil
        BY <2>15, NilAssumption DEF StoreReplace, CallInv
      <4>2. value' = [value EXCEPT ![key[g]] = val[g]]
        BY <2>15 DEF StoreReplace
      <4>3. QED
        BY <4>1, <4>2 DEF MapInv
    <3>4. QED
      BY <3>1, <3>2, <3>3, MoveBegins
  <2>16. CASE StoreNew(g)
    BY <2>16, NewInRing
  <2>17. CASE EvictDone(g)
    BY <1>1, <2>17 DEF EvictDone
  <2>18. CASE EvictOne(g)
    BY <2>18, EvictFromRing
  <2>19. CASE Release(g)
    <3>1. \A h \in waiting : pc[h] = "rwait"
      BY DEF LockInv
    <3>2. QED
      BY <1>1, <2>19, <3>1 DEF Release
  <2>20. CASE Return(g)
    BY <1>1, <2>20 DEF Return
  <2>21. QED
    BY <1>3, <2>1, <2>2, <2>3, <2>4, <2>5, <2>6, <2>7, <2>8, <2>9, <2>10, <2>11, <2>12,
       <2>13, <2>14, <2>15, <2>16, <2>17, <2>18, <2>19, <2>20
    DEF Call, Step, LoadStep, StoreStep
<1>4. QED
  BY <1>2, <1>3 DEF Next

-----------------------------------------------------------------------------
(* What follows from the invariant *)

\* A writer that moves an element keeps the readers out, and there is one writer.
LEMMA OneReaderOneMover ==
  ASSUME IInv, OneReader
  PROVE  OneMover
<1>1. SUFFICES ASSUME NEW g \in Goroutines, NEW h \in Goroutines, pc[g] = "move", pc[h] = "move"
               PROVE  g = h
  BY DEF OneMover
<1>2. g \in readers \/ writer = g
  BY <1>1 DEF IInv, LockInv
<1>3. h \in readers \/ writer = h
  BY <1>1 DEF IInv, LockInv
<1>4. \A k \in Goroutines : pc[k] = "move" /\ writer = k => readers = {}
  BY NoGoroutineAssumption DEF IInv, LockInv
<1>5. QED
  BY <1>1, <1>2, <1>3, <1>4 DEF OneReader

\* An empty list is a ring.
LEMMA RingInitially ==
  ASSUME Init
  PROVE  RingInv /\ MapInv
<1>1. <<>> \in Seq(Nodes) /\ Len(<<>>) = 0 /\ DOMAIN <<>> = {}
  BY EmptySeq
<1>2. IsInjective(<<>>) /\ ToSet(<<>>) = {}
  BY <1>1 DEF IsInjective, ToSet
<1>3. PICK s \in Seq(Nodes) : s = <<>>
  BY <1>1
<1>4. Len(s) = 0 /\ IsInjective(s) /\ ToSet(s) = {}
  BY <1>1, <1>2, <1>3
<1>5. next[Root] = Root /\ prev[Root] = Root
  BY DEF Init, ListInit, Address
<1>6. Spells(next, s) /\ SpellsBack(prev, s)
  BY <1>4, <1>5 DEF Spells, SpellsBack, At
<1>7. RingInv
  BY <1>4, <1>6 DEF RingInv, Init, ListInit
<1>8. MapInv
  BY DEF MapInv, Init, ListInit
<1>9. QED
  BY <1>7, <1>8

\* As long as no two moves race, the list stays the ring of the map's elements.
LEMMA RingInvariance == Spec /\ []OneMover => [](RingInv /\ MapInv)
<1>1. Init => RingInv /\ MapInv
  BY RingInitially
<1>2. IInv /\ AccountInv /\ (RingInv /\ MapInv) /\ OneMover /\ OneMover' /\ [Next]_vars
        => (RingInv /\ MapInv)'
  BY RingStep
<1>3. QED
  BY <1>1, <1>2, Invariance, AccountInvariance, PTL DEF Spec

-----------------------------------------------------------------------------
(* Without a race *)

\* Whatever the number of goroutines, the list is the ring of the elements of the
\* map as long as no two of them are in MoveToFront together (cache.go:44, 58).
THEOREM RingIsOfMap == Spec /\ []OneMover => []RingOfMap
<1>1. RingInv /\ MapInv => RingOfMap
  <2>1. SUFFICES ASSUME RingInv, MapInv, Moving = {} PROVE RingOfMap
    BY DEF RingOfMap
  <2>2. \A g \in Goroutines : pc[g] # "move"
    BY <2>1 DEF Moving
  <2>3. PICK s \in Seq(Nodes) :
          IsInjective(s) /\ ToSet(s) = linked /\ Spells(next, s) /\ SpellsBack(prev, s)
    BY <2>1, <2>2 DEF RingInv
  <2>4. Ring = s
    BY <2>3, RingIs DEF Ring
  <2>5. QED
    BY <2>1, <2>3, <2>4 DEF RingOfMap, MapInv
<1>2. QED
  BY <1>1, RingInvariance, PTL

\* Nothing but such a race lets evictLeastRecent panic (cache.go:72-77).
THEOREM OnlyRacesPanic == Spec /\ []OneMover => []~panicked
<1>1. RingInv /\ MapInv => ~panicked
  BY DEF MapInv
<1>2. QED
  BY <1>1, RingInvariance, PTL

\* Nothing but such a race lets anybody find the cache above its limit.
THEOREM BoundedUnlessRace == Spec /\ []OneMover => []MemoryBound
<1>1. ~panicked /\ MemoryBoundUnlessPanic => MemoryBound
  BY DEF MemoryBoundUnlessPanic
<1>2. QED
  BY <1>1, OnlyRacesPanic, BoundedUnlessPanic, PTL

-----------------------------------------------------------------------------
(* The order of use *)

\* f of every element of s.
Image(f, s) == [i \in 1 .. Len(s) |-> f[s[i]]]

\* Order, from the pointers, the element that is moving, if any, and the keys.
OrderFrom(f, moving, q) ==
  IF moving = {}
  THEN Image(q, RingOf(f))
  ELSE LET e == CHOOSE n \in moving : TRUE
       IN  Image(q, <<e>> \o RemoveFirst(RingOf(f), e))

\* Where f gives every element a key of its own, it gives a ring its keys, each once.
LEMMA ImageIs ==
  ASSUME NEW s \in Seq(Nodes), IsInjective(s), NEW f, \A n \in ToSet(s) : f[n] \in Keys,
         \A m, n \in ToSet(s) : f[m] = f[n] => m = n
  PROVE  /\ Image(f, s) \in Seq(Keys)
         /\ Len(Image(f, s)) = Len(s)
         /\ \A i \in 1 .. Len(s) : Image(f, s)[i] = f[s[i]]
         /\ IsInjective(Image(f, s))
         /\ ToSet(Image(f, s)) = {f[n] : n \in ToSet(s)}
<1>1. Len(s) \in Nat /\ DOMAIN s = 1 .. Len(s) /\ \A i \in 1 .. Len(s) : s[i] \in ToSet(s)
  BY DEF ToSet
<1>2. Image(f, s) \in [1 .. Len(s) -> Keys]
  BY <1>1 DEF Image
<1>3. Image(f, s) \in Seq(Keys)
  BY <1>1, <1>2, SeqDef
<1>4. DOMAIN Image(f, s) = 1 .. Len(s) /\ \A i \in 1 .. Len(s) : Image(f, s)[i] = f[s[i]]
  BY DEF Image
<1>5. Len(Image(f, s)) = Len(s)
  BY <1>1, <1>3, <1>4, LenProperties
<1>6. IsInjective(Image(f, s))
  <2>1. SUFFICES ASSUME NEW i \in 1 .. Len(s), NEW k \in 1 .. Len(s),
                        Image(f, s)[i] = Image(f, s)[k]
                 PROVE  i = k
    BY <1>4 DEF IsInjective
  <2>2. s[i] = s[k]
    BY <1>1, <1>4, <2>1
  <2>3. QED
    BY <1>1, <2>2 DEF IsInjective
<1>7. ToSet(Image(f, s)) = {f[n] : n \in ToSet(s)}
  BY <1>1, <1>4, SMTT(20) DEF ToSet
<1>8. QED
  BY <1>3, <1>4, <1>5, <1>6, <1>7

\* Taking an element out takes its key out.
LEMMA ImageWithout ==
  ASSUME NEW s \in Seq(Nodes), IsInjective(s), NEW f, NEW j \in 1 .. Len(s)
  PROVE  Image(f, Without(s, j)) = [i \in 1 .. Len(s) - 1 |->
           IF i < j THEN f[s[i]] ELSE f[s[i + 1]]]
<1>1. /\ Len(Without(s, j)) = Len(s) - 1
      /\ \A i \in 1 .. Len(s) - 1 : Without(s, j)[i] = IF i < j THEN s[i] ELSE s[i + 1]
  BY WithoutIs
<1>2. QED
  BY <1>1 DEF Image

\* An element in front has its key in front.
LEMMA ImageCons ==
  ASSUME NEW s \in Seq(Nodes), IsInjective(s), NEW f, \A n \in ToSet(s) : f[n] \in Keys,
         \A m, n \in ToSet(s) : f[m] = f[n] => m = n,
         NEW e \in Nodes, e \notin ToSet(s), f[e] \in Keys
  PROVE  Image(f, <<e>> \o s) = <<f[e]>> \o Image(f, s)
<1> DEFINE t == <<e>> \o s
           a == <<f[e]>> \o Image(f, s)
<1>1. /\ t \in Seq(Nodes) /\ Len(t) = Len(s) + 1 /\ t[1] = e /\ Len(s) \in Nat
      /\ \A i \in 1 .. Len(s) : t[i + 1] = s[i]
  BY ConsIs, AtIs
<1>2. /\ Image(f, s) \in Seq(Keys) /\ Len(Image(f, s)) = Len(s)
      /\ \A i \in 1 .. Len(s) : Image(f, s)[i] = f[s[i]]
  BY ImageIs
<1>3. <<f[e]>> \in Seq(Keys) /\ Len(<<f[e]>>) = 1 /\ <<f[e]>>[1] = f[e]
  OBVIOUS
<1>4. /\ a \in Seq(Keys) /\ Len(a) = 1 + Len(s)
      /\ \A i \in 1 .. 1 + Len(s) : a[i] = IF i <= 1 THEN <<f[e]>>[i] ELSE Image(f, s)[i - 1]
  <2>1. /\ a \in Seq(Keys)
        /\ Len(a) = Len(<<f[e]>>) + Len(Image(f, s))
        /\ \A i \in 1 .. Len(<<f[e]>>) + Len(Image(f, s)) :
             a[i] = IF i <= Len(<<f[e]>>) THEN <<f[e]>>[i] ELSE Image(f, s)[i - Len(<<f[e]>>)]
    BY <1>2, <1>3, ConcatProperties
  <2> HIDE DEF a
  <2>2. QED
    BY <1>2, <1>3, <2>1
<1> HIDE DEF a, t
<1>5. ASSUME NEW i \in 1 .. Len(s) + 1 PROVE f[t[i]] = a[i]
  <2>1. CASE i = 1
    BY <1>1, <1>3, <1>4, <2>1
  <2>2. CASE i # 1
    <3>1. i - 1 \in 1 .. Len(s) /\ (i - 1) + 1 = i /\ ~(i <= 1) /\ i \in 1 .. 1 + Len(s)
      BY <1>1, <2>2
    <3>2. t[i] = s[i - 1] /\ a[i] = Image(f, s)[i - 1]
      BY <1>1, <1>4, <3>1
    <3>3. QED
      BY <1>2, <3>1, <3>2
  <2>3. QED
    BY <2>1, <2>2
<1>6. Image(f, t) = [i \in 1 .. Len(s) + 1 |-> f[t[i]]]
  BY <1>1 DEF Image
<1>7. a = [i \in 1 .. Len(s) + 1 |-> a[i]]
  <2>1. a \in [1 .. Len(a) -> Keys] /\ Len(a) = Len(s) + 1
    BY <1>1, <1>4, LenProperties
  <2>2. QED
    BY <2>1
<1>8. Image(f, t) = a
  BY <1>5, <1>6, <1>7
<1>9. QED
  BY <1>8 DEF a, t

\* What comes in front and is taken out again leaves the sequence as it was.
LEMMA ConsWithout ==
  ASSUME NEW S, NEW s \in Seq(S), IsInjective(s), NEW e \in S, e \notin ToSet(s)
  PROVE  Without(<<e>> \o s, 1) = s
<1> DEFINE t == <<e>> \o s
<1>1. /\ t \in Seq(S) /\ Len(t) = Len(s) + 1 /\ IsInjective(t) /\ Len(s) \in Nat
      /\ \A i \in 1 .. Len(s) : t[i + 1] = s[i]
  BY ConsIs, LenProperties
<1> HIDE DEF t
<1>2. /\ Without(t, 1) \in Seq(S) /\ Len(Without(t, 1)) = Len(s)
      /\ \A i \in 1 .. Len(s) : Without(t, 1)[i] = t[i + 1]
  <2>1. 1 \in 1 .. Len(t) /\ Len(t) - 1 = Len(s)
    BY <1>1
  <2>2. /\ Without(t, 1) \in Seq(S) /\ Len(Without(t, 1)) = Len(t) - 1
        /\ \A i \in 1 .. Len(t) - 1 : Without(t, 1)[i] = IF i < 1 THEN t[i] ELSE t[i + 1]
    BY <1>1, <2>1, WithoutIs
  <2>3. \A i \in 1 .. Len(s) : ~(i < 1)
    OBVIOUS
  <2>4. QED
    BY <2>1, <2>2, <2>3
<1>3. Without(t, 1) = s
  BY <1>1, <1>2, SeqEqual
<1>4. QED
  BY <1>3 DEF t

\* The first element stays the first when it comes to the front.
LEMMA FirstStays ==
  ASSUME NEW S, NEW s \in Seq(S), IsInjective(s), 1 \in 1 .. Len(s)
  PROVE  Fronted(s, 1) = s
<1> DEFINE r == Without(s, 1)
           t == <<s[1]>> \o r
<1>1. /\ Len(s) \in Nat /\ DOMAIN s = 1 .. Len(s) /\ s[1] \in S
  BY LenProperties
<1>2. /\ r \in Seq(S) /\ Len(r) = Len(s) - 1 /\ IsInjective(r) /\ s[1] \notin ToSet(r)
      /\ \A i \in 1 .. Len(s) - 1 : r[i] = s[i + 1]
  <2>1. /\ r \in Seq(S) /\ Len(r) = Len(s) - 1 /\ IsInjective(r)
        /\ ToSet(r) = ToSet(s) \ {s[1]}
        /\ \A i \in 1 .. Len(s) - 1 : r[i] = IF i < 1 THEN s[i] ELSE s[i + 1]
    BY WithoutIs
  <2>2. \A i \in 1 .. Len(s) - 1 : ~(i < 1)
    OBVIOUS
  <2>3. QED
    BY <2>1, <2>2
<1> HIDE DEF r
<1>3. /\ t \in Seq(S) /\ Len(t) = Len(r) + 1 /\ t[1] = s[1]
      /\ \A i \in 1 .. Len(r) : t[i + 1] = r[i]
  <2>1. PICK e \in S : e = s[1]
    BY <1>1
  <2>2. /\ <<e>> \o r \in Seq(S) /\ Len(<<e>> \o r) = Len(r) + 1 /\ (<<e>> \o r)[1] = e
        /\ \A i \in 1 .. Len(r) : (<<e>> \o r)[i + 1] = r[i]
    BY <1>2, <2>1, ConsIs
  <2>3. QED
    BY <2>1, <2>2
<1> HIDE DEF t
<1>4. ASSUME NEW i \in 1 .. Len(s) PROVE t[i] = s[i]
  <2>1. CASE i = 1
    BY <1>3, <2>1
  <2>2. CASE i # 1
    <3>1. i - 1 \in 1 .. Len(s) - 1 /\ (i - 1) + 1 = i
      BY <1>1, <2>2
    <3>2. QED
      BY <1>2, <1>3, <3>1
  <2>3. QED
    BY <2>1, <2>2
<1>5. Len(t) = Len(s)
  BY <1>1, <1>2, <1>3
<1>6. t = s
  BY <1>3, <1>4, <1>5, SeqEqual
<1>7. QED
  BY <1>6 DEF Fronted, r, t

\* Bringing an element to the front brings its key to the front of the order.
LEMMA UsedIs ==
  ASSUME NEW s \in Seq(Nodes), IsInjective(s), NEW f, \A n \in ToSet(s) : f[n] \in Keys,
         \A m, n \in ToSet(s) : f[m] = f[n] => m = n, NEW j \in 1 .. Len(s)
  PROVE  Image(f, Fronted(s, j)) = <<f[s[j]]>> \o RemoveFirst(Image(f, s), f[s[j]])
<1> DEFINE r == Without(s, j)
           e == s[j]
           keys == Image(f, s)
<1>1. /\ r \in Seq(Nodes) /\ IsInjective(r) /\ ToSet(r) = ToSet(s) \ {e}
      /\ e \in Nodes /\ e \in ToSet(s)
  <2>1. DOMAIN s = 1 .. Len(s) /\ s[j] \in Nodes
    OBVIOUS
  <2>2. e \in ToSet(s)
    BY <2>1 DEF ToSet
  <2>3. ToSet(Without(s, j)) = ToSet(s) \ {s[j]}
    BY WithoutIs
  <2>4. QED
    BY <2>1, <2>2, <2>3, WithoutIs
<1>2. Image(f, <<e>> \o r) = <<f[e]>> \o Image(f, r)
  BY <1>1, ImageCons
<1>3. /\ keys \in Seq(Keys) /\ Len(keys) = Len(s) /\ IsInjective(keys)
      /\ \A i \in 1 .. Len(s) : keys[i] = f[s[i]]
  BY ImageIs
<1> HIDE DEF keys
<1>4. RemoveFirst(keys, keys[j]) = Without(keys, j)
  BY <1>3, RemoveFirstIs
<1>5. Image(f, r) = Without(keys, j)
  <2>1. Image(f, r) = [i \in 1 .. Len(s) - 1 |-> IF i < j THEN f[s[i]] ELSE f[s[i + 1]]]
    BY ImageWithout
  <2>2. Without(keys, j) =
          [i \in 1 .. Len(s) - 1 |-> IF i < j THEN keys[i] ELSE keys[i + 1]]
    BY <1>3 DEF Without
  <2>3. \A i \in 1 .. Len(s) - 1 : i \in 1 .. Len(s) /\ i + 1 \in 1 .. Len(s)
    BY AtIs
  <2>4. QED
    BY <1>3, <2>1, <2>2, <2>3
<1>6. QED
  BY <1>2, <1>3, <1>4, <1>5 DEF Fronted, keys

\* Between two moves the order is that of the ring.
LEMMA OrderAtRest ==
  ASSUME NEW f, NEW q, NEW s \in Seq(Nodes), IsInjective(s), Spells(f, s)
  PROVE  OrderFrom(f, {}, q) = Image(q, s)
BY RingIs DEF OrderFrom

\* Whatever a move has done to the ring, the order is the one it will leave.
LEMMA OrderOfMove ==
  ASSUME NEW f, NEW q, NEW s \in Seq(Nodes), IsInjective(s), NEW j \in 1 .. Len(s),
         \/ Spells(f, s)
         \/ Spells(f, Without(s, j))
         \/ Spells(f, Fronted(s, j))
  PROVE  OrderFrom(f, {s[j]}, q) = Image(q, Fronted(s, j))
<1> DEFINE r == Without(s, j)
           e == s[j]
<1>1. /\ r \in Seq(Nodes) /\ IsInjective(r) /\ e \notin ToSet(r) /\ e \in Nodes
  <2>1. ToSet(Without(s, j)) = ToSet(s) \ {s[j]} /\ s[j] \in Nodes
    BY WithoutIs
  <2>2. QED
    BY <2>1, WithoutIs
<1>2. (CHOOSE n \in {e} : TRUE) = e /\ {e} # {}
  OBVIOUS
<1>3. SUFFICES RemoveFirst(RingOf(f), e) = r
  BY <1>2, <1>3 DEF OrderFrom, Fronted
<1>4. CASE Spells(f, s)
  <2>1. RingOf(f) = s
    BY <1>4, RingIs
  <2>2. QED
    BY <2>1, RemoveFirstIs
<1>5. CASE Spells(f, r)
  <2>1. RingOf(f) = r
    BY <1>1, <1>5, RingIs
  <2>2. QED
    BY <1>1, <2>1, RemoveFirstIs
<1>6. CASE Spells(f, Fronted(s, j))
  <2>1. PICK t \in Seq(Nodes) : t = <<e>> \o r /\ IsInjective(t) /\ t[1] = e /\ 1 \in 1 .. Len(t)
    <3>1. /\ <<e>> \o r \in Seq(Nodes) /\ IsInjective(<<e>> \o r) /\ (<<e>> \o r)[1] = e
          /\ Len(<<e>> \o r) = Len(r) + 1
      BY <1>1, ConsIs
    <3>2. 1 \in 1 .. Len(<<e>> \o r)
      <4>1. Len(r) \in Nat
        BY <1>1, LenProperties
      <4>2. QED
        BY <3>1, <4>1
    <3>3. QED
      BY <3>1, <3>2, Zenon
  <2>2. Without(t, 1) = r
    BY <1>1, <2>1, ConsWithout
  <2>3. Spells(f, t)
    BY <1>6, <2>1 DEF Fronted
  <2>4. RingOf(f) = t
    BY <2>1, <2>3, RingIs
  <2>5. RemoveFirst(t, t[1]) = Without(t, 1)
    BY <2>1, RemoveFirstIs
  <2>6. QED
    BY <2>1, <2>2, <2>4, <2>5
<1>7. QED
  BY <1>4, <1>5, <1>6

-----------------------------------------------------------------------------
(* The abstract cache *)

\* Lru's operators on sequences and sums are those of this module.
LEMMA SameOperators ==
  /\ \A f, S : Abstract!SumOver(f, S) = SumOver(f, S)
  /\ \A s : Abstract!ToSet(s) = ToSet(s)
  /\ \A s, e : Abstract!RemoveFirst(s, e) = RemoveFirst(s, e)
  /\ \A s : Abstract!Front(s) = SubSeq(s, 1, Len(s) - 1)
  /\ \A s : Abstract!Last(s) = s[Len(s)]
<1>1. \A f, S : Abstract!SumOver(f, S) = SumOver(f, S)
  BY DEF Abstract!SumOver, SumOver, Abstract!FoldFunctionOnSet, FoldFunctionOnSet,
     Abstract!MapThenFoldSet, MapThenFoldSet
<1>2. \A s : Abstract!ToSet(s) = ToSet(s)
  BY DEF Abstract!ToSet, ToSet
<1>3. \A s, e : Abstract!RemoveFirst(s, e) = RemoveFirst(s, e)
  BY DEF Abstract!RemoveFirst, RemoveFirst, Abstract!SelectInSeq, SelectInSeq,
     Abstract!RemoveAt, RemoveAt, Abstract!Min, Min
<1>4. \A s : Abstract!Front(s) = SubSeq(s, 1, Len(s) - 1)
  BY DEF Abstract!Front
<1>5. \A s : Abstract!Last(s) = s[Len(s)]
  BY DEF Abstract!Last
<1>6. QED
  BY <1>1, <1>2, <1>3, <1>4, <1>5

\* The order of LruRefinement is OrderFrom, before a step and after it.
LEMMA OrderIs ==
  /\ Order = OrderFrom(next, Moving, keyOf)
  /\ Order' = OrderFrom(next', Moving', keyOf')
BY DEF Order, OrderFrom, KeysOf, Image, Ring

\* The element that is moving is that of the goroutine that moves it.
LEMMA MovingIs ==
  ASSUME NEW p, NEW q, NEW f
  PROVE  LET moving == {f[q[g]] : g \in {h \in Goroutines : p[h] = "move"}}
         IN  /\ (\A h \in Goroutines : p[h] # "move") => moving = {}
             /\ \A g \in Goroutines :
                  (\A h \in Goroutines : p[h] = "move" <=> h = g) => moving = {f[q[g]]}
OBVIOUS

\* The same of Moving, before a step and after it.
LEMMA MovingNow ==
  /\ (\A h \in Goroutines : pc[h] # "move") => Moving = {}
  /\ \A g \in Goroutines :
       (\A h \in Goroutines : pc[h] = "move" <=> h = g) => Moving = {element[key[g]]}
  /\ (\A h \in Goroutines : pc'[h] # "move") => Moving' = {}
  /\ \A g \in Goroutines :
       (\A h \in Goroutines : pc'[h] = "move" <=> h = g) => Moving' = {element'[key'[g]]}
BY MovingIs DEF Moving

\* Every element of the ring has a key of its own, under which the map refers to it.
LEMMA KeysOfElements ==
  ASSUME IInv, MapInv
  PROVE  /\ \A n \in linked : keyOf[n] \in Keys /\ element[keyOf[n]] = n /\ n # Nil
         /\ \A m, n \in linked : keyOf[m] = keyOf[n] => m = n
         /\ \A k \in Keys : element[k] # Nil => element[k] \in linked /\ keyOf[element[k]] = k
<1>1. \A k \in Keys : element[k] # Nil => element[k] \in linked /\ keyOf[element[k]] = k
  BY DEF IInv, PointerInv
<1>2. \A n \in linked : keyOf[n] \in Keys /\ element[keyOf[n]] = n /\ n # Nil
  <2>1. TAKE n \in linked
  <2>2. PICK k \in Keys : element[k] = n /\ n # Nil
    BY DEF MapInv
  <2>3. QED
    BY <1>1, <2>2
<1>3. QED
  BY <1>1, <1>2

\* The keys of the elements of the list are those of the map.
LEMMA ImageOfList ==
  ASSUME IInv, MapInv, NEW s \in Seq(Nodes), IsInjective(s), ToSet(s) = linked
  PROVE  /\ Image(keyOf, s) \in Seq(Keys) /\ IsInjective(Image(keyOf, s))
         /\ Len(Image(keyOf, s)) = Len(s)
         /\ \A i \in 1 .. Len(s) : Image(keyOf, s)[i] = keyOf[s[i]]
         /\ ToSet(Image(keyOf, s)) = {k \in Keys : element[k] # Nil}
<1>1. /\ \A n \in ToSet(s) : keyOf[n] \in Keys
      /\ \A m, n \in ToSet(s) : keyOf[m] = keyOf[n] => m = n
  BY KeysOfElements
<1>2. /\ Image(keyOf, s) \in Seq(Keys) /\ IsInjective(Image(keyOf, s))
      /\ Len(Image(keyOf, s)) = Len(s)
      /\ \A i \in 1 .. Len(s) : Image(keyOf, s)[i] = keyOf[s[i]]
      /\ ToSet(Image(keyOf, s)) = {keyOf[n] : n \in ToSet(s)}
  BY <1>1, ImageIs
<1>3. {keyOf[n] : n \in linked} = {k \in Keys : element[k] # Nil}
  BY KeysOfElements
<1>4. QED
  BY <1>2, <1>3

\* At any time there is a sequence of the elements of the list whose keys are the
\* order: the ring, or the ring that a move will leave.
LEMMA OrderSpelled ==
  ASSUME IInv, RingInv, MapInv, OneMover
  PROVE  \E t \in Seq(Nodes) : IsInjective(t) /\ ToSet(t) = linked /\ Order = Image(keyOf, t)
<1>1. PICK s \in Seq(Nodes) :
        /\ IsInjective(s)
        /\ ToSet(s) = linked
        /\ (\A g \in Goroutines : pc[g] # "move") => Spells(next, s) /\ SpellsBack(prev, s)
        /\ \A g \in Goroutines : pc[g] = "move" =>
             \E j \in 2 .. Len(s) : s[j] = element[key[g]] /\ Stage(s, j, stmt[g])
  BY DEF RingInv
<1>2. CASE \A g \in Goroutines : pc[g] # "move"
  <2>1. Moving = {} /\ Spells(next, s)
    BY <1>1, <1>2, MovingNow
  <2>2. Order = Image(keyOf, s)
    BY <1>1, <2>1, OrderIs, OrderAtRest
  <2>3. QED
    BY <1>1, <2>2
<1>3. ASSUME NEW g \in Goroutines, pc[g] = "move"
      PROVE  \E t \in Seq(Nodes) :
               IsInjective(t) /\ ToSet(t) = linked /\ Order = Image(keyOf, t)
  <2>1. PICK j \in 2 .. Len(s) : s[j] = element[key[g]] /\ Stage(s, j, stmt[g])
    BY <1>1, <1>3
  <2>2. Moving = {s[j]}
    BY <1>3, <2>1, MovingNow DEF OneMover
  <2>3. stmt[g] \in 1 .. 6
    BY <1>3 DEF IInv, CallInv, MoveLength
  <2>4. \/ Spells(next, s)
        \/ Spells(next, Without(s, j))
        \/ Spells(next, Fronted(s, j))
    BY <2>1, <2>3 DEF Stage
  <2>5. j \in 1 .. Len(s) /\ s[j] \in linked
    <3>1. DOMAIN s = 1 .. Len(s) /\ j \in 1 .. Len(s)
      OBVIOUS
    <3>2. QED
      BY <1>1, <3>1 DEF ToSet
  <2>6. Order = Image(keyOf, Fronted(s, j))
    <3>1. IsInjective(s) /\ j \in 1 .. Len(s)
      BY <1>1, <2>5
    <3>2. OrderFrom(next, {s[j]}, keyOf) = Image(keyOf, Fronted(s, j))
      BY <2>4, <3>1, OrderOfMove
    <3>3. QED
      BY <2>2, <3>2, OrderIs
  <2>7. /\ Fronted(s, j) \in Seq(Nodes) /\ IsInjective(Fronted(s, j))
        /\ ToSet(Fronted(s, j)) = linked
    <3>1. IsInjective(s) /\ ToSet(s) = linked /\ j \in 1 .. Len(s)
      BY <1>1, <2>5
    <3>2. QED
      BY <3>1, FrontedIs
  <2>8. QED
    BY <2>6, <2>7
<1>4. QED
  BY <1>2, <1>3

\* The abstract cache holds what the map holds, and is over its limit when the
\* counter is.
LEMMA TotalIs ==
  ASSUME IInv, AccountInv, RingInv, MapInv, OneMover
  PROVE  /\ Abstract!Held = {k \in Keys : element[k] # Nil}
         /\ Abstract!Over <=> OverLimit
<1> DEFINE H == {k \in Keys : element[k] # Nil}
           f == [k \in H |-> Cap[Contents[k]]]
<1>1. PICK t \in Seq(Nodes) : IsInjective(t) /\ ToSet(t) = linked /\ Order = Image(keyOf, t)
  BY OrderSpelled
<1>2. Abstract!Held = H
  BY <1>1, ImageOfList, SameOperators DEF Abstract!Held
<1>3. Abstract!Total = SumOver(f, H)
  BY <1>2, SameOperators DEF Abstract!Total
<1>4. \A k \in H : f[k] = Held[k]
  BY DEF Contents, Held, HeldCap, MapInv
<1>5. \A k \in Keys : Held[k] \in Int
  BY CapAssumption DEF Held, HeldCap, IInv, TypeOK
<1>6. \A k \in Keys \ H : Held[k] = 0
  BY DEF Held, HeldCap, AccountInv
<1>7. IsFiniteSet(H) /\ H \in SUBSET Keys
  BY KeysAssumption, FS_Subset
<1>8. size = SumOver(Held, Keys)
  BY DEF AccountInv, SizeAccounts, Held
<1> HIDE DEF f, H
<1>9. SumOver(f, H) = SumOver(Held, H)
  BY <1>4, <1>5, <1>7, SumSame
<1>10. SumOver(Held, Keys) = SumOver(Held, H)
  BY <1>5, <1>6, <1>7, KeysAssumption, SumSubset
<1>11. Abstract!Total = size
  BY <1>3, <1>8, <1>9, <1>10
<1>12. QED
  BY <1>2, <1>11 DEF Abstract!Over, OverLimit, H

\* What the abstract cache does not see: the calls, the lock and the assignments.
LEMMA Unseen ==
  ASSUME IInv, UNCHANGED <<next, element, value, keyOf>>, Found' = Found,
         \A h \in Goroutines : pc[h] = "move" <=> pc'[h] = "move",
         \A h \in Goroutines : pc[h] \in {"move", "hit"} => key'[h] = key[h]
  PROVE  UNCHANGED Abstract!lruVars
<1>1. Moving' = Moving
  BY DEF Moving
<1>2. Order' = Order
  BY <1>1, OrderIs
<1>3. Contents' = Contents
  BY DEF Contents
<1>4. Reply' = Reply
  <2>1. CASE Found = {}
    BY <2>1 DEF Reply
  <2>2. CASE Found # {}
    <3>1. PICK g : g = CHOOSE h \in Found : TRUE
      OBVIOUS
    <3>2. g \in Found
      BY <2>2, <3>1
    <3>3. Reply = <<key[g], value[key[g]]>> /\ Reply' = <<key'[g], value'[key'[g]]>>
      BY <2>2, <3>1 DEF Reply
    <3>4. key'[g] = key[g]
      BY <3>2 DEF Found, IInv, TypeOK, RWTypeOK
    <3>5. QED
      BY <3>3, <3>4
  <2>3. QED
    BY <2>1, <2>2
<1>5. QED
  BY <1>2, <1>3, <1>4 DEF Abstract!lruVars

\* Nobody stores into a cache that is above its limit, nor does a lookup find it so.
LEMMA WithinLimit ==
  ASSUME IInv, SizeInv, MapInv, NEW g \in Goroutines,
         pc[g] \in {"load", "store"}
  PROVE  ~OverLimit
<1>1. pc[g] = "load" => g \in readers
  BY DEF IInv, LockInv
<1>2. pc[g] = "store" => writer = g
  BY DEF IInv, LockInv
<1>3. readers # {} => writer = NoGoroutine \/ pc[writer] = "drain"
  BY DEF IInv, LockInv
<1>4. QED
  BY <1>1, <1>2, <1>3 DEF SizeInv, MapInv

\* The step that finds a key present, in a lookup or a store, puts it in front of
\* the order at once, whatever assignments its move has still to make.
LEMMA StartUses ==
  ASSUME IInv, RingInv, MapInv, NEW g \in Goroutines, \A h \in Goroutines : pc[h] # "move",
         key[g] \in Keys, element[key[g]] # Nil,
         NEW rest, rest # "move", StartMove(g, element[key[g]], rest),
         UNCHANGED <<listVars, element, keyOf, key>>
  PROVE  Order' = Abstract!Used(key[g])
<1> DEFINE e == element[key[g]]
<1>1. PICK k \in Keys : k = key[g]
  OBVIOUS
<1>2. e \in linked /\ keyOf[e] = k
  BY <1>1, KeysOfElements
<1>3. pc \in [Goroutines -> Locations]
  BY DEF IInv, TypeOK
<1>4. PICK s \in Seq(Nodes) :
        IsInjective(s) /\ ToSet(s) = linked /\ Spells(next, s)
  BY DEF RingInv
<1>5. PICK j \in 1 .. Len(s) : s[j] = e
  <2>1. DOMAIN s = 1 .. Len(s)
    OBVIOUS
  <2>2. QED
    BY <1>2, <1>4, <2>1 DEF ToSet
<1>6. Order = Image(keyOf, s)
  BY <1>4, MovingNow, OrderIs, OrderAtRest
<1>7. Image(keyOf, Fronted(s, j)) = Abstract!Used(k)
  <2>1. /\ \A n \in ToSet(s) : keyOf[n] \in Keys
        /\ \A m, n \in ToSet(s) : keyOf[m] = keyOf[n] => m = n
    BY <1>4, KeysOfElements
  <2>2. Image(keyOf, Fronted(s, j))
          = <<keyOf[s[j]]>> \o RemoveFirst(Image(keyOf, s), keyOf[s[j]])
    BY <1>4, <2>1, UsedIs
  <2>3. QED
    BY <1>2, <1>5, <1>6, <2>2, SameOperators DEF Abstract!Used
<1>8. next' = next /\ keyOf' = keyOf /\ element'[key'[g]] = e
  BY DEF listVars
<1>9. CASE AtFront(e)
  <2>1. pc' = [pc EXCEPT ![g] = rest]
    BY <1>9 DEF StartMove, Goto
  <2>2. \A h \in Goroutines : pc'[h] # "move"
    BY <1>3, <2>1
  <2>3. Order' = Image(keyOf, s)
    <3>1. Order' = OrderFrom(next, {}, keyOf)
      BY <1>8, <2>2, MovingNow, OrderIs
    <3>2. QED
      BY <1>4, <3>1, OrderAtRest
  <2>4. Len(s) \in Nat /\ 1 \in 1 .. Len(s) /\ s[1] = e
    <3>1. 0 \in 0 .. Len(s) /\ 1 \in 1 .. Len(s)
      BY <1>5, AtIs
    <3>2. next[At(s, 0)] = At(s, 0 + 1)
      BY <1>4, <3>1 DEF Spells
    <3>3. next[Root] = s[1]
      BY <3>1, <3>2, AtIs
    <3>4. QED
      BY <1>2, <1>9, <3>1, <3>3, AtIs DEF AtFront
  <2>5. j = 1
    BY <1>4, <1>5, <2>4, LenProperties DEF IsInjective
  <2>6. Fronted(s, 1) = s
    BY <1>4, <2>4, FirstStays
  <2>7. QED
    BY <1>1, <1>7, <2>3, <2>5, <2>6
<1>10. CASE ~AtFront(e)
  <2>1. pc' = [pc EXCEPT ![g] = "move"]
    BY <1>10 DEF StartMove, Goto
  <2>2. \A h \in Goroutines : pc'[h] = "move" <=> h = g
    BY <1>3, <2>1
  <2>3. Moving' = {s[j]}
    BY <1>5, <1>8, <2>2, MovingNow
  <2>4. Order' = Image(keyOf, Fronted(s, j))
    <3>1. Order' = OrderFrom(next, {s[j]}, keyOf)
      BY <1>8, <2>3, OrderIs
    <3>2. IsInjective(s) /\ Spells(next, s)
      BY <1>4
    <3>3. OrderFrom(next, {s[j]}, keyOf) = Image(keyOf, Fronted(s, j))
      BY <3>2, OrderOfMove
    <3>4. QED
      BY <3>1, <3>3
  <2>5. QED
    BY <1>1, <1>7, <2>4
<1>11. QED
  BY <1>9, <1>10

\* A lookup that finds its key touches it (cache.go:40-45).
LEMMA LookupTouches ==
  ASSUME IInv, AccountInv, SizeInv, RingInv, MapInv, OneReader, OneMover,
         NEW g \in Goroutines, Lookup(g), element[key[g]] # Nil
  PROVE  Abstract!Touch(key[g])
<1>1. pc[g] = "load" /\ key[g] \in Keys /\ g \in readers
  BY DEF Lookup, IInv, LockInv, CallInv
<1>2. \A h \in readers : h = g
  BY <1>1 DEF OneReader
<1>3. \A h \in Goroutines : pc[h] # "move"
  <2>1. SUFFICES ASSUME NEW h \in Goroutines, pc[h] = "move" PROVE FALSE
    OBVIOUS
  <2>2. h \notin readers
    BY <1>1, <1>2, <2>1
  <2>3. writer = h /\ writer # NoGoroutine
    BY <2>1, <2>2, NoGoroutineAssumption DEF IInv, LockInv
  <2>4. pc[writer] = "drain"
    BY <1>1, <2>3 DEF IInv, LockInv
  <2>5. QED
    BY <2>1, <2>3, <2>4
<1>4. /\ StartMove(g, element[key[g]], "hit")
      /\ UNCHANGED <<rwVars, listVars, dataVars, callVars>>
  BY DEF Lookup
<1>5. Order' = Abstract!Used(key[g])
  BY <1>1, <1>3, <1>4, StartUses DEF dataVars, callVars
<1>6. ~Abstract!Over /\ key[g] \in Abstract!Held
  BY <1>1, TotalIs, WithinLimit
<1>7. Contents' = Contents
  BY <1>4 DEF Contents, dataVars
<1>8. Reply' = <<key[g], value[key[g]]>>
  <2>1. pc'[g] \in {"move", "hit"} /\ readers' = readers
    BY <1>4 DEF StartMove, Goto, IInv, TypeOK, rwVars
  <2>2. Found' = {g}
    BY <1>1, <1>2, <2>1 DEF Found
  <2>3. Reply' = <<key'[g], value'[key'[g]]>>
    <3>1. Found' # {} /\ (CHOOSE h \in Found' : TRUE) = g
      BY <2>2
    <3>2. QED
      BY <3>1 DEF Reply
  <2>4. QED
    BY <1>4, <2>3 DEF dataVars, callVars
<1>9. Contents[key[g]] = value[key[g]]
  BY <1>1 DEF Contents
<1>10. QED
  BY <1>5, <1>6, <1>7, <1>8, <1>9 DEF Abstract!Touch


\* The lookup that has found its key is over.
LEMMA HitAnswers ==
  ASSUME IInv, OneReader, NEW g \in Goroutines, LoadHit(g)
  PROVE  Abstract!Answer
<1>1. pc[g] = "hit" /\ g \in readers /\ \A h \in readers : h = g
  BY DEF LoadHit, IInv, LockInv, OneReader
<1>2. /\ readers' = readers \ {g} /\ pc' = [pc EXCEPT ![g] = "done"]
      /\ UNCHANGED <<listVars, dataVars, key>>
  BY DEF LoadHit, RUnlock, Goto
<1>3. Reply # <<>>
  <2>1. Found # {}
    BY <1>1 DEF Found
  <2>2. PICK h : Reply = <<key[h], value[key[h]]>>
    BY <2>1 DEF Reply
  <2>3. QED
    BY <2>2
<1>4. Reply' = <<>>
  <2>1. Found' = {}
    BY <1>1, <1>2 DEF Found
  <2>2. QED
    BY <2>1 DEF Reply
<1>5. Moving' = Moving
  <2>1. \A h \in Goroutines : pc[h] = "move" <=> pc'[h] = "move"
    BY <1>1, <1>2 DEF IInv, TypeOK
  <2>2. QED
    BY <1>2, <2>1 DEF Moving, dataVars
<1>6. Order' = Order /\ Contents' = Contents
  BY <1>2, <1>5, OrderIs DEF listVars, dataVars, Contents
<1>7. QED
  BY <1>3, <1>4, <1>6 DEF Abstract!Answer

\* No lookup has found anything while a writer runs.
LEMMA NoReply ==
  /\ readers = {} => Reply = <<>>
  /\ readers' = {} => Reply' = <<>>
BY DEF Reply, Found

\* A value that replaces that of its key makes it the most recently used key.
LEMMA ReplacePuts ==
  ASSUME IInv, AccountInv, SizeInv, RingInv, MapInv, OneMover,
         NEW g \in Goroutines, StoreReplace(g)
  PROVE  Abstract!Put(key[g], val[g])
<1>1. pc[g] = "store" /\ key[g] \in Keys /\ val[g] \in Values /\ element[key[g]] # Nil
  BY DEF StoreReplace, IInv, CallInv
<1>2. readers = {} /\ \A h \in Goroutines : pc[h] # "move"
  BY <1>1, WriterAlone
<1>3. /\ StartMove(g, element[key[g]], "evict") /\ ~TooBig(val[g])
      /\ value' = [value EXCEPT ![key[g]] = val[g]]
      /\ UNCHANGED <<rwVars, listVars, element, keyOf, callVars>>
  BY DEF StoreReplace
<1>4. Order' = Abstract!Used(key[g])
  BY <1>1, <1>2, <1>3, StartUses DEF callVars
<1>5. ~Abstract!Over /\ Abstract!Held = {k \in Keys : element[k] # Nil}
  BY <1>1, TotalIs, WithinLimit
<1>6. MaxSize > 0 => Cap[val[g]] <= MaxSize
  BY <1>1, <1>3, CapAssumption, MaxSizeAssumption DEF TooBig
<1>7. Contents' = [j \in Abstract!Held \cup {key[g]} |->
                     IF j = key[g] THEN val[g] ELSE Contents[j]]
  <2>1. Abstract!Held \cup {key[g]} = {k \in Keys : element[k] # Nil}
    BY <1>1, <1>5
  <2>2. \A j \in Keys : value'[j] = IF j = key[g] THEN val[g] ELSE value[j]
    BY <1>1, <1>3 DEF IInv, TypeOK
  <2>3. \A j \in {k \in Keys : element[k] # Nil} : Contents[j] = value[j]
    BY DEF Contents
  <2>4. Contents' = [j \in {k \in Keys : element[k] # Nil} |-> value'[j]]
    BY <1>3 DEF Contents
  <2>5. QED
    BY <2>1, <2>2, <2>3, <2>4
<1>8. Reply' = Reply
  BY <1>2, <1>3, NoReply DEF rwVars
<1>9. QED
  BY <1>4, <1>5, <1>6, <1>7, <1>8 DEF Abstract!Put

\* A key that is stored anew becomes the most recently used one.
LEMMA NewPuts ==
  ASSUME IInv, AccountInv, SizeInv, RingInv, MapInv, OneMover,
         NEW g \in Goroutines, StoreNew(g)
  PROVE  Abstract!Put(key[g], val[g])
<1>1. pc[g] = "store" /\ key[g] \in Keys /\ val[g] \in Values /\ element[key[g]] = Nil
  BY DEF StoreNew, IInv, CallInv
<1>2. readers = {} /\ \A h \in Goroutines : pc[h] # "move"
  BY <1>1, WriterAlone
<1>3. /\ ~TooBig(val[g])
      /\ value' = [value EXCEPT ![key[g]] = val[g]]
      /\ pc' = [pc EXCEPT ![g] = "evict"]
      /\ UNCHANGED <<rwVars, callVars>>
  BY DEF StoreNew, Goto
<1>4. PICK n \in Nodes : /\ n \notin linked
                         /\ PushFront(n)
                         /\ keyOf' = [keyOf EXCEPT ![n] = key[g]]
                         /\ element' = [element EXCEPT ![key[g]] = n]
  BY DEF StoreNew, Unreferenced
<1>5. PICK k \in Keys : k = key[g]
  BY <1>1
<1>6. PICK s \in Seq(Nodes) :
        IsInjective(s) /\ ToSet(s) = linked /\ Spells(next, s) /\ SpellsBack(prev, s)
  BY <1>2 DEF RingInv
<1>7. keyOf'[n] = k /\ \A m \in linked : keyOf'[m] = keyOf[m]
  BY <1>4, <1>5 DEF IInv, TypeOK, ListTypeOK
<1>8. /\ \A m \in ToSet(s) : keyOf[m] \in Keys /\ keyOf'[m] = keyOf[m]
      /\ \A l, m \in ToSet(s) : keyOf[l] = keyOf[m] => l = m
  BY <1>6, <1>7, KeysOfElements
<1>9. Order = Image(keyOf, s) /\ Order \in Seq(Keys) /\ IsInjective(Order)
      /\ ToSet(Order) = {j \in Keys : element[j] # Nil}
  <2>1. Order = Image(keyOf, s)
    BY <1>2, <1>6, MovingNow, OrderIs, OrderAtRest
  <2>2. QED
    BY <1>6, <2>1, ImageOfList
<1>10. Image(keyOf', s) = Image(keyOf, s)
  <2>1. \A i \in 1 .. Len(s) : s[i] \in ToSet(s)
    <3>1. DOMAIN s = 1 .. Len(s)
      OBVIOUS
    <3>2. QED
      BY <3>1 DEF ToSet
  <2>2. \A i \in 1 .. Len(s) : keyOf'[s[i]] = keyOf[s[i]]
    BY <1>8, <2>1
  <2>3. QED
    BY <2>2 DEF Image
<1>11. Order' = <<k>> \o Order
  <2>1. \A h \in Goroutines : pc'[h] # "move"
    BY <1>2, <1>3 DEF IInv, TypeOK
  <2>2. Moving' = {}
    BY <2>1, MovingNow
  <2>3. PICK t \in Seq(Nodes) : t = <<n>> \o s /\ IsInjective(t)
    BY <1>4, <1>6, ConsIs
  <2>4. Spells(next', t)
    BY <1>4, <1>6, <2>3, PushRing DEF IInv, TypeOK
  <2>5. Order' = OrderFrom(next', {}, keyOf')
    BY <2>2, OrderIs
  <2>6. Order' = Image(keyOf', t)
    BY <2>3, <2>4, <2>5, OrderAtRest
  <2>7. /\ \A m \in ToSet(s) : keyOf'[m] \in Keys
        /\ \A l, m \in ToSet(s) : keyOf'[l] = keyOf'[m] => l = m
        /\ keyOf'[n] \in Keys /\ n \notin ToSet(s)
    BY <1>4, <1>6, <1>7, <1>8
  <2>8. Image(keyOf', <<n>> \o s) = <<keyOf'[n]>> \o Image(keyOf', s)
    BY <1>6, <2>7, ImageCons
  <2>9. QED
    BY <1>7, <1>9, <1>10, <2>3, <2>6, <2>8
<1>12. Order' = Abstract!Used(k)
  <2>1. k \notin ToSet(Order)
    BY <1>1, <1>5, <1>9
  <2>2. RemoveFirst(Order, k) = Order
    BY <1>9, <2>1, RemoveFirstIs
  <2>3. QED
    BY <1>11, <2>2, SameOperators DEF Abstract!Used
<1>13. ~Abstract!Over /\ Abstract!Held = {j \in Keys : element[j] # Nil}
  BY <1>1, TotalIs, WithinLimit
<1>14. MaxSize > 0 => Cap[val[g]] <= MaxSize
  BY <1>1, <1>3, CapAssumption, MaxSizeAssumption DEF TooBig
<1>15. Contents' = [j \in Abstract!Held \cup {k} |-> IF j = k THEN val[g] ELSE Contents[j]]
  <2>1. n # Nil
    BY NodesAssumption
  <2>2. \A j \in Keys : element'[j] = IF j = k THEN n ELSE element[j]
    BY <1>4, <1>5 DEF IInv, TypeOK
  <2>3. {j \in Keys : element'[j] # Nil} = Abstract!Held \cup {k}
    BY <1>13, <2>1, <2>2
  <2>4. \A j \in Keys : value'[j] = IF j = k THEN val[g] ELSE value[j]
    BY <1>3, <1>5 DEF IInv, TypeOK
  <2>5. \A j \in Abstract!Held : Contents[j] = value[j]
    BY <1>13 DEF Contents
  <2>6. Contents' = [j \in {i \in Keys : element'[i] # Nil} |-> value'[j]]
    BY DEF Contents
  <2>7. Abstract!Held \subseteq Keys
    BY <1>13
  <2>8. QED
    BY <2>3, <2>4, <2>5, <2>6, <2>7
<1>16. Reply' = Reply
  BY <1>2, <1>3, NoReply DEF rwVars
<1>17. QED
  BY <1>5, <1>12, <1>13, <1>14, <1>15, <1>16 DEF Abstract!Put

\* The key that goes is the least recently used one (cache.go:71-79).
LEMMA EvictDrops ==
  ASSUME IInv, AccountInv, RingInv, MapInv, OneMover, NEW g \in Goroutines, EvictOne(g)
  PROVE  Abstract!Drop
<1>1. readers = {} /\ \A h \in Goroutines : pc[h] # "move"
  BY WriterAlone DEF EvictOne
<1>2. OverLimit
  BY DEF EvictOne
<1>3. PICK s \in Seq(Nodes) :
        IsInjective(s) /\ ToSet(s) = linked /\ Spells(next, s) /\ SpellsBack(prev, s)
  BY <1>1 DEF RingInv
<1>4. PICK e : e = s[Len(s)]
  OBVIOUS
<1>5. PICK k \in Keys : k = keyOf[e] /\ element[k] = e
  BY <1>2, <1>3, <1>4, BackIs
<1>6. Len(s) \in 1 .. Len(s) /\ e \in linked /\ e # Nil
  BY <1>2, <1>3, <1>4, BackIs
<1>7. /\ Unlink(s[Len(s)])
      /\ element' = [element EXCEPT ![k] = Nil]
      /\ value' = [value EXCEPT ![k] = Nil]
      /\ UNCHANGED <<rwVars, keyOf, pc, callVars, moveVars, panicked>>
  BY <1>3, <1>4, <1>5, EvictTakesBack
<1>8. Order = Image(keyOf, s)
  BY <1>1, <1>3, MovingNow, OrderIs, OrderAtRest
<1>9. /\ Order \in Seq(Keys) /\ Len(Order) = Len(s) /\ IsInjective(Order)
      /\ \A i \in 1 .. Len(s) : Order[i] = keyOf[s[i]]
  BY <1>3, <1>8, ImageOfList
<1>10. Abstract!Last(Order) = k
  BY <1>4, <1>5, <1>6, <1>9, SameOperators
<1>11. Order' = [i \in 1 .. Len(s) - 1 |-> keyOf[s[i]]]
  <2>1. Moving' = {}
    BY <1>1, <1>7, MovingNow
  <2>2. PICK r \in Seq(Nodes) : r = Without(s, Len(s)) /\ IsInjective(r)
    BY <1>3, <1>6, WithoutIs
  <2>3. Spells(next', r)
    BY <1>3, <1>4, <1>6, <1>7, <2>2, UnlinkRing DEF IInv, TypeOK
  <2>4. Order' = OrderFrom(next', {}, keyOf)
    BY <1>7, <2>1, OrderIs
  <2>5. Order' = Image(keyOf, r)
    BY <2>2, <2>3, <2>4, OrderAtRest
  <2>6. Image(keyOf, Without(s, Len(s))) = [i \in 1 .. Len(s) - 1 |->
          IF i < Len(s) THEN keyOf[s[i]] ELSE keyOf[s[i + 1]]]
    BY <1>3, <1>6, ImageWithout
  <2>7. \A i \in 1 .. Len(s) - 1 : i < Len(s)
    BY <1>6
  <2>8. QED
    BY <2>2, <2>5, <2>6, <2>7
<1>12. SubSeq(Order, 1, Len(Order) - 1) = [i \in 1 .. Len(s) - 1 |-> keyOf[s[i]]]
  <2>1. PICK q \in Seq(Keys) : q = Order
    BY <1>9
  <2>2. Len(s) \in Nat /\ \A i \in 1 .. Len(s) - 1 : i \in 1 .. Len(s)
    BY AtIs
  <2>3. SubSeq(q, 1, Len(s) - 1) = [i \in 1 .. Len(s) - 1 |-> q[i]]
    BY <1>9, <2>1, <2>2
  <2>4. QED
    BY <1>9, <2>1, <2>2, <2>3
<1>13. Abstract!Over /\ Abstract!Held = {j \in Keys : element[j] # Nil}
  BY <1>2, TotalIs
<1>14. Contents' = [j \in Abstract!Held \ {k} |-> Contents[j]]
  <2>1. \A j \in Keys : element'[j] = IF j = k THEN Nil ELSE element[j]
    BY <1>7 DEF IInv, TypeOK
  <2>2. {j \in Keys : element'[j] # Nil} = Abstract!Held \ {k}
    BY <1>13, <2>1
  <2>3. \A j \in Keys \ {k} : value'[j] = value[j]
    BY <1>7 DEF IInv, TypeOK
  <2>4. \A j \in Abstract!Held : Contents[j] = value[j] /\ j \in Keys
    BY <1>13 DEF Contents
  <2>5. Contents' = [j \in {i \in Keys : element'[i] # Nil} |-> value'[j]]
    BY DEF Contents
  <2>6. QED
    BY <2>2, <2>3, <2>4, <2>5
<1>15. Reply' = Reply
  BY <1>1, <1>7, NoReply DEF rwVars
<1>16. QED
  BY <1>10, <1>11, <1>12, <1>13, <1>14, <1>15, SameOperators DEF Abstract!Drop


\* The assignments of a move change nothing of the order it has had from its start.
LEMMA AssignUnseen ==
  ASSUME IInv, RingInv, MapInv, OneMover, NEW g \in Goroutines, MoveAssign(g)
  PROVE  UNCHANGED Abstract!lruVars
<1> DEFINE e == element[key[g]]
<1>1. /\ pc \in [Goroutines -> Locations] /\ stmt \in [Goroutines -> 0 .. MoveLength]
      /\ ListTypeOK /\ readers \in SUBSET Goroutines
  BY DEF IInv, TypeOK, RWTypeOK
<1>2. pc[g] = "move" /\ \A h \in Goroutines : pc[h] = "move" <=> h = g
  BY DEF MoveAssign, OneMover
<1>3. PICK i \in 1 .. MoveLength : i = stmt[g]
  BY <1>2 DEF IInv, CallInv
<1>4. PICK s \in Seq(Nodes) :
        /\ IsInjective(s)
        /\ \E j \in 2 .. Len(s) : s[j] = e /\ Stage(s, j, i)
  BY <1>2, <1>3 DEF RingInv
<1>5. PICK j \in 2 .. Len(s) : s[j] = e /\ Stage(s, j, i)
  BY <1>4
<1>6. /\ i < 6 => Stage(s, j, i + 1)'
      /\ i = 6 => Spells(next', Fronted(s, j))
  <2>1. PICK a : a = store[g]
    OBVIOUS
  <2>2. a \in MoveAssignments(i, s[j]) /\ Assign(a)
    BY <1>2, <1>3, <1>5, <2>1 DEF MoveAssign, MapInv
  <2>3. QED
    BY <1>1, <1>4, <1>5, <2>2, MoveStage
<1>7. /\ pc' = IF i = 6 THEN [pc EXCEPT ![g] = AfterMove(g)] ELSE pc
      /\ UNCHANGED <<rwVars, dataVars, callVars>>
  BY <1>3 DEF MoveAssign, MoveLength, Goto
<1>8. Order = Image(keyOf, Fronted(s, j))
  <2>1. Moving = {s[j]}
    BY <1>2, <1>5, MovingNow
  <2>2. \/ Spells(next, s)
        \/ Spells(next, Without(s, j))
        \/ Spells(next, Fronted(s, j))
    BY <1>5 DEF Stage, MoveLength
  <2>3. j \in 1 .. Len(s)
    OBVIOUS
  <2>4. IsInjective(s)
    BY <1>4
  <2>5. OrderFrom(next, {s[j]}, keyOf) = Image(keyOf, Fronted(s, j))
    BY <2>2, <2>3, <2>4, OrderOfMove
  <2>6. QED
    BY <2>1, <2>5, OrderIs
<1>9. Order' = Image(keyOf, Fronted(s, j))
  <2>1. element' = element /\ key' = key /\ keyOf' = keyOf
    BY <1>7 DEF dataVars, callVars
  <2>2. j \in 1 .. Len(s) /\ IsInjective(s)
    BY <1>4
  <2>3. CASE i < 6
    <3>1. Moving' = {s[j]}
      BY <1>2, <1>5, <1>7, <2>1, <2>3, MovingNow
    <3>2. i + 1 \in 2 .. 6 /\ Stage(s, j, i + 1)'
      BY <1>6, <2>3
    <3>3. Spells(next', Without(s, j)) \/ Spells(next', Fronted(s, j))
      BY <3>2 DEF Stage
    <3>4. Order' = OrderFrom(next', {s[j]}, keyOf)
      BY <2>1, <3>1, OrderIs
    <3>5. OrderFrom(next', {s[j]}, keyOf) = Image(keyOf, Fronted(s, j))
      BY <2>2, <3>3, OrderOfMove
    <3>6. QED
      BY <3>4, <3>5
  <2>4. CASE i = 6
    <3>1. \A h \in Goroutines : pc'[h] # "move"
      BY <1>1, <1>2, <1>7, <2>4 DEF AfterMove
    <3>2. Order' = OrderFrom(next', {}, keyOf)
      BY <2>1, <3>1, MovingNow, OrderIs
    <3>3. PICK t \in Seq(Nodes) : t = Fronted(s, j) /\ IsInjective(t)
      BY <2>2, FrontedIs
    <3>4. QED
      BY <1>6, <2>4, <3>2, <3>3, OrderAtRest
  <2>5. i \in Int /\ i <= 6
    BY DEF MoveLength
  <2>6. QED
    BY <2>3, <2>4, <2>5
<1>10. Contents' = Contents
  BY <1>7 DEF Contents, dataVars
<1>11. Reply' = Reply
  <2>1. readers' = readers /\ key' = key /\ value' = value
    BY <1>7 DEF rwVars, dataVars, callVars
  <2>2. CASE g \in readers
    <3>1. Found' = Found
      BY <1>1, <1>2, <1>7, <2>1, <2>2 DEF Found, AfterMove
    <3>2. QED
      BY <2>1, <3>1 DEF Reply
  <2>3. CASE g \notin readers
    <3>1. readers = {}
      BY <1>2, <2>3, NoGoroutineAssumption DEF IInv, LockInv
    <3>2. QED
      BY <2>1, <3>1, NoReply
  <2>4. QED
    BY <2>2, <2>3
<1>12. QED
  BY <1>8, <1>9, <1>10, <1>11 DEF Abstract!lruVars

\* Every step of the cache is one of the abstract cache, or nothing it sees.
LEMMA LruStep ==
  ASSUME IInv, AccountInv, SizeInv, RingInv, MapInv, OneReader, [Next]_vars
  PROVE  [Abstract!LruNext]_(Abstract!lruVars)
<1> USE DEF dataVars, callVars, moveVars, rwVars, listVars
<1> DEFINE Goal == [Abstract!LruNext]_(Abstract!lruVars)
<1>1. ASSUME UNCHANGED <<next, element, value, keyOf>>, Found' = Found,
             \A h \in Goroutines : pc[h] = "move" <=> pc'[h] = "move",
             \A h \in Goroutines : pc[h] \in {"move", "hit"} => key'[h] = key[h]
      PROVE  Goal
  BY <1>1, Unseen
<1>2. CASE UNCHANGED vars
  BY <1>1, <1>2 DEF vars, Found
<1>3. OneMover
  BY OneReaderOneMover
<1>4. ASSUME NEW g \in Goroutines, Call(g) \/ Step(g)
      PROVE  Goal
  <2>1. pc \in [Goroutines -> Locations] /\ readers \in SUBSET Goroutines
        /\ key \in [Goroutines -> Keys \cup {Nil}]
    BY DEF IInv, TypeOK, RWTypeOK
  <2> USE DEF Goto, Found
  <2> HIDE DEF Goal
  <2>2. ASSUME NEW m \in Methods \ {"store"}, NEW k \in Keys, CallRead(g, m, k)
        PROVE  Goal
    BY <1>1, <2>1, <2>2 DEF CallRead
  <2>3. ASSUME NEW k \in Keys, NEW v \in Made[k], CallStore(g, k, v)
        PROVE  Goal
    BY <1>1, <2>1, <2>3 DEF CallStore
  <2>4. CASE LoadLock(g)
    BY <1>1, <2>1, <2>4 DEF LoadLock, RLock
  <2>5. CASE LoadBlocked(g)
    BY <1>1, <2>1, <2>5 DEF LoadBlocked, RLockBlocked
  <2>6. CASE Lookup(g) /\ element[key[g]] = Nil
    BY <1>1, <2>1, <2>6 DEF Lookup
  <2>7. CASE Lookup(g) /\ element[key[g]] # Nil
    <3>1. key[g] \in Keys
      BY <2>7 DEF Lookup, IInv, CallInv
    <3>2. Abstract!Touch(key[g])
      BY <1>3, <2>7, LookupTouches
    <3>3. QED
      BY <3>1, <3>2 DEF Abstract!LruNext, Goal
  <2>8. CASE LoadHit(g)
    BY <2>8, HitAnswers DEF Abstract!LruNext, Goal
  <2>9. CASE LoadMiss(g)
    BY <1>1, <2>1, <2>9 DEF LoadMiss, RUnlock
  <2>10. CASE MoveEvaluate(g)
    BY <1>1, <2>1, <2>10, MoveEvaluates
  <2>11. CASE MoveAssign(g)
    BY <1>3, <2>11, AssignUnseen DEF Goal
  <2>12. CASE LockWanted(g)
    BY <1>1, <2>1, <2>12 DEF LockWanted, LockAnnounce
  <2>13. CASE LockHeld(g)
    BY <1>1, <2>1, <2>13 DEF LockHeld
  <2>14. CASE Recheck(g)
    BY <1>1, <2>1, <2>14 DEF Recheck
  <2>15. CASE Create(g)
    BY <1>1, <2>1, <2>15 DEF Create
  <2>16. CASE CreateFailed(g)
    BY <1>1, <2>1, <2>16 DEF CreateFailed
  <2>17. CASE StoreTooBig(g)
    BY <1>1, <2>1, <2>17 DEF StoreTooBig
  <2>18. CASE StoreReplace(g) \/ StoreNew(g)
    <3>1. key[g] \in Keys /\ val[g] \in Values
      BY <2>18 DEF StoreReplace, StoreNew, IInv, CallInv
    <3>2. Abstract!Put(key[g], val[g])
      BY <1>3, <2>18, ReplacePuts, NewPuts
    <3>3. QED
      BY <3>1, <3>2 DEF Abstract!LruNext, Goal
  <2>19. CASE EvictDone(g)
    BY <1>1, <2>1, <2>19 DEF EvictDone
  <2>20. CASE EvictOne(g)
    BY <1>3, <2>20, EvictDrops DEF Abstract!LruNext, Goal
  <2>21. CASE Release(g)
    <3>1. readers = {} /\ \A h \in waiting : pc[h] = "rwait"
      BY <2>21, WriterAlone DEF Release, IInv, LockInv
    <3>2. \A h \in Goroutines : pc[h] = "move" <=> pc'[h] = "move"
      BY <2>1, <2>21, <3>1 DEF Release
    <3>3. Found = {} /\ Found' = {}
      <4>1. \A h \in readers' : h \in waiting
        BY <2>21, <3>1 DEF Release, Unlock
      <4>2. \A h \in waiting : h \in Goroutines /\ pc'[h] \in {"load", "done"}
        BY <2>21 DEF Release, IInv, TypeOK, RWTypeOK
      <4>3. QED
        BY <3>1, <4>1, <4>2
    <3>4. QED
      BY <1>1, <2>21, <3>2, <3>3 DEF Release
  <2>22. CASE Return(g)
    BY <1>1, <2>1, <2>22 DEF Return
  <2>23. QED
    BY <1>4, <2>2, <2>3, <2>4, <2>5, <2>6, <2>7, <2>8, <2>9, <2>10, <2>11, <2>12, <2>13,
       <2>14, <2>15, <2>16, <2>17, <2>18, <2>19, <2>20, <2>21, <2>22
    DEF Call, Step, LoadStep, MoveStep, StoreStep
<1>5. QED
  BY <1>2, <1>4 DEF Next

\* The empty cache is the empty abstract cache.
LEMMA LruInitially ==
  ASSUME Init
  PROVE  Abstract!LruInit
<1>1. <<>> \in Seq(Nodes) /\ Len(<<>>) = 0 /\ DOMAIN <<>> = {}
  BY EmptySeq
<1>2. PICK s \in Seq(Nodes) : s = <<>> /\ IsInjective(s) /\ Len(s) = 0
  BY <1>1 DEF IsInjective
<1>3. next[Root] = Root
  BY DEF Init, ListInit, Address
<1>4. Spells(next, s)
  BY <1>2, <1>3 DEF Spells, At
<1>5. Order = Image(keyOf, s)
  <2>1. Moving = {}
    BY DEF Init, Moving
  <2>2. QED
    BY <1>2, <1>4, <2>1, OrderIs, OrderAtRest
<1>6. Order = <<>>
  BY <1>2, <1>5 DEF Image
<1>7. Contents = [k \in {} |-> 0]
  <2>1. {j \in Keys : element[j] # Nil} = {}
    BY DEF Init
  <2>2. QED
    BY <2>1 DEF Contents
<1>8. Reply = <<>>
  BY NoReply DEF Init, RWInit
<1>9. QED
  BY <1>6, <1>7, <1>8 DEF Abstract!LruInit

-----------------------------------------------------------------------------
(* The cache is a least-recently-used cache *)

\* As long as no two lookups hold the lock together, whatever else the goroutines
\* do, every lookup that hits and every store make their key the most recently
\* used one, what is evicted is the least recently used key, and nothing but
\* evictions happens above the limit: lruCache implements Lru, its pointers and
\* its lock the order of Lru (cache.go:39-114).
THEOREM ImplementsLru == Spec /\ []OneReader => IsLru
<1>1. Init => Abstract!LruInit
  BY LruInitially
<1>2. IInv /\ AccountInv /\ SizeInv /\ (RingInv /\ MapInv) /\ OneReader /\ [Next]_vars
        => [Abstract!LruNext]_(Abstract!lruVars)
  BY LruStep
<1>3. IInv /\ OneReader => OneMover
  BY OneReaderOneMover
<1>4. Spec /\ []OneReader => []OneMover
  BY <1>3, Invariance, PTL
<1>5. QED
  BY <1>1, <1>2, <1>4, Invariance, AccountInvariance, SizeInvariance, RingInvariance, PTL
     DEF Spec, IsLru, Abstract!LruSpec

\* A cache of one goroutine is an Lru cache, without any hypothesis.
THEOREM AloneImplementsLru ==
  ASSUME NEW g, Goroutines = {g}
  PROVE  Spec => IsLru
<1>1. IInv => OneReader
  BY DEF IInv, TypeOK, RWTypeOK, OneReader
<1>2. QED
  BY <1>1, Invariance, ImplementsLru, PTL

=============================================================================
