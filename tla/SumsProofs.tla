----------------------------- MODULE SumsProofs -----------------------------
(***************************************************************************)
(* Facts about sums over finite sets.  The sum is defined by a recursive    *)
(* function on sets: that it is what the recursion asks for, and the same   *)
(* in whatever order the elements are taken, is proved by looking at the    *)
(* least cardinality for which it would not be.                             *)
(***************************************************************************)
EXTENDS Sums, LeastNumber, FiniteSetTheorems, TLAPS

-----------------------------------------------------------------------------
(* The recursion *)

\* The element that the recursion takes out of s.
Chosen(s) == CHOOSE x \in s : TRUE

\* What the recursion asks of the sum over s, given those over its subsets.
Recursion(f, g, s) ==
  IF s = {} THEN 0 ELSE f[Chosen(s)] + g[s \ {Chosen(s)}]

\* The function on the subsets of S that the recursion defines.
Iterated(f, S) == CHOOSE g : g = [s \in SUBSET S |-> Recursion(f, g, s)]

\* Taking the chosen element out of a finite set leaves a smaller set.
LEMMA ChosenLeaves ==
  ASSUME NEW s, IsFiniteSet(s), s # {}
  PROVE  /\ Chosen(s) \in s
         /\ IsFiniteSet(s \ {Chosen(s)})
         /\ Cardinality(s) \in Nat
         /\ Cardinality(s \ {Chosen(s)}) \in Nat
         /\ Cardinality(s \ {Chosen(s)}) = Cardinality(s) - 1
<1>1. Chosen(s) \in s
  BY DEF Chosen
<1>2. QED
  BY <1>1, FS_RemoveElement, FS_CardinalityType

\* Some function on the subsets of S is what the recursion asks for.
LEMMA IteratedExists ==
  ASSUME NEW S, IsFiniteSet(S), NEW f, \A x \in S : f[x] \in Int
  PROVE  \E g \in [SUBSET S -> Int] : g = [s \in SUBSET S |-> Recursion(f, g, s)]
<1> DEFINE UpTo(n) == \E g \in [SUBSET S -> Int] :
                        \A s \in SUBSET S : Cardinality(s) <= n => g[s] = Recursion(f, g, s)
           Bad == {n \in Nat : ~UpTo(n)}
<1>1. \A s \in SUBSET S : IsFiniteSet(s) /\ Cardinality(s) \in Nat
                          /\ Cardinality(s) <= Cardinality(S)
  BY FS_Subset, FS_CardinalityType
<1>2. UpTo(0)
  <2> DEFINE g == [s \in SUBSET S |-> 0]
  <2>1. \A s \in SUBSET S : Cardinality(s) <= 0 => s = {}
    BY <1>1, FS_EmptySet
  <2>2. g \in [SUBSET S -> Int]
    OBVIOUS
  <2>3. \A s \in SUBSET S : Cardinality(s) <= 0 => g[s] = Recursion(f, g, s)
    BY <2>1 DEF Recursion
  <2>4. QED
    BY <2>2, <2>3
<1>3. ASSUME NEW n \in Nat, UpTo(n) PROVE UpTo(n + 1)
  <2>1. PICK g \in [SUBSET S -> Int] :
          \A s \in SUBSET S : Cardinality(s) <= n => g[s] = Recursion(f, g, s)
    BY <1>3
  <2> DEFINE h == [s \in SUBSET S |->
                     IF Cardinality(s) <= n THEN g[s] ELSE Recursion(f, g, s)]
  <2>2. ASSUME NEW s \in SUBSET S PROVE Recursion(f, g, s) \in Int
    <3>1. CASE s = {}
      BY <3>1 DEF Recursion
    <3>2. CASE s # {}
      <4>1. Chosen(s) \in S /\ s \ {Chosen(s)} \in SUBSET S
        BY <1>1, <3>2, ChosenLeaves
      <4>2. f[Chosen(s)] \in Int /\ g[s \ {Chosen(s)}] \in Int
        BY <4>1
      <4>3. QED
        BY <3>2, <4>2 DEF Recursion
    <3>3. QED
      BY <3>1, <3>2
  <2>3. h \in [SUBSET S -> Int]
    BY <2>2
  <2>4. ASSUME NEW s \in SUBSET S, Cardinality(s) <= n + 1
        PROVE  h[s] = Recursion(f, h, s)
    <3>1. h[s] = Recursion(f, g, s)
      BY <2>1
    <3>2. CASE s = {}
      BY <3>1, <3>2 DEF Recursion
    <3>3. CASE s # {}
      <4>1. Cardinality(s \ {Chosen(s)}) <= n /\ s \ {Chosen(s)} \in SUBSET S
        BY <1>1, <2>4, <3>3, ChosenLeaves
      <4>2. h[s \ {Chosen(s)}] = g[s \ {Chosen(s)}]
        BY <4>1
      <4>3. QED
        BY <3>1, <3>3, <4>2 DEF Recursion
    <3>4. QED
      BY <3>2, <3>3
  <2>5. QED
    BY <2>3, <2>4
<1>4. Bad = {}
  <2>1. SUFFICES ASSUME Bad # {} PROVE FALSE
    OBVIOUS
  <2>2. PICK n \in Bad : \A m \in Bad : n <= m
    BY <2>1, LeastElement
  <2>3. n # 0
    BY <1>2, <2>2
  <2>4. n \in Nat /\ n - 1 \in Nat /\ n = (n - 1) + 1 /\ ~(n <= n - 1)
    BY <2>3
  <2>5. UpTo(n - 1)
    BY <2>2, <2>4
  <2>6. UpTo((n - 1) + 1)
    BY <1>3, <2>4, <2>5
  <2>7. QED
    BY <2>4, <2>6
<1>5. UpTo(Cardinality(S))
  BY <1>1, <1>4
<1>6. PICK g \in [SUBSET S -> Int] :
        \A s \in SUBSET S : Cardinality(s) <= Cardinality(S) => g[s] = Recursion(f, g, s)
  BY <1>5
<1>7. g = [s \in SUBSET S |-> Recursion(f, g, s)]
  BY <1>1, <1>6
<1>8. QED
  BY <1>7

\* So Iterated is such a function.
LEMMA IteratedIs ==
  ASSUME NEW S, IsFiniteSet(S), NEW f, \A x \in S : f[x] \in Int
  PROVE  Iterated(f, S) = [s \in SUBSET S |-> Recursion(f, Iterated(f, S), s)]
BY IteratedExists DEF Iterated

\* The recursion over S and that over a subset of S agree on what they share.
LEMMA IteratedAgree ==
  ASSUME NEW S, IsFiniteSet(S), NEW f, \A x \in S : f[x] \in Int,
         NEW T \in SUBSET S, NEW g, \A x \in T : g[x] = f[x]
  PROVE  \A s \in SUBSET T : Iterated(g, T)[s] = Iterated(f, S)[s] /\ Iterated(g, T)[s] \in Int
<1> DEFINE G == Iterated(g, T)
           F == Iterated(f, S)
           Agree(s) == G[s] = F[s] /\ G[s] \in Int
           Bad == {n \in Nat : \E s \in SUBSET T : Cardinality(s) = n /\ ~Agree(s)}
<1>1. \A s \in SUBSET T : IsFiniteSet(s) /\ Cardinality(s) \in Nat
  BY FS_Subset, FS_CardinalityType
<1>2. /\ \A s \in SUBSET T : G[s] = Recursion(g, G, s)
      /\ \A s \in SUBSET T : F[s] = Recursion(f, F, s)
  <2>1. G = [s \in SUBSET T |-> Recursion(g, G, s)]
    BY <1>1, IteratedIs
  <2>2. F = [s \in SUBSET S |-> Recursion(f, F, s)]
    BY IteratedIs
  <2> HIDE DEF F, G
  <2>3. QED
    BY <2>1, <2>2
<1> HIDE DEF F, G
<1>3. Bad = {}
  <2>1. SUFFICES ASSUME Bad # {} PROVE FALSE
    OBVIOUS
  <2>2. PICK n \in Bad : \A m \in Bad : n <= m
    BY <2>1, LeastElement
  <2>3. PICK s \in SUBSET T : Cardinality(s) = n /\ ~Agree(s)
    BY <2>2
  <2>4. s # {}
    <3>1. SUFFICES ASSUME s = {} PROVE Agree(s)
      BY <2>3
    <3>2. G[s] = 0 /\ F[s] = 0
      BY <1>2, <3>1 DEF Recursion
    <3>3. QED
      BY <3>2
  <2> DEFINE c == Chosen(s)
  <2>5. /\ c \in T
        /\ s \ {c} \in SUBSET T
        /\ Cardinality(s \ {c}) \in Nat
        /\ Cardinality(s \ {c}) < n
    BY <1>1, <2>3, <2>4, ChosenLeaves
  <2>6. Agree(s \ {c})
    BY <2>2, <2>5
  <2>7. g[c] = f[c] /\ g[c] \in Int
    BY <2>5
  <2>8. G[s] = g[c] + G[s \ {c}] /\ F[s] = f[c] + F[s \ {c}]
    BY <1>2, <2>4 DEF Recursion
  <2>9. QED
    BY <2>3, <2>6, <2>7, <2>8
<1>4. QED
  BY <1>1, <1>3 DEF F, G

-----------------------------------------------------------------------------
(* What a sum is *)

\* The sum is what the recursion gives for the whole set.
LEMMA SumIsIterated ==
  ASSUME NEW f, NEW S
  PROVE  SumOver(f, S) = Iterated(f, S)[S]
BY DEF SumOver, FoldFunctionOnSet, MapThenFoldSet, Iterated, Recursion, Chosen

\* The sum of integers is an integer.
LEMMA SumType ==
  ASSUME NEW S, IsFiniteSet(S), NEW f, \A x \in S : f[x] \in Int
  PROVE  SumOver(f, S) \in Int
BY IteratedAgree, SumIsIterated

\* There is nothing in the empty set.
LEMMA SumEmpty ==
  ASSUME NEW f
  PROVE  SumOver(f, {}) = 0
<1>1. Iterated(f, {}) = [s \in SUBSET {} |-> Recursion(f, Iterated(f, {}), s)]
  BY IteratedIs, FS_EmptySet
<1>2. Iterated(f, {})[{}] = Recursion(f, Iterated(f, {}), {})
  BY <1>1
<1>3. QED
  BY <1>2, SumIsIterated DEF Recursion

\* Functions that agree on a set have the same sum over it.
LEMMA SumSame ==
  ASSUME NEW S, IsFiniteSet(S), NEW f, \A x \in S : f[x] \in Int,
         NEW g, \A x \in S : g[x] = f[x]
  PROVE  SumOver(g, S) = SumOver(f, S)
BY IteratedAgree, SumIsIterated

\* The sum is the chosen element's number and the sum of the others.
LEMMA SumChosen ==
  ASSUME NEW S, IsFiniteSet(S), S # {}, NEW f, \A x \in S : f[x] \in Int
  PROVE  SumOver(f, S) = f[Chosen(S)] + SumOver(f, S \ {Chosen(S)})
<1> DEFINE T == S \ {Chosen(S)}
           F == Iterated(f, S)
<1>1. F = [s \in SUBSET S |-> Recursion(f, F, s)]
  BY IteratedIs
<1>2. SumOver(f, S) = F[S] /\ SumOver(f, T) = F[T]
  <2>1. Iterated(f, T)[T] = F[T]
    BY IteratedAgree
  <2>2. QED
    BY <2>1, SumIsIterated
<1> HIDE DEF F
<1>3. F[S] = Recursion(f, F, S)
  BY <1>1
<1>4. QED
  BY <1>2, <1>3 DEF Recursion

\* Any element may be taken out of the sum first.
THEOREM SumRemove ==
  ASSUME NEW S, IsFiniteSet(S), NEW f, \A x \in S : f[x] \in Int, NEW x \in S
  PROVE  SumOver(f, S) = f[x] + SumOver(f, S \ {x})
<1> DEFINE Taken(s, y) == SumOver(f, s) = f[y] + SumOver(f, s \ {y})
           Bad == {n \in Nat : \E s \in SUBSET S : Cardinality(s) = n /\ \E y \in s : ~Taken(s, y)}
<1>1. \A s \in SUBSET S : IsFiniteSet(s) /\ Cardinality(s) \in Nat /\ SumOver(f, s) \in Int
  BY FS_Subset, FS_CardinalityType, SumType
<1>2. Bad = {}
  <2>1. SUFFICES ASSUME Bad # {} PROVE FALSE
    OBVIOUS
  <2>2. PICK n \in Bad : \A m \in Bad : n <= m
    BY <2>1, LeastElement
  <2>3. PICK s \in SUBSET S : Cardinality(s) = n /\ \E y \in s : ~Taken(s, y)
    BY <2>2
  <2>4. PICK y \in s : ~Taken(s, y)
    BY <2>3
  <2> DEFINE c == Chosen(s)
  <2>5. /\ c \in s
        /\ Cardinality(s \ {c}) \in Nat
        /\ Cardinality(s \ {c}) < n
        /\ Cardinality(s \ {y}) \in Nat
        /\ Cardinality(s \ {y}) < n
    BY <1>1, <2>3, ChosenLeaves, FS_RemoveElement
  <2>6. Taken(s, c)
    BY <1>1, <2>3, <2>4, SumChosen
  <2>7. c # y
    BY <2>4, <2>6
  <2>8. ASSUME NEW t \in SUBSET S, Cardinality(t) < n, NEW z \in t
        PROVE  Taken(t, z)
    <3>1. SUFFICES ASSUME ~Taken(t, z) PROVE FALSE
      OBVIOUS
    <3>2. Cardinality(t) \in Bad
      BY <1>1, <3>1
    <3>3. QED
      BY <2>2, <2>8, <3>2
  <2>9. Taken(s \ {c}, y) /\ Taken(s \ {y}, c)
    <3>1. y \in s \ {c} /\ c \in s \ {y}
      BY <2>5, <2>7
    <3>2. QED
      BY <2>5, <2>8, <3>1
  <2>10. (s \ {c}) \ {y} = (s \ {y}) \ {c}
    OBVIOUS
  <2> DEFINE rest == SumOver(f, (s \ {y}) \ {c})
  <2>11. f[c] \in Int /\ f[y] \in Int /\ rest \in Int
    BY <1>1, <2>5
  <2>12. /\ SumOver(f, s) = f[c] + SumOver(f, s \ {c})
         /\ SumOver(f, s \ {c}) = f[y] + rest
         /\ SumOver(f, s \ {y}) = f[c] + rest
    BY <2>6, <2>9, <2>10
  <2>13. SumOver(f, s) = f[y] + SumOver(f, s \ {y})
    BY <2>11, <2>12
  <2>14. QED
    BY <2>4, <2>13
<1>3. Cardinality(S) \in Nat
  BY <1>1
<1>4. QED
  BY <1>2, <1>3

\* Changing the number of one element changes the sum by as much.
THEOREM SumExcept ==
  ASSUME NEW S, IsFiniteSet(S), NEW f \in [S -> Int], NEW x \in S, NEW v \in Int
  PROVE  SumOver([f EXCEPT ![x] = v], S) = SumOver(f, S) + (v - f[x])
<1> DEFINE g == [f EXCEPT ![x] = v]
<1>1. g \in [S -> Int] /\ g[x] = v /\ \A y \in S \ {x} : g[y] = f[y]
  OBVIOUS
<1>2. IsFiniteSet(S \ {x})
  BY FS_RemoveElement
<1>3. SumOver(g, S \ {x}) = SumOver(f, S \ {x}) /\ SumOver(f, S \ {x}) \in Int
  BY <1>1, <1>2, SumSame, SumType
<1> HIDE DEF g
<1>4. SumOver(f, S) = f[x] + SumOver(f, S \ {x})
  BY SumRemove
<1>5. SumOver(g, S) = v + SumOver(g, S \ {x})
  BY <1>1, SumRemove
<1>6. SumOver(g, S) = SumOver(f, S) + (v - f[x])
  BY <1>3, <1>4, <1>5
<1>7. QED
  BY <1>6 DEF g

\* Noughts add up to nought.
THEOREM SumOfNoughts ==
  ASSUME NEW S, IsFiniteSet(S), NEW f, \A x \in S : f[x] = 0
  PROVE  SumOver(f, S) = 0
<1> DEFINE Bad == {n \in Nat : \E s \in SUBSET S : Cardinality(s) = n /\ SumOver(f, s) # 0}
<1>1. \A s \in SUBSET S : IsFiniteSet(s) /\ Cardinality(s) \in Nat
  BY FS_Subset, FS_CardinalityType
<1>2. Bad = {}
  <2>1. SUFFICES ASSUME Bad # {} PROVE FALSE
    OBVIOUS
  <2>2. PICK n \in Bad : \A m \in Bad : n <= m
    BY <2>1, LeastElement
  <2>3. PICK s \in SUBSET S : Cardinality(s) = n /\ SumOver(f, s) # 0
    BY <2>2
  <2>4. s # {}
    BY <2>3, SumEmpty
  <2>5. Chosen(s) \in s /\ SumOver(f, s) = f[Chosen(s)] + SumOver(f, s \ {Chosen(s)})
    <3>1. IsFiniteSet(s) /\ \A y \in s : f[y] \in Int
      BY <1>1
    <3>2. QED
      BY <2>4, <3>1, SumChosen, ChosenLeaves
  <2>6. Cardinality(s \ {Chosen(s)}) \in Nat /\ Cardinality(s \ {Chosen(s)}) < n
    BY <1>1, <2>3, <2>4, ChosenLeaves
  <2>7. SumOver(f, s \ {Chosen(s)}) = 0
    BY <2>2, <2>6
  <2>8. QED
    BY <2>3, <2>5, <2>7
<1>3. QED
  BY <1>1, <1>2

\* What counts for nought may be left out of the sum.
THEOREM SumSubset ==
  ASSUME NEW S, IsFiniteSet(S), NEW f, \A x \in S : f[x] \in Int,
         NEW T \in SUBSET S, \A x \in S \ T : f[x] = 0
  PROVE  SumOver(f, S) = SumOver(f, T)
<1> DEFINE Differ(U) == T \subseteq U /\ SumOver(f, U) # SumOver(f, T)
           Bad == {n \in Nat : \E U \in SUBSET S : Cardinality(U) = n /\ Differ(U)}
<1>1. \A U \in SUBSET S : IsFiniteSet(U) /\ Cardinality(U) \in Nat
  BY FS_Subset, FS_CardinalityType
<1>2. Bad = {}
  <2>1. SUFFICES ASSUME Bad # {} PROVE FALSE
    OBVIOUS
  <2>2. PICK n \in Bad : \A m \in Bad : n <= m
    BY <2>1, LeastElement
  <2>3. PICK U \in SUBSET S :
          T \subseteq U /\ Cardinality(U) = n /\ SumOver(f, U) # SumOver(f, T)
    BY <2>2
  <2>4. PICK x \in U : x \notin T
    BY <2>3
  <2> DEFINE V == U \ {x}
  <2>5. V \in SUBSET S /\ T \subseteq V
    BY <2>3, <2>4
  <2>6. Cardinality(V) \in Nat /\ Cardinality(V) < n
    BY <1>1, <2>3, <2>4, FS_RemoveElement
  <2>7. SumOver(f, V) = SumOver(f, T)
    BY <2>2, <2>5, <2>6
  <2>8. SumOver(f, U) = f[x] + SumOver(f, V)
    <3>1. IsFiniteSet(U) /\ \A y \in U : f[y] \in Int
      BY <1>1
    <3>2. QED
      BY <3>1, SumRemove
  <2>9. f[x] = 0 /\ SumOver(f, V) \in Int
    <3>1. IsFiniteSet(V) /\ \A y \in V : f[y] \in Int
      BY <1>1, <2>5
    <3>2. QED
      BY <2>4, <3>1, SumType
  <2>10. QED
    BY <2>3, <2>7, <2>8, <2>9
<1>3. QED
  BY <1>1, <1>2

=============================================================================
