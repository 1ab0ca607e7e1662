------------------------- MODULE ConfigurationProofs -------------------------
(***************************************************************************)
(* Proofs about the byte sizes of Configuration: what a size is read as,    *)
(* printed as, and read as again, for every base and every width of word.   *)
(***************************************************************************)
EXTENDS Configuration, TLAPS

\* Each unit is the one before times the base.
LEMMA UnitsGrow ==
  /\ \A i \in 1 .. 6 : Units[i] \in Nat /\ Units[i] > 0
  /\ Units[1] = 1
  /\ \A i \in 1 .. 5 : Units[i + 1] = Units[i] * Base
  /\ \A i, j \in 1 .. 6 : i <= j => Units[i] <= Units[j]
<1>1. Base \in Nat /\ Base > 1
  BY BaseAssumption
<1>2. ASSUME NEW u \in Nat, u > 0
      PROVE  u * Base \in Nat /\ u * Base > 0 /\ u <= u * Base
  BY <1>1, <1>2
<1>3. /\ Units[1] = 1
      /\ Units[2] = Units[1] * Base
      /\ Units[3] = Units[2] * Base
      /\ Units[4] = Units[3] * Base
      /\ Units[5] = Units[4] * Base
      /\ Units[6] = Units[5] * Base
  BY <1>1 DEF Units
<1>4. /\ Units[1] \in Nat /\ Units[1] > 0
      /\ Units[2] \in Nat /\ Units[2] > 0 /\ Units[1] <= Units[2]
      /\ Units[3] \in Nat /\ Units[3] > 0 /\ Units[2] <= Units[3]
      /\ Units[4] \in Nat /\ Units[4] > 0 /\ Units[3] <= Units[4]
      /\ Units[5] \in Nat /\ Units[5] > 0 /\ Units[4] <= Units[5]
      /\ Units[6] \in Nat /\ Units[6] > 0 /\ Units[5] <= Units[6]
  <2>1. Units[1] \in Nat /\ Units[1] > 0
    BY <1>3
  <2>2. Units[2] \in Nat /\ Units[2] > 0 /\ Units[1] <= Units[2]
    BY <1>2, <1>3, <2>1
  <2>3. Units[3] \in Nat /\ Units[3] > 0 /\ Units[2] <= Units[3]
    BY <1>2, <1>3, <2>2
  <2>4. Units[4] \in Nat /\ Units[4] > 0 /\ Units[3] <= Units[4]
    BY <1>2, <1>3, <2>3
  <2>5. Units[5] \in Nat /\ Units[5] > 0 /\ Units[4] <= Units[5]
    BY <1>2, <1>3, <2>4
  <2>6. Units[6] \in Nat /\ Units[6] > 0 /\ Units[5] <= Units[6]
    BY <1>2, <1>3, <2>5
  <2>7. QED
    BY <2>1, <2>2, <2>3, <2>4, <2>5, <2>6
<1>5. QED
  BY <1>3, <1>4

\* A number that fits a word is not changed by being put into one.
LEMMA WrapOfInt64 ==
  ASSUME NEW n \in Int64
  PROVE  Wrap(n) = n
<1>1. Word \in Nat /\ Word > 0
  BY WordAssumption, UnitsGrow
<1>2. ASSUME NEW a \in Nat, NEW b \in Nat, a < b PROVE a % b = a
  BY <1>2
<1>3. n + Word \in Nat /\ 2 * Word \in Nat /\ n + Word < 2 * Word /\ n \in Int
  BY <1>1 DEF Int64
<1>4. (n + Word) % (2 * Word) = n + Word
  BY <1>2, <1>3
<1>5. QED
  BY <1>1, <1>3, <1>4 DEF Wrap

\* Dividing leaves less than the divisor.
LEMMA Rest ==
  ASSUME NEW a \in Nat, NEW b \in Nat, b > 0
  PROVE  a \div b \in Nat /\ a - (a \div b) * b \in 0 .. b - 1
OBVIOUS

\* There are five suffixes, all different.
LEMMA SuffixesDiffer ==
  /\ Len(SizePrefixes) = 5 /\ DOMAIN SizePrefixes = 1 .. 5
  /\ \A i, j \in 1 .. 5 : SizePrefixes[i] = SizePrefixes[j] => i = j
<1>1. Len(SizePrefixes) = 5
  BY DEF SizePrefixes
<1>2. ASSUME NEW a, NEW b, NEW c, NEW d, NEW e
      PROVE  DOMAIN <<a, b, c, d, e>> = 1 .. 5
  OBVIOUS
<1>3. DOMAIN SizePrefixes = 1 .. 5
  BY <1>2 DEF SizePrefixes
<1>4. /\ SizePrefixes[1] = "" /\ SizePrefixes[2] = "k" /\ SizePrefixes[3] = "M"
      /\ SizePrefixes[4] = "G" /\ SizePrefixes[5] = "T"
  BY DEF SizePrefixes
<1>5. \A i \in 1 .. 5 : i = 1 \/ i = 2 \/ i = 3 \/ i = 4 \/ i = 5
  OBVIOUS
<1>6. QED
  BY <1>1, <1>3, <1>4, <1>5

\* A suffix stands for one unit.
LEMMA UnmarshalOf ==
  ASSUME NEW text, NEW i \in 1 .. 5, text.suffix = SizePrefixes[i],
         text.number \in Int64, text.number * Units[i] \in Int64
  PROVE  Unmarshal(text) = {text.number * Units[i]}
<1>1. DOMAIN SizePrefixes = 1 .. 5
  BY SuffixesDiffer
<1>2. \A j \in 1 .. 5 : SizePrefixes[j] = SizePrefixes[i] => j = i
  BY SuffixesDiffer
<1>3. {j \in DOMAIN SizePrefixes : SizePrefixes[j] = text.suffix /\ text.number \in Int64} = {i}
  BY <1>1, <1>2
<1>4. Unmarshal(text) = {Wrap(text.number * Units[i])}
  BY <1>3 DEF Unmarshal
<1>5. QED
  BY <1>4, WrapOfInt64

\* A size is divided until it is below the next unit.
LEMMA DivisionsAre ==
  ASSUME NEW size, Magnitude(size) \in Nat, NEW d \in 0 .. 4,
         d = 0 \/ Units[d + 1] <= Magnitude(size), Magnitude(size) < Units[d + 2]
  PROVE  Divisions(size) = d
<1> DEFINE Stops(c) == c < 5 => Magnitude(size) < Units[c + 2]
           GoesOn(c) == \A e \in 0 .. c - 1 : Magnitude(size) >= Units[e + 2]
<1>1. Len(SizePrefixes) = 5
  BY SuffixesDiffer
<1>2. \A i, j \in 1 .. 6 : Units[i] \in Nat /\ (i <= j => Units[i] <= Units[j])
  BY UnitsGrow
<1>3. GoesOn(d)
  <2> SUFFICES ASSUME NEW e \in 0 .. d - 1 PROVE Magnitude(size) >= Units[e + 2]
    OBVIOUS
  <2>1. e + 2 \in 1 .. 6 /\ d + 1 \in 1 .. 6 /\ e + 2 <= d + 1 /\ d # 0
    OBVIOUS
  <2>2. Units[e + 2] <= Units[d + 1] /\ Units[d + 1] \in Nat /\ Units[e + 2] \in Nat
    BY <1>2, <2>1
  <2>3. QED
    BY <2>1, <2>2
<1>4. ASSUME NEW c \in 0 .. 5, Stops(c), GoesOn(c) PROVE c = d
  <2>1. CASE c < d
    <3>1. c + 2 \in 1 .. 6 /\ d + 1 \in 1 .. 6 /\ c + 2 <= d + 1 /\ c < 5
      BY <2>1
    <3>2. Units[c + 2] <= Units[d + 1] /\ Units[c + 2] \in Nat /\ Units[d + 1] \in Nat
      BY <1>2, <3>1
    <3>3. QED
      BY <1>4, <2>1, <3>1, <3>2
  <2>2. CASE c > d
    <3>1. d \in 0 .. c - 1 /\ d + 2 \in 1 .. 6
      BY <2>2
    <3>2. Magnitude(size) >= Units[d + 2] /\ Units[d + 2] \in Nat
      BY <1>2, <1>4, <3>1
    <3>3. QED
      BY <3>2
  <2>3. QED
    BY <2>1, <2>2
<1>5. d \in 0 .. 5 /\ Stops(d)
  OBVIOUS
<1> HIDE DEF Stops, GoesOn
<1>6. (CHOOSE c \in 0 .. 5 : Stops(c) /\ GoesOn(c)) = d
  BY <1>3, <1>4, <1>5
<1>7. QED
  BY <1>1, <1>6 DEF Divisions, Stops, GoesOn

\* A size that is not too large is printed in the largest unit that it holds.
LEMMA MarshalOf ==
  ASSUME NEW size \in Int, Magnitude(size) < Units[6]
  PROVE  \E d \in 0 .. 4 :
           /\ Divisions(size) = d
           /\ Marshal(size).suffix = SizePrefixes[d + 1]
           /\ Magnitude(size) \in Nat
           /\ LET n == Magnitude(size) \div Units[d + 1]
              IN  Marshal(size).number = IF size < 0 THEN -n ELSE n
<1>1. Magnitude(size) \in Nat
  BY DEF Magnitude
<1>2. \A i \in 1 .. 6 : Units[i] \in Nat
  BY UnitsGrow
<1>3. \E d \in 0 .. 4 : (d = 0 \/ Units[d + 1] <= Magnitude(size)) /\ Magnitude(size) < Units[d + 2]
  <2>1. CASE Magnitude(size) < Units[2]
    <3>1. 0 \in 0 .. 4 /\ 0 + 2 = 2
      OBVIOUS
    <3>2. QED
      BY <2>1, <3>1
  <2>2. ASSUME NEW i \in 1 .. 4, Units[i + 1] <= Magnitude(size), Magnitude(size) < Units[i + 2]
        PROVE  \E d \in 0 .. 4 : (d = 0 \/ Units[d + 1] <= Magnitude(size)) /\ Magnitude(size) < Units[d + 2]
    BY <2>2
  <2>3. \/ Magnitude(size) < Units[2]
        \/ Units[2] <= Magnitude(size) /\ Magnitude(size) < Units[3]
        \/ Units[3] <= Magnitude(size) /\ Magnitude(size) < Units[4]
        \/ Units[4] <= Magnitude(size) /\ Magnitude(size) < Units[5]
        \/ Units[5] <= Magnitude(size) /\ Magnitude(size) < Units[6]
    BY <1>1, <1>2
  <2>4. /\ 1 \in 1 .. 4 /\ 1 + 1 = 2 /\ 1 + 2 = 3
        /\ 2 \in 1 .. 4 /\ 2 + 1 = 3 /\ 2 + 2 = 4
        /\ 3 \in 1 .. 4 /\ 3 + 1 = 4 /\ 3 + 2 = 5
        /\ 4 \in 1 .. 4 /\ 4 + 1 = 5 /\ 4 + 2 = 6
    OBVIOUS
  <2>5. QED
    BY <2>1, <2>2, <2>3, <2>4
<1>4. PICK d \in 0 .. 4 : (d = 0 \/ Units[d + 1] <= Magnitude(size)) /\ Magnitude(size) < Units[d + 2]
  BY <1>3
<1>5. Divisions(size) = d
  BY <1>1, <1>4, DivisionsAre
<1>6. Len(SizePrefixes) = 5
  BY SuffixesDiffer
<1>7. /\ Marshal(size).suffix = SizePrefixes[d + 1]
      /\ LET n == Magnitude(size) \div Units[d + 1]
         IN  Marshal(size).number = IF size < 0 THEN -n ELSE n
  BY <1>5, <1>6 DEF Marshal
<1>8. QED
  BY <1>1, <1>5, <1>7

\* What is printed of a size is read as that size, rounded down to the unit that
\* it was printed in.
LEMMA ReadsBack ==
  ASSUME NEW size \in Int, Magnitude(size) < Units[6]
  PROVE  \E read \in Unmarshal(Marshal(size)) :
           Magnitude(size) - Magnitude(read) \in 0 .. Units[Divisions(size) + 1] - 1
<1> DEFINE m == Magnitude(size)
           text == Marshal(size)
<1>1. PICK d \in 0 .. 4 :
        /\ Divisions(size) = d
        /\ text.suffix = SizePrefixes[d + 1]
        /\ m \in Nat
        /\ LET n == m \div Units[d + 1] IN text.number = IF size < 0 THEN -n ELSE n
  BY MarshalOf
<1> DEFINE u == Units[d + 1]
           n == m \div u
<1>2. u \in Nat /\ u > 0 /\ Word \in Nat /\ m < Word /\ m \in Nat
  BY <1>1, UnitsGrow, WordAssumption
<1>3. d + 1 \in 1 .. 5 /\ text.suffix = SizePrefixes[d + 1]
  BY <1>1
<1>4. text.number = IF size < 0 THEN -n ELSE n
  BY <1>1
<1> HIDE DEF m, text, u
<1>5. n \in Nat /\ m - n * u \in 0 .. u - 1
  BY <1>2, Rest
<1> HIDE DEF n
<1>6. n * u \in Nat /\ n <= n * u
  BY <1>2, <1>5
<1>7. (-n) * u = -(n * u)
  BY <1>2, <1>5
<1>8. text.number \in Int64 /\ text.number * u \in Int64 /\ Magnitude(text.number * u) = n * u
  BY <1>2, <1>4, <1>5, <1>6, <1>7 DEF Int64, Magnitude
<1>9. Unmarshal(text) = {text.number * u}
  BY <1>3, <1>8, UnmarshalOf DEF u
<1>10. QED
  BY <1>1, <1>5, <1>8, <1>9 DEF m, text, u

\* The text of a size in its largest unit is what that size is printed as.
LEMMA PrintedAsWritten ==
  ASSUME NEW text \in [number : Int, suffix : STRING], NEW size \in Unmarshal(text),
         Magnitude(text.number) \in 1 .. Base - 1
  PROVE  Marshal(size) = text
<1> DEFINE k == Magnitude(text.number)
<1>1. PICK i \in 1 .. 5 :
        SizePrefixes[i] = text.suffix /\ text.number \in Int64 /\ size = Wrap(text.number * Units[i])
  BY SuffixesDiffer DEF Unmarshal
<1> DEFINE u == Units[i]
<1>2. /\ u \in Nat /\ u > 0 /\ Base \in Nat /\ Word \in Nat
      /\ Units[i + 1] = u * Base /\ Units[i + 1] <= Units[6] /\ Units[6] <= Word
      /\ Units[6] \in Nat /\ Units[i + 1] \in Nat
  BY UnitsGrow, BaseAssumption, WordAssumption
<1>3. text.number \in Int /\ k \in 1 .. Base - 1
  OBVIOUS
<1>4. text.number = IF text.number < 0 THEN -k ELSE k
  BY <1>3 DEF Magnitude
<1> HIDE DEF u, k
<1>5. u <= k * u /\ k * u < u * Base /\ k * u \in Nat
  BY <1>2, <1>3
<1>6. (-k) * u = -(k * u)
  BY <1>2, <1>3
<1>7. text.number * u \in Int64 /\ Magnitude(text.number * u) = k * u
  BY <1>2, <1>3, <1>4, <1>5, <1>6 DEF Int64, Magnitude
<1>8. size = text.number * u /\ size \in Int /\ Magnitude(size) = k * u
  BY <1>1, <1>7, WrapOfInt64 DEF u, Int64
<1>9. size < 0 <=> text.number < 0
  BY <1>2, <1>3, <1>4, <1>5, <1>6, <1>8
<1>10. Divisions(size) = i - 1
  <2>1. i - 1 \in 0 .. 4 /\ (i - 1) + 1 = i /\ (i - 1) + 2 = i + 1
    OBVIOUS
  <2>2. Units[(i - 1) + 1] <= Magnitude(size) /\ Magnitude(size) < Units[(i - 1) + 2]
    BY <1>2, <1>5, <1>8, <2>1 DEF u
  <2>3. QED
    BY <1>5, <1>8, <2>1, <2>2, DivisionsAre
<1>11. (k * u) \div u = k
  BY <1>2, <1>3
<1>12. Marshal(size) = [number |-> text.number, suffix |-> text.suffix]
  <2>1. Len(SizePrefixes) = 5 /\ (i - 1) + 1 = i /\ i - 1 < 5
    BY SuffixesDiffer
  <2>2. Magnitude(size) \div Units[Divisions(size) + 1] = k
    BY <1>8, <1>10, <1>11, <2>1 DEF u
  <2>3. SizePrefixes[IF Divisions(size) < Len(SizePrefixes) THEN Divisions(size) + 1
                     ELSE Len(SizePrefixes)] = text.suffix
    BY <1>1, <1>10, <2>1
  <2>4. (IF size < 0 THEN -k ELSE k) = text.number
    BY <1>4, <1>9
  <2>5. QED
    BY <2>2, <2>3, <2>4 DEF Marshal
<1>13. QED
  BY <1>12

==============================================================================
