--------------------------- MODULE Configuration ---------------------------
(***************************************************************************)
(* The flags of internal/ath/config.go that decide how files are served:    *)
(* byte sizes, with their 64-bit arithmetic, and the codings.  The text of  *)
(* a size is its number and its suffix.                                     *)
(***************************************************************************)
EXTENDS Integers, SequencesExt

CONSTANTS
  Base,   \* 1024
  Word    \* 2^63: an int64 is one of -Word .. Word - 1

ASSUME BaseAssumption == Base \in Nat /\ Base > 1

SizePrefixes == <<"", "k", "M", "G", "T">>

\* What each of them stands for, and the first size that is too large for them.
Units ==
  <<1, Base, Base * Base, Base * Base * Base, Base * Base * Base * Base,
    Base * Base * Base * Base * Base>>

ASSUME WordAssumption == Word \in Nat /\ Word >= Units[6]

Int64 == -Word .. Word - 1

\* The int64 that is left of an integer.
Wrap(n) == ((n + Word) % (2 * Word)) - Word

\* ByteSize.UnmarshalFlag: the size of a text, none when the text is refused.
\* Base is multiplied in once for each prefix before the one of the text.
Unmarshal(text) ==
  {Wrap(text.number * Units[i]) :
     i \in {j \in DOMAIN SizePrefixes : SizePrefixes[j] = text.suffix /\ text.number \in Int64}}

\* flags.Parse with the two sizes that matter here.
Parse(f) ==
  UNION {{[f EXCEPT !.threshold = t, !.maxSize = m] : t \in Unmarshal(f.threshold)} :
           m \in Unmarshal(f.maxSize)}

Magnitude(n) == IF n < 0 THEN -n ELSE n

\* Mutant of Divisions: Base itself is not divided.
DivisionsLate(size) ==
  CHOOSE d \in 0 .. Len(SizePrefixes) :
    /\ d < Len(SizePrefixes) => Magnitude(size) <= Units[d + 2]
    /\ \A e \in 0 .. d - 1 : Magnitude(size) > Units[e + 2]

\* How often ByteSize.String divides: once more than there are prefixes left
\* for, when the size is too large.
Divisions(size) ==
  CHOOSE d \in 0 .. Len(SizePrefixes) :
    /\ d < Len(SizePrefixes) => Magnitude(size) < Units[d + 2]
    /\ \A e \in 0 .. d - 1 : Magnitude(size) >= Units[e + 2]

\* ByteSize.String, which rounds towards zero.  (Above 2^53 the code also loses
\* the digits that a float64 does not hold.)
Marshal(size) ==
  LET d == Divisions(size)
      n == Magnitude(size) \div Units[d + 1]
  IN  [number |-> IF size < 0 THEN -n ELSE n,
       suffix |-> SizePrefixes[IF d < Len(SizePrefixes) THEN d + 1 ELSE Len(SizePrefixes)]]

\* Config.EnabledCompressions: the codings that no flag disables, in the order in
\* which the routes prefer them.
EnabledCompressions(config) ==
  SelectSeq(<<"br", "gzip", "deflate">>, LAMBDA c : c \notin config.disabled)

=============================================================================
