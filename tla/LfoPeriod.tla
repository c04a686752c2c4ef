------------------------------- MODULE LfoPeriod -------------------------------
(***************************************************************************)
(* The period of an LFO as a number, and how it is snapped, written out    *)
(* and read back (lfoImpl.cpp).  A period is a multiple of the host's bar; *)
(* here it is a whole number of parts of a bar, small enough that a note   *)
(* of every meter is one.  The code's floats are those fractions rounded:  *)
(* what the rounding would add is left out.                                *)
(*                                                                         *)
(* The grids a period may be snapped to are notes, triplets and dotted     *)
(* notes.  A set of them is what SyncTypes masks; the empty one is Free.   *)
(***************************************************************************)
EXTENDS Integers

CONSTANTS Bar,       \* the parts of a bar
          Meters     \* the measure numerators a host may state

Quarter == "Quarter"
Triplet == "Triplet"
Dotted  == "Dotted"
Grids == {Quarter, Triplet, Dotted}
Free == {}

reference == 4                    \* referenceMeasureNumerator
shortestBeat == 8                 \* minimumPeriodAsMaximumBeatDenominator
longestBars == 16                 \* maximumPeriodInNumberOfBars

ASSUME BarAssumption ==
  /\ Bar \in Nat \ {0} /\ Bar % 96 = 0
  /\ \A n \in Meters \cup {reference} : Bar % (24 * n) = 0 /\ (3 * Bar) % (16 * n) = 0
ASSUME MetersAssumption == \A n \in Meters : n \in 1 .. 255

Smaller(m, n) == IF m <= n THEN m ELSE n
Larger(m, n)  == IF m <= n THEN n ELSE m
Clamp(v, low, high) == Smaller(Larger(v, low), high)
Distance(m, n) == IF m <= n THEN n - m ELSE m - n

\* Math::round() of a fraction: the nearest whole number, a half to the even one.
Rounded(num, den) ==
  LET down == num \div den
      over == 2 * (num % den)
  IN IF over > den \/ (over = den /\ down % 2 = 1) THEN down + 1 ELSE down

\* Math::PowerOfTwo::round() of a byte.
PowerOfTwo(v) ==
  LET down == CHOOSE p \in {1, 2, 4, 8, 16, 32, 64, 128} : p <= v /\ v < 2 * p
  IN IF down > 1 /\ v >= down + down \div 2 THEN 2 * down ELSE down

\* The range, which does not depend on the meter.
currentPeriodScaleMinimum == (2 * Bar) \div (3 * shortestBeat * reference)
currentPeriodScaleMaximum == (3 * longestBars * Bar) \div 2
Default == Bar
isValidValue(p) == p \in currentPeriodScaleMinimum .. currentPeriodScaleMaximum
clampFreePeriod(p) == Clamp(p, currentPeriodScaleMinimum, currentPeriodScaleMaximum)

----------------------------------------------------------------------------
(* Snapping.                                                               *)

\* What a period on a grid is multiplied by to be a note of it.
ToNote(grid) == CASE grid = Quarter -> <<1, 1>> [] grid = Triplet -> <<3, 2>> [] grid = Dotted -> <<2, 3>>

\* The divisor of the bar nearest to so many beats, downwards on a tie.
ClosestDivisor(beats, n) ==
  LET up   == CHOOSE d \in beats .. n : n % d = 0 /\ \A e \in beats .. d - 1 : n % e # 0
      down == CHOOSE d \in 1 .. beats : n % d = 0 /\ \A e \in d + 1 .. beats : n % e # 0
  IN IF up - beats < beats - down THEN up ELSE down

\* snapSyncedPeriodScale(), in eighths of a beat: the period is a fraction of
\* a bar, and the beats it lasts are counted in a byte.
SnappedEighths(num, den, n) ==
  LET beats == Rounded(num * n, den) % 256
  IN IF beats > n
       THEN shortestBeat * Clamp(PowerOfTwo(beats), n, longestBars * n)
     ELSE IF beats > 0
       THEN shortestBeat * ClosestDivisor(beats, n)
     ELSE PowerOfTwo(Rounded(Clamp(num * n * shortestBeat, den, shortestBeat * den), den))

SnapOnto(p, grid, n) ==
  LET note == ToNote(grid)
  IN (SnappedEighths(p * note[1], Bar * note[2], n) * Bar * note[2]) \div (shortestBeat * n * note[1])

\* snapSyncedPeriod(): the nearest of the grids' answers, and which it was.
\* The first one of two equally near.
snapSyncedPeriod(p, sync, n) ==
  LET At(grid) == Distance(SnapOnto(p, grid, n), p)
      Before(grid) == CASE grid = Quarter -> {} [] grid = Triplet -> {Quarter}
                        [] grid = Dotted -> {Quarter, Triplet}
      won == CHOOSE grid \in sync : /\ \A other \in sync : At(grid) <= At(other)
                                    /\ \A other \in sync \cap Before(grid) : At(grid) < At(other)
  IN [period |-> SnapOnto(p, won, n), grid |-> won]

snapPeriodScale(p, sync, n) ==
  IF sync = Free THEN clampFreePeriod(p) ELSE snapSyncedPeriod(p, sync, n).period

----------------------------------------------------------------------------
(* What a synced period reads as, and what such a reading means.           *)

\* Mutant: the note is worked out without its grid.
GridlessNote(p, sync, n) ==
  LET snapped == snapSyncedPeriod(p, sync, n)
      short == snapped.period < Bar
  IN [numerator   |-> IF short THEN 1 ELSE Rounded(snapped.period, Bar),
      denominator |-> IF short THEN Rounded(Bar, snapped.period) ELSE 1,
      grid        |-> snapped.grid]
\* printSyncedPeriodScale(): 1/n of a bar, or n/1, and the letter of its grid.
printSyncedPeriodScale(p, sync, n) ==
  LET snapped == snapSyncedPeriod(p, sync, n)
      num == snapped.period * ToNote(snapped.grid)[1]
      den == Bar * ToNote(snapped.grid)[2]
  IN [numerator   |-> IF num < den THEN 1 ELSE Rounded(num, den),
      denominator |-> IF num < den THEN Rounded(den, num) ELSE 1,
      grid        |-> snapped.grid]

\* parsePeriodScale(): a note with no letter is looked for on every grid.
parsePeriodScale(note, n) ==
  LET to == ToNote(note.grid)
      length == (Bar * note.numerator * to[2]) \div (note.denominator * to[1])
  IN snapSyncedPeriod(clampFreePeriod(length), IF note.grid = Quarter THEN Grids ELSE {note.grid}, n)

----------------------------------------------------------------------------
(* The reference the snapping is held against: the notes a meter has, the  *)
(* parts of a beat and the beats that divide the bar, and the powers of    *)
(* two of them that are longer.                                            *)

GridPoints(grid, n) ==
  LET to == ToNote(grid)
      eighths == {1, 2, 4, 8} \cup {shortestBeat * d : d \in {d \in 1 .. n : n % d = 0}}
                   \cup {shortestBeat * Clamp(p, n, longestBars * n) : p \in {1, 2, 4, 8, 16, 32, 64, 128, 256}}
  IN {(e * Bar * to[2]) \div (shortestBeat * n * to[1]) : e \in eighths}

Periods == currentPeriodScaleMinimum .. currentPeriodScaleMaximum
=============================================================================
