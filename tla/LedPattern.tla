----------------------------- MODULE LedPattern -----------------------------
(***************************************************************************)
(* src/modules/LedModule.cpp: the suspenders' map, which says for a place  *)
(* on the back or the front which LED of the strip is there, and the frame *)
(* of a MOVING_PATTERN sequence, which moves every pixel of the pattern    *)
(* and lights the LED at its place.                                        *)
(*                                                                         *)
(* The map is a struct of four arrays of pointers, one after the other in  *)
(* memory.  Each has two sides; the first BackBeg places of the two sides  *)
(* of a back array are the same LEDs, after them the strap forks.          *)
(***************************************************************************)
EXTENDS Integers, FiniteSets

CONSTANTS
  BackBeg, BackSide, Front,  (* BACK_BEG_LEN, BACK_SIDE_LEN, FRONT_LENGTH    *)
  numPixels,                 (* the pixels of the pattern                    *)
  Starts                     (* the patterns it may begin with: for every    *)
                             (* pixel its pos and vel                        *)

BackLen == BackBeg + BackSide

ASSUME LengthsAssumption ==
  /\ BackBeg \in Nat \ {0} /\ BackSide \in Nat \ {0} /\ Front \in Nat \ {0}
  /\ Front <= BackBeg + BackLen     \* 33 rows of 13 + 20: the last one just fits

Pixels == 0 .. numPixels - 1

ASSUME PatternAssumption ==
  /\ numPixels \in Nat
  /\ Starts \subseteq [Pixels -> [row: Nat, col: Nat, drow: Nat, dcol: Nat]]

VARIABLES
  pSuspenders,  (* for every place in the struct the LED pointed at          *)
  pattern,      (* pos and vel of every pixel                                *)
  strip         (* for every LED what its color is from: <<x>> for the       *)
                (* pattern's pixel x, Dark                                   *)

patternvars == <<pSuspenders, pattern, strip>>

NumLeds == 2 * BackBeg + 4 * BackSide + 4 * Front
Leds == 0 .. NumLeds - 1
Dark == <<>>

-----------------------------------------------------------------------------
(***************************************************************************)
(* The map, as the constructor fills it.  Side 0 is RSIDEIDX, 1 LSIDEIDX.  *)
(***************************************************************************)
pBackR(side, i) ==
  IF i < BackBeg THEN i
  ELSE IF side = 0 THEN i
  ELSE BackLen + 2 * Front + BackSide - (i - BackBeg) - 1
pBackL(side, i) ==
  IF i < BackBeg THEN NumLeds - 1 - i
  ELSE IF side = 1 THEN NumLeds - 1 - i
  ELSE BackLen + BackSide + 2 * Front + (i - BackBeg)
pFrontR(side, i) ==
  IF side = 1 THEN BackLen + Front + i ELSE BackLen + Front - 1 - i
pFrontLShort(side, i) ==                                      \* mutant
  BackLen + 2 * BackSide + 3 * Front + (IF side = 1 THEN i ELSE - i)
pFrontL(side, i) ==
  BackLen + 2 * BackSide + 3 * Front + (IF side = 1 THEN i ELSE -1 - i)

\* The LED of the pointer that is n places into the struct.
Places == 0 .. 4 * BackLen + 4 * Front - 1
Led(n) ==
  LET f == n - 4 * BackLen
  IN  IF n < BackLen THEN pBackR(0, n)
      ELSE IF n < 2 * BackLen THEN pBackR(1, n - BackLen)
      ELSE IF n < 3 * BackLen THEN pBackL(0, n - 2 * BackLen)
      ELSE IF n < 4 * BackLen THEN pBackL(1, n - 3 * BackLen)
      ELSE IF f < Front THEN pFrontR(0, f)
      ELSE IF f < 2 * Front THEN pFrontR(1, f - Front)
      ELSE IF f < 3 * Front THEN pFrontL(0, f - 2 * Front)
      ELSE pFrontL(1, f - 3 * Front)

-----------------------------------------------------------------------------
(***************************************************************************)
(* MOVING_PATTERN.  Rows and columns are uint32_t and pos stays below the  *)
(* moduli, so that no sum overflows.                                       *)
(***************************************************************************)
Columns == 8

\* The back begins at row 13 of the front; what is above is not shown in the
\* columns 0 and 1.
OnBack(row) == row > BackBeg - 1   \* 12 in the code
Shown(p) == p.col \in {0, 1} => OnBack(p.row)

\* Below the fork the columns 0 and 6 take the left side, 1 and 7 the right one.
SideOnBack(p) ==
  IF p.row > BackBeg - 1 + BackBeg THEN 1 - (p.col % 2) ELSE p.col % 2

\* The place in the struct that is written through.  In the columns 6 and 7 a
\* row above the back makes row - BACK_BEG_LEN wrap: the address is one in front
\* of the array's row.
Place(p) ==
  CASE p.col \in {0, 1} -> SideOnBack(p) * BackLen + (p.row - BackBeg)
    [] p.col \in {2, 3} -> 4 * BackLen + (p.col % 2) * Front + p.row
    [] p.col \in {4, 5} -> 4 * BackLen + 2 * Front + (p.col % 2) * Front + p.row
    [] OTHER -> 2 * BackLen + SideOnBack(p) * BackLen + (p.row - BackBeg)

At(p, row, col) == [row |-> row, col |-> col, drow |-> p.drow, dcol |-> p.dcol]
MovedRowPast(p) ==                                            \* mutant
  At(p, (p.row + p.drow) % (Front + 1), (p.col + p.dcol) % Columns)
MovedRowKept(p) == At(p, p.row % Front, (p.col + p.dcol) % Columns)  \* mutant
Moved(p) == At(p, (p.row + p.drow) % Front, (p.col + p.dcol) % Columns)

\* clearScreen, then the pixels in their order: the last one at a LED stays.
Drawn(pat) ==
  [l \in Leds |->
     LET here == {x \in Pixels : Shown(pat[x]) /\ pSuspenders[Place(pat[x])] = l}
     IN  IF here = {} THEN Dark ELSE <<CHOOSE x \in here : \A y \in here : y <= x>>]

MovingPattern ==
  /\ pattern' = [x \in Pixels |-> Moved(pattern[x])]
  /\ strip' = Drawn(pattern')
  /\ UNCHANGED pSuspenders

PatternInit ==
  /\ pSuspenders = [n \in Places |-> Led(n)]
  /\ pattern \in Starts
  /\ strip = [l \in Leds |-> Dark]

PatternNext == MovingPattern

PatternSpec == PatternInit /\ [][PatternNext]_patternvars

\* Frames go on for ever (LedShow).
PatternFairSpec == PatternSpec /\ WF_patternvars(PatternNext)

-----------------------------------------------------------------------------
(***************************************************************************)
(* Properties.                                                             *)
(***************************************************************************)
\* The two sides of the back share the first BackBeg places: those of side 1
\* are not counted.
OwnPlaces ==
  Places \ (BackLen .. BackLen + BackBeg - 1 \cup 3 * BackLen .. 3 * BackLen + BackBeg - 1)

\* The map goes over the strip forwards and backwards by turns, and every LED of
\* the strip is at exactly one place.
EachLedOnce ==
  /\ \A n \in Places : pSuspenders[n] \in Leds
  /\ \A m, n \in OwnPlaces : pSuspenders[m] = pSuspenders[n] => m = n
  /\ \A l \in Leds : \E n \in OwnPlaces : pSuspenders[n] = l

\* Whatever the pattern, a pixel is written through a pointer of the array its
\* column names (in the columns 6 and 7 above the back, where the index wraps,
\* through a pointer of the struct at least), and is on the strip afterwards
\* unless a later pixel has covered it.
FirstPlace(col) ==
  CASE col \in {0, 1} -> 0
    [] col \in {2, 3} -> 4 * BackLen
    [] col \in {4, 5} -> 4 * BackLen + 2 * Front
    [] OTHER -> 2 * BackLen
PlacesOf(col) == IF col \in 2 .. 5 THEN 2 * Front ELSE 2 * BackLen

Wraps(p) == p.col \in {6, 7} /\ ~OnBack(p.row)

WrittenInMap(p) ==
  /\ Place(p) \in Places
  /\ ~Wraps(p) => Place(p) \in FirstPlace(p.col) .. FirstPlace(p.col) + PlacesOf(p.col) - 1

PixelsDrawn ==
  \A x \in Pixels : Shown(pattern'[x]) =>
    /\ WrittenInMap(pattern'[x])
    /\ strip'[pSuspenders[Place(pattern'[x])]][1] >= x

PixelsOnStrip == [][PixelsDrawn]_patternvars

\* A pixel whose velocity has no factor in common with the numbers of rows and
\* of columns comes to every place, so that every LED is lit again and again.
EveryLedLit == \A l \in Leds : []<>(strip[l] # Dark)
=============================================================================
