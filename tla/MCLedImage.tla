----------------------------- MODULE MCLedImage -----------------------------
(* TLC instance of LedImage: the lengths of the suspenders, the three dots of *)
(* pBasicDots with some other second dots, which sweep the whole map, and     *)
(* images whose header may be wrong or not be read.                           *)
EXTENDS LedImage

Dot(r, c, dr, dc) == [row |-> r, col |-> c, drow |-> dr, dcol |-> dc]

Dots(second) == [x \in Pixels |->
  CASE x = 0 -> Dot(0, 0, 1, 0) [] x = 1 -> second [] x = 2 -> Dot(20, 5, 1, 3)]
MCStarts == {Dots(Dot(10, 3, 2, 1)), Dots(Dot(0, 0, 1, 1)), Dots(Dot(32, 7, 1, 3))}

Image(w, h) == [imgWidth |-> w, imgHeight |-> h, imageSize |-> 3 * w * h, length |-> 3 * w * h]
Padded(w, h) ==             \* the rows of .bmp files are padded to a word
  LET size == h * 4 * ((3 * w + 3) \div 4)
  IN  [imgWidth |-> w, imgHeight |-> h, imageSize |-> size, length |-> size]
Sized(i, size) == [i EXCEPT !.imageSize = size]

\* Narrower and wider than the strip, as wide as it (186), and with an imageSize
\* of 0, which a file without compression may have, or too small.
MCImages == {Image(4, 3), Image(188, 2), Padded(2, 2), Padded(186, 2),
             Sized(Image(4, 3), 0), Sized(Image(4, 3), 20)}
MCPaddedImages == {Padded(2, 2), Padded(186, 2)}

\* What may be in memory when the header could not be read.
MCGarbage == {[imgWidth |-> 0, imgHeight |-> 0, imageSize |-> 0],
              [imgWidth |-> 3, imgHeight |-> 4, imageSize |-> 30]}
=============================================================================
