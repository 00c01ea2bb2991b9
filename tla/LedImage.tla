------------------------------ MODULE LedImage ------------------------------
(***************************************************************************)
(* The sequences of src/modules/LedModule.cpp that fill the strip: the     *)
(* moving pattern of LedPattern, and the frames of an image that           *)
(* loadPixelDataFromBmp of src/devices/fatfs.cpp reads from the card.      *)
(*                                                                         *)
(* The file is read with f_read, which delivers its bytes in order or      *)
(* fails half way (FileStream, implemented by FatRead); the loader does    *)
(* not look at what f_read returns.  A byte of the pixel data is its       *)
(* offset there.                                                           *)
(***************************************************************************)
EXTENDS LedPattern

CONSTANTS
  Images,    (* files: imgWidth, imgHeight and imageSize as in the header,   *)
             (* and how many bytes of pixel data follow it                   *)
  Garbage,   (* headers there may be in memory that was never written        *)
  MayFail    (* of the calls "open", "header" and "pixels"                   *)

Header == [imgWidth: Nat, imgHeight: Nat, imageSize: Nat]

ASSUME ImageAssumption ==
  /\ Images \subseteq [imgWidth: Nat, imgHeight: Nat, imageSize: Nat, length: Nat]
  /\ Garbage \subseteq Header
  /\ MayFail \subseteq {"open", "header", "pixels"}

VARIABLES
  sequence,       (* pCurrentSequence->type                                  *)
  image,          (* the file on the card                                    *)
  loaded,         (* the constructor has called the loader                   *)
  pPixels,        (* the buffer, in bytes                                    *)
  numFrames, numLeds, currentFrameIdx

cycle == <<image, loaded, pPixels, numFrames, numLeds, currentFrameIdx>>
framevars == <<patternvars, sequence, cycle>>

Unread == -1      \* memory that was not written, or not the buffer's

Lesser(a, b) == IF a < b THEN a ELSE b

-----------------------------------------------------------------------------
(***************************************************************************)
(* loadPixelDataFromBmp.                                                   *)
(***************************************************************************)
\* The header read before the pixels: the file's, or what was in memory.
HeadOf(f) == [imgWidth |-> f.imgWidth, imgHeight |-> f.imgHeight, imageSize |-> f.imageSize]
Heads == {HeadOf(image)} \cup {h \in Garbage : "header" \in MayFail}

\* The bytes the last f_read may deliver: all there are, or those in front of
\* the sector at which the disk fails.
HeadBytes == 54
SectorBytes == 512
PixelBytes(h) ==
  LET most == Lesser(h.imageSize, image.length)
  IN  {most} \cup {n \in 0 .. most : "pixels" \in MayFail /\ (n + HeadBytes) % SectorBytes = 0}

\* In every pixel the first byte, blue, and the third, red, change places.  The
\* loop runs over width and height, whatever imageSize; what it exchanges beyond
\* the buffer is other memory, and other memory is Unread.
SwappedNot(h, i) == i                                         \* mutant
Swapped(h, i) ==
  IF i >= 3 * h.imgWidth * h.imgHeight THEN i
  ELSE CASE i % 3 = 0 -> i + 2 [] i % 3 = 1 -> i [] i % 3 = 2 -> i - 2

Buffer(h, n) ==
  [i \in 0 .. h.imageSize - 1 |-> IF Swapped(h, i) < n THEN Swapped(h, i) ELSE Unread]

Load ==
  /\ sequence = "FRAME_CYCLE" /\ ~loaded
  /\ loaded' = TRUE
  /\ \/ "open" \in MayFail /\ UNCHANGED <<pPixels, numFrames, numLeds>>
     \/ \E h \in Heads : \E n \in PixelBytes(h) :
          /\ pPixels' = Buffer(h, n)
          /\ numFrames' = h.imgHeight /\ numLeds' = h.imgWidth
  /\ currentFrameIdx' = 0
  /\ UNCHANGED <<patternvars, sequence, image>>

-----------------------------------------------------------------------------
(***************************************************************************)
(* TimerEventHandler, FRAME_CYCLE.                                         *)
(***************************************************************************)
Byte(i) == IF i \in DOMAIN pPixels THEN pPixels[i] ELSE Unread

\* setLeds: the colors of the first LEDs, as many as the image has columns.
LedsSet == {l \in Leds : l < numLeds}
setLeds(pixelIdx) ==
  strip' = [l \in Leds |->
    IF l \in LedsSet THEN [c \in 1 .. 3 |-> Byte(pixelIdx + 3 * l + c - 1)] ELSE strip[l]]

NextFrame == IF currentFrameIdx + 1 >= numFrames THEN 0 ELSE currentFrameIdx + 1

FrameCycle ==
  /\ sequence = "FRAME_CYCLE" /\ loaded
  /\ setLeds(currentFrameIdx * 3 * numLeds)
  /\ currentFrameIdx' = NextFrame
  /\ UNCHANGED <<pSuspenders, pattern, sequence, image, loaded, pPixels, numFrames, numLeds>>

MovePattern ==
  /\ sequence = "MOVING_PATTERN"
  /\ MovingPattern
  /\ UNCHANGED <<sequence, cycle>>

FrameInit ==
  /\ PatternInit
  /\ sequence \in {"MOVING_PATTERN", "FRAME_CYCLE"}
  /\ image \in Images /\ loaded = FALSE
  /\ pPixels = <<>> /\ numFrames = 0 /\ numLeds = 0 /\ currentFrameIdx = 0

FrameNext == Load \/ FrameCycle \/ MovePattern

FrameSpec == FrameInit /\ [][FrameNext]_framevars

\* Frames go on for ever (LedShow).
FrameFairSpec == FrameSpec /\ WF_framevars(FrameNext)

-----------------------------------------------------------------------------
(***************************************************************************)
(* Properties.                                                             *)
(***************************************************************************)
\* LedPattern's, for the sequences that are moving patterns.
MovesOnStrip == [][sequence = "MOVING_PATTERN" => PixelsDrawn]_framevars
MovesLightAll == sequence = "MOVING_PATTERN" => EveryLedLit

\* A frame is made of pixels of the image: the l-th LED shows red, green and
\* blue of the pixel with the number currentFrameIdx * numLeds + l, one of those
\* the header counts, and a byte of it that is not the file's only if that byte
\* was never read or the header's imageSize leaves no room for it (fatfs.cpp:327;
\* nothing compares imageSize with width and height).
FrameIsPixels ==
  [][sequence = "FRAME_CYCLE" /\ loaded /\ numFrames > 0 =>
       \A l \in LedsSet :
         LET pixel == currentFrameIdx * numLeds + l
         IN  /\ pixel < numLeds * numFrames
             /\ \A c \in 1 .. 3 : strip'[l][c] \in {3 * pixel + 3 - c, Unread}]_framevars

\* fatfs.h: "imageSize; //size of image in bytes".  The frames of an image stay
\* inside the buffer its header asked for.  Refuted by hand (README).
FramesInBuffer ==
  loaded => \A l \in LedsSet : currentFrameIdx * 3 * numLeds + 3 * l + 2 \in DOMAIN pPixels

\* A frame is a row of the image.  Refuted by hand: the rows of a .bmp file end
\* on a word, and the loader takes the padding for pixels.
RowBytes == 4 * ((3 * image.imgWidth + 3) \div 4)
FrameIsRow ==
  [][sequence = "FRAME_CYCLE" /\ loaded =>
       \A l \in LedsSet :
         LET first == currentFrameIdx * RowBytes + 3 * l
         IN  \A c \in 1 .. 3 : strip'[l][c] \in {first + 3 - c, Unread}]_framevars

\* fatfs.cpp: "we have read in all of the data now".
AllDataRead == loaded => \A i \in DOMAIN pPixels : pPixels[i] # Unread
=============================================================================
