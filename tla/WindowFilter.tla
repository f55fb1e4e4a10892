---------------------------- MODULE WindowFilter ----------------------------
(***************************************************************************)
(* The operators of runtime/hipacc_vivado_filter.hpp for one pixel per     *)
(* cycle.  The local operators process, processSIMO, processMISO and the   *)
(* pyramid operators downsample and upsample share one loop over rows and  *)
(* columns that keeps the last image lines in a line buffer, slides a      *)
(* window over them, replaces the part of the window that lies outside the *)
(* image (getNewCoords) and hands the window to the filter.  The point     *)
(* operators processPixels (one to three inputs) and splitStream (two to   *)
(* four outputs) pass the pixels of the image one by one.  One action is   *)
(* one iteration of a loop.                                                *)
(*                                                                         *)
(* A pixel is its position in the input stream, so that the window given   *)
(* to the filter says where each of its pixels comes from.                 *)
(***************************************************************************)
EXTENDS Integers, FiniteSets, BorderPadding

CONSTANTS
  MaxWidth, MaxHeight,   \* MAX_WIDTH, MAX_HEIGHT
  Call                   \* the calls: operator, window size, image size,
                         \* padding, factor

ASSUME SizesArePositive == {MaxWidth, MaxHeight} \subseteq Nat \ {0}
ASSUME ImageFits ==
  \A c \in Call : c.width \in 1..MaxWidth /\ c.height \in 1..MaxHeight
(* A window has a centre, ...                                              *)
ASSUME KernelSizeIsOdd ==
  \A c \in Call : \A s \in {c.kernelX, c.kernelY} : s \in Nat /\ s % 2 = 1
(* ... and does not reach beyond both borders at once.                     *)
ASSUME ImageCoversWindow ==
  \A c \in Call : c.op \notin {"processPixels", "splitStream"} =>
    c.width >= c.kernelX - 1 /\ c.height >= c.kernelY - 1
ASSUME PaddingIsKnown ==
  \A c \in Call : c.padding \in {"CLAMP", "MIRROR", "MIRROR_101"}
ASSUME StreamsOfPoints ==
  \A c \in Call : c.op = "processPixels" => c.streams \in 1..3
(* The pyramid operators take one kernel size and one factor.              *)
ASSUME PyramidWindowIsSquare ==
  \A c \in Call : c.op \in {"downsample", "upsample"} => c.kernelX = c.kernelY
ASSUME FactorIsTwo ==              \* other factors are not supported
  \A c \in Call : c.op \in {"downsample", "upsample"} => c.factor = 2

VARIABLES
  call,        \* the arguments of the call that runs
  row, col,    \* loop variables
  reads,       \* pixels taken from each input stream
  inPixel,     \* in_pixel, per input stream
  lineBuff,    \* lineBuff, per input stream
  winTmp,      \* win_tmp, per input stream
  win,         \* the windows of the last pixel written
  writes       \* pixels written to each output stream

vars == <<call, row, col, reads, inPixel, lineBuff, winTmp, win, writes>>

KernelX == call.kernelX            \* KERNEL_SIZE_X, KERNEL_SIZE_Y
KernelY == call.kernelY
GDelayX == KernelX \div 2
GDelayY == KernelY \div 2

Rows == 0..(KernelY - 1)
Cols == 0..(KernelX - 1)

Zero == <<0, "zero">>              \* the pixel upsample inserts
Junk == <<0, "uninitialized">>     \* any value: read before it was written

IsPoint == call.op \in {"processPixels", "splitStream"}

(* The input streams of an operator.                                       *)
Inputs == CASE call.op = "processMISO"   -> {1, 2}
            [] call.op = "processPixels" -> 1..call.streams
            [] OTHER                     -> {1}
Pixel  == {Zero, Junk} \cup ({1, 2, 3} \X (0..(MaxWidth * MaxHeight - 1)))
Window == [Rows -> [Cols -> Pixel]]

TypeOK ==
  /\ call \in Call
  /\ row \in 0..(MaxHeight + GDelayY)
  /\ col \in 0..(MaxWidth + GDelayX - 1)
  /\ reads \in 0..(MaxWidth * MaxHeight)
  /\ inPixel \in [Inputs -> Pixel]
  /\ lineBuff \in [Inputs -> [0..(KernelY - 2) -> [0..(MaxWidth - 1) -> Pixel]]]
  /\ winTmp \in [Inputs -> Window]
  /\ win \in [Inputs -> Window]
  /\ writes \in 0..(MaxWidth * MaxHeight)

JunkWindow == [i \in Rows |-> [j \in Cols |-> Junk]]

Init ==
  /\ call \in Call
  /\ row = 0
  /\ col = 0
  /\ reads = 0
  /\ inPixel = [p \in Inputs |-> Junk]
  /\ lineBuff = [p \in Inputs |->
                   [i \in 0..(KernelY - 2) |-> [c \in 0..(MaxWidth - 1) |-> Junk]]]
  /\ winTmp = [p \in Inputs |-> JunkWindow]
  /\ win = [p \in Inputs |-> JunkWindow]
  /\ writes = 0

-----------------------------------------------------------------------------
(* Border handling.                                                        *)

BorderX(w) ==
  [i \in Rows |-> [j \in Cols |->
     At(w[i], GetNewCoords(call.padding, j, KernelX, GDelayX, col, call.width), Junk)]]

(* The second pass works in place, from the first row to the last.         *)
BorderY(w) ==
  RowsInPlace(w, [i \in Rows |-> GetNewCoords(call.padding, i, KernelY, GDelayY,
                                              row, call.height)],
              [j \in Cols |-> Junk])

-----------------------------------------------------------------------------
(* The shared loop body.  take: a pixel is read from every input; fill:    *)
(* the pixel used if none is.                                              *)

InMaximum == col < MaxWidth /\ row < MaxHeight  \* mutant: reads a full-size image

InImage == col < call.width /\ row < call.height

NextPixel(take, fill) ==
  [p \in Inputs |-> IF take THEN <<p, reads>> ELSE fill[p]]

(* Shift the window by one column ...                                      *)
Shifted(w) ==
  IF col < call.width + GDelayX /\ row < call.height + GDelayY
  THEN [i \in Rows |-> [j \in Cols |-> IF j < KernelX - 1 THEN w[i][j + 1]
                                                          ELSE w[i][j]]]
  ELSE w

Loads == col < call.width /\ row < call.height + GDelayY

(* ... and fill its last column from the line buffer and the new pixel.    *)
Loaded(w, buff, pixel) ==
  IF Loads
  THEN [i \in Rows |-> [w[i] EXCEPT ![KernelX - 1] =
          IF i < KernelY - 1 THEN buff[i][col] ELSE pixel]]
  ELSE w

PushedFront(buff, pixel) ==        \* mutant: the lines are not moved up
  IF Loads
  THEN [i \in DOMAIN buff |-> [buff[i] EXCEPT ![col] =
          IF i = 0 THEN pixel ELSE @]]
  ELSE buff

(* The line buffer moves up by one line in this column.                    *)
Pushed(buff, pixel) ==
  IF Loads
  THEN [i \in DOMAIN buff |-> [buff[i] EXCEPT ![col] =
          IF i < KernelY - 2 THEN buff[i + 1][col] ELSE pixel]]
  ELSE buff

AdvanceLoopLate ==                 \* mutant: one column too many
  IF col < MaxWidth + GDelayX
  THEN col' = col + 1 /\ row' = row
  ELSE col' = 0 /\ row' = row + 1

(* The local operators run over the largest image, the point operators     *)
(* over this one.                                                          *)
AdvanceLoop ==
  IF col < (IF IsPoint THEN call.width ELSE MaxWidth) + GDelayX - 1
  THEN col' = col + 1 /\ row' = row
  ELSE col' = 0 /\ row' = row + 1

Running == IF IsPoint THEN row < call.height ELSE row < MaxHeight + GDelayY

(* The filter sees the window only in these iterations.                    *)
FilterRuns == row >= GDelayY /\ col >= GDelayX

LoopBody(take, fill, write) ==
  /\ Running
  /\ inPixel' = NextPixel(take, fill)
  /\ reads' = IF take THEN reads + 1 ELSE reads
  /\ winTmp' = [p \in Inputs |->
                  Loaded(Shifted(winTmp[p]), lineBuff[p], inPixel'[p])]
  /\ lineBuff' = [p \in Inputs |-> Pushed(lineBuff[p], inPixel'[p])]
  /\ IF FilterRuns /\ write
     THEN /\ win' = [p \in Inputs |-> BorderY(BorderX(winTmp'[p]))]
          /\ writes' = writes + 1
     ELSE UNCHANGED <<win, writes>>
  /\ AdvanceLoop
  /\ UNCHANGED call

-----------------------------------------------------------------------------
(* The operators.                                                          *)

Process ==
  /\ call.op = "process"
  /\ LoopBody(InImage, inPixel, TRUE)

(* Both output streams get each pixel.                                     *)
ProcessSIMO ==
  /\ call.op = "processSIMO"
  /\ LoopBody(InImage, inPixel, TRUE)

ProcessMISO ==
  /\ call.op = "processMISO"
  /\ LoopBody(InImage, inPixel, TRUE)

(* Only every factor-th pixel is written.                                  *)
Downsample ==
  /\ call.op = "downsample"
  /\ LET mod == GDelayY % 2 IN
       LoopBody(InImage, inPixel,
                row % call.factor = mod /\ col % call.factor = mod)

UpsampleFirst ==                   \* mutant: reads at the first, not the last
  /\ call.op = "upsample"
  /\ LET hit == col % call.factor = 0 /\ row % call.factor = 0
     IN LoopBody(InImage /\ hit,
                 [p \in Inputs |-> IF InImage THEN Zero ELSE inPixel[p]],
                 TRUE)

(* Only every factor-th pixel is read, the others are zero.                *)
Upsample ==
  /\ call.op = "upsample"
  /\ LET mod == call.factor - 1
         hit == col % call.factor = mod /\ row % call.factor = mod
     IN LoopBody(InImage /\ hit,
                 [p \in Inputs |-> IF InImage THEN Zero ELSE inPixel[p]],
                 TRUE)

(* A point operator does nothing in the iterations behind the end of a row.*)
PointBody ==
  /\ Running
  /\ IF col < call.width
     THEN /\ inPixel' = [p \in Inputs |-> <<p, reads>>]
          /\ reads' = reads + 1
          /\ win' = [p \in Inputs |-> [i \in Rows |-> [j \in Cols |->
                       inPixel'[p]]]]
          /\ writes' = writes + 1
     ELSE UNCHANGED <<inPixel, reads, win, writes>>
  /\ AdvanceLoop
  /\ UNCHANGED <<call, lineBuff, winTmp>>

ProcessPixels  == call.op = "processPixels" /\ call.streams = 1 /\ PointBody
ProcessPixels2 == call.op = "processPixels" /\ call.streams = 2 /\ PointBody
ProcessPixels3 == call.op = "processPixels" /\ call.streams = 3 /\ PointBody

(* All output streams get each pixel.                                      *)
SplitStream  == call.op = "splitStream" /\ call.streams = 2 /\ PointBody
SplitStream3 == call.op = "splitStream" /\ call.streams = 3 /\ PointBody
SplitStream4 == call.op = "splitStream" /\ call.streams = 4 /\ PointBody

Next ==
  \/ Process \/ ProcessSIMO \/ ProcessMISO \/ Downsample \/ Upsample
  \/ ProcessPixels \/ ProcessPixels2 \/ ProcessPixels3
  \/ SplitStream \/ SplitStream3 \/ SplitStream4

Spec == Init /\ [][Next]_vars

-----------------------------------------------------------------------------
(* What the operators promise.                                             *)
(* The pixel of the (for upsample: zero-filled) image at y, x.             *)
ImagePixel(p, y, x) ==
  IF call.op # "upsample" THEN <<p, y * call.width + x>>
  ELSE IF y % call.factor = call.factor - 1 /\ x % call.factor = call.factor - 1
  THEN <<p, (y \div call.factor) * (call.width \div call.factor)
            + (x \div call.factor)>>
  ELSE Zero

(* The neighbourhood of pixel y, x.                                        *)
Neighbourhood(p, y, x) ==
  [i \in Rows |-> [j \in Cols |->
     IF IsPoint THEN ImagePixel(p, y, x)
     ELSE ImagePixel(p, Pad(call.padding, y + i - GDelayY, call.height),
                        Pad(call.padding, x + j - GDelayX, call.width))]]

Step == IF call.op = "downsample" THEN call.factor ELSE 1
OutWidth == IF IsPoint THEN call.width ELSE (MaxWidth + Step - 1) \div Step

(* Image coordinates of the pixel written last.                            *)
AtY == Step * ((writes - 1) \div OutWidth)
AtX == Step * ((writes - 1) % OutWidth)

(* The output is the filtered image: the k-th pixel written was computed   *)
(* from the neighbourhood of the k-th (retained) pixel, continued beyond   *)
(* the border as the padding says, never from uninitialized, stale or      *)
(* shifted pixels.  A line of the output has MaxWidth pixels, of which     *)
(* those within the image count.                                           *)
OutputIsFilteredImage ==
  writes > 0 /\ AtY < call.height /\ AtX < call.width =>
    \A p \in Inputs : win[p] = Neighbourhood(p, AtY, AtX)

(* When the loop ends every pixel of the image has been read: nothing is   *)
(* left in the stream for the next call to take for its own.               *)
ConsumesImage ==
  ~Running => reads = IF call.op = "upsample"
                      THEN (call.width \div call.factor) *
                           (call.height \div call.factor)
                      ELSE call.width * call.height

=============================================================================
