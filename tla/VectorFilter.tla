---------------------------- MODULE VectorFilter ----------------------------
(***************************************************************************)
(* The operators of runtime/hipacc_vivado_filter.hpp for several pixels    *)
(* per cycle.  A stream carries words of Vect pixels.  A local operator    *)
(* keeps a window of words; its border handling moves whole words          *)
(* (getNewCoords) and then selects a pixel within a word (getWinCoords).   *)
(* One action is one iteration of a loop.                                  *)
(*                                                                         *)
(* There are two families.  The one the compiler calls counts columns in   *)
(* pixels: processVECT, processSIMOVECT, processMISOVECT,                  *)
(* processPixelsVECT (one to three inputs) and splitStreamVECT (two to     *)
(* four outputs), each with its floating-point variant where there is one. *)
(* The older one, a function per number of lanes, counts columns in words: *)
(* processVECT2F to processVECT64, processMISOVECT4, the other             *)
(* processPixelsVECT and the pyramid operators.                            *)
(*                                                                         *)
(* A word is its position in the input stream, a pixel a word and a lane.  *)
(* Reinterpreting the bits of a lane (i2f, f2i) does not show.             *)
(***************************************************************************)
EXTENDS Integers, FiniteSets, BorderPadding

CONSTANTS
  MaxWidth, MaxHeight,   \* MAX_WIDTH, MAX_HEIGHT
  Call                   \* the calls: operator, streams, window size, pixels
                         \* per word, image size, padding

PixelLocal == {"processVECT", "processVECTF", "processSIMOVECT",
               "processSIMOVECTF", "processMISOVECT", "processMISOVECTF"}

(* The older local operators.  The first four place the window of lane 0   *)
(* at the first pixel; the wide ones keep moving the window behind the end *)
(* of a row.                                                               *)
LeftAligned == {"processVECT2F", "processVECT4F", "processVECT2", "processVECT3"}
Wide == {"processVECT8", "processVECT16", "processVECT32", "processVECT64"}
WordLocal == LeftAligned \cup {"processMISOVECT4", "processVECT4"} \cup Wide

Pyramid == {"downsampleVECT", "upsampleVECT"}
WordOps == WordLocal \cup Pyramid \cup {"processPixelsVECT of words"}

ASSUME VectorSizesArePositive == {MaxWidth, MaxHeight} \subseteq Nat \ {0}
ASSUME MaxWidthIsPadded ==
  \A c \in Call : c.op \notin WordOps => MaxWidth % c.vect = 0
ASSUME VectorCallsAreLegal ==
  \A c \in Call :
    /\ c.vect \in Nat \ {0}
    /\ \A s \in {c.kernelX, c.kernelY} : s \in Nat /\ s % 2 = 1
    /\ c.width \in 1..MaxWidth /\ c.height \in 1..MaxHeight
    /\ c.op # "splitStreamVECT" => c.streams \in 1..3
    /\ c.padding \in {"CLAMP", "MIRROR", "MIRROR_101"}
(* A window does not reach beyond the upper and the lower border at once.  *)
ASSUME ImageCoversRows ==
  \A c \in Call : c.op \in PixelLocal \cup WordLocal => c.height >= c.kernelY - 1

VARIABLES
  call,        \* the arguments of the call that runs
  row, col,    \* loop variables; colv is col \div Vect
  reads,       \* words taken from each input stream
  inWord,      \* in_pixel, per input stream
  lineBuff,    \* lineBuff, per input stream
  winTmp,      \* win_tmp, per input stream
  winVect,     \* win_vect, per input stream
  out,         \* the win_vect of the last word written
  writes       \* words written to each output stream

vars == <<call, row, col, reads, inWord, lineBuff, winTmp, winVect, out, writes>>

IsLocal == call.op \in PixelLocal \cup WordLocal
IsWord  == call.op \in WordOps      \* col and width count words
Vect    == call.vect
ColsPerWord == IF IsWord THEN 1 ELSE Vect
GDelayX == call.kernelX \div 2
GDelayY == call.kernelY \div 2

DivUp(a, b) == (a + b - 1) \div b

(* KERNEL_SIZE_X_V: the width of the window in words.                      *)
KernelXV == IF GDelayX > Vect THEN 2 * DivUp(GDelayX, Vect) + 1
                              ELSE call.kernelX
GDelayXV == KernelXV \div 2

(* GDELAY_X, GROUP_DELAY_X: the columns a local operator waits.            *)
DelayCols == IF IsWord THEN GDelayXV ELSE GDelayX

Rows  == 0..(call.kernelY - 1)
Words == 0..(KernelXV - 1)
Lanes == 0..(Vect - 1)
(* The windows of all lanes: win_vect, or win1, win2, ... one by one.      *)
Cols  == IF IsWord THEN 0..(call.kernelX * Vect - 1)
                   ELSE 0..(call.kernelX + Vect - 2)

Junk      == <<0, 0>>            \* any word: read before it was written
JunkPixel == <<Junk, 0>>

Inputs == CASE call.op \in {"processMISOVECT", "processMISOVECTF",
                           "processMISOVECT4"} -> {1, 2}
            [] call.op \in {"processPixelsVECT", "processPixelsVECTF",
                           "processPixelsVECT of words"} -> 1..call.streams
            [] OTHER -> {1}

Word  == {Junk} \cup ({1, 2, 3} \X (0..(MaxWidth * MaxHeight - 1)))
Pixel == {JunkPixel} \cup (Word \X Lanes)

(* Windows of a point operator are single words.                           *)
OutRows == IF IsLocal THEN Rows ELSE {0}
OutCols == IF IsLocal THEN Cols ELSE Lanes

Init ==
  /\ call \in Call
  /\ row = 0 /\ col = 0
  /\ reads = 0 /\ writes = 0
  /\ inWord = [p \in Inputs |-> Junk]
  /\ lineBuff = [p \in Inputs |-> [i \in 0..(call.kernelY - 2) |->
                   [c \in 0..(MaxWidth \div ColsPerWord - 1) |-> Junk]]]
  /\ winTmp = [p \in Inputs |-> [i \in Rows |-> [j \in Words |-> Junk]]]
  /\ winVect = [p \in Inputs |-> [i \in OutRows |-> [j \in OutCols |-> JunkPixel]]]
  /\ out = winVect

-----------------------------------------------------------------------------
(* Border handling.                                                        *)

(* The remainder of C: it has the sign of a.                               *)
Rem(a, b) == IF a >= 0 THEN a % b ELSE -((-a) % b)

(* getWinCoords: the word of the window and its lane that hold pixel i.    *)
(* The callers that count columns in pixels compare them with kernel, a    *)
(* number of words.                                                        *)
GetWinCoords(i, offset) ==
  LET word == i \div Vect
      left == call.kernelX - 1 - col
      right == KernelXV - (col - (call.width - 1)) - 1
      edgeL == left * Vect
      edgeR == (right + 1) * Vect - 1
      atLeft == col >= offset /\ col < KernelXV - 1
      Lane(clamp, mirror, mirror101) ==
        CASE call.padding = "CLAMP"      -> Rem(clamp, Vect)
          [] call.padding = "MIRROR"     -> Rem(mirror, Vect)
          [] call.padding = "MIRROR_101" -> Rem(mirror101, Vect)
  IN IF atLeft /\ word < left
     THEN <<left + (edgeL - i) \div Vect,
            Lane(edgeL, edgeL + (edgeL - i) - 1, edgeL + (edgeL - i))>>
     ELSE IF ~atLeft /\ col >= call.width /\ word > right
     THEN <<word - 1, Lane(edgeR, edgeR - (i - edgeR) + 1, edgeR - (i - edgeR))>>
     ELSE <<word, i % Vect>>

BorderX(w) ==
  [i \in Rows |-> [j \in Words |->
     At(w[i], GetNewCoords(call.padding, j, KernelXV, DelayCols, col, call.width),
        Junk)]]

BorderY(w) ==
  RowsInPlace(w, [i \in Rows |-> GetNewCoords(call.padding, i, call.kernelY,
                                              GDelayY, row, call.height)],
              [j \in Words |-> Junk])

(* Some lanes of the older operators are given the radius in pixels where  *)
(* the others are given the radius in words.                               *)
LaneOffset(v) ==
  LET radiusInPixels ==
        CASE call.op \in LeftAligned   -> {0}
          [] call.op = "processVECT8"  -> {0, 4}
          [] call.op = "processVECT16" -> {0, 4, 8}
          [] call.op = "processVECT32" -> {0, 4, 8, 16, 20, 24}
          [] call.op = "processVECT64" -> {0, 4, 63}
          [] OTHER                     -> {}
  IN IF v \in radiusInPixels THEN GDelayX ELSE DelayCols

FirstPixelOfWord(v) == GDelayXV * Vect + v   \* mutant: not GDelayX left

(* The first pixel of the window of a lane, GDelayX left of its own.       *)
FirstPixel(v) == GDelayXV * Vect - GDelayX + v

(* The same in the older operators.                                        *)
FirstPixelOf(v) ==
  IF call.op \in LeftAligned THEN v
  ELSE IF call.op = "processVECT32" /\ v >= 30 THEN FirstPixel(v - 20)
  ELSE FirstPixel(v)

PixelAt(w, i, n, offset) ==
  LET at == GetWinCoords(n, offset)
  IN IF at[1] \in Words /\ at[2] \in Lanes THEN <<w[i][at[1]], at[2]>>
                                           ELSE JunkPixel

(* win_vect: the pixels of the window of words that lane 0 to the last     *)
(* lane need; in the older operators a window for each lane.               *)
PixelWindow(w) ==
  [i \in Rows |-> [n \in Cols |->
     IF IsWord
     THEN LET v == n \div call.kernelX IN
          PixelAt(w, i, FirstPixelOf(v) + (n % call.kernelX), LaneOffset(v))
     ELSE PixelAt(w, i, FirstPixel(n), DelayCols)]]

-----------------------------------------------------------------------------
(* The local operators.                                                    *)

InMaximum == col < MaxWidth /\ row < MaxHeight   \* mutant: reads a full-size image
InImage   == col < call.width /\ row < call.height

(* The line buffer moves in these iterations only ...                      *)
Loads == col < call.width /\ row < call.height + GDelayY

ShiftsAsTheOthers == Loads         \* mutant: freezes at the end of the row

(* ... and the window in these.                                            *)
Shifts == IF call.op \in Wide
          THEN col < call.width + DelayCols /\ row < call.height + GDelayY
          ELSE Loads

WordCol == col \div ColsPerWord

ShiftedIn(w, buff, word) ==
  [i \in Rows |-> [j \in Words |->
     IF j < KernelXV - 1 THEN w[i][j + 1]
     ELSE IF ~Loads THEN w[i][j]
     ELSE IF i < call.kernelY - 1 THEN buff[i][WordCol] ELSE word]]

(* The line buffer moves up by one line in this column of words.           *)
Pushed(buff, word) ==
  [i \in DOMAIN buff |-> [buff[i] EXCEPT ![WordCol] =
     IF i < call.kernelY - 2 THEN buff[i + 1][WordCol] ELSE word]]

FilterRuns == row >= GDelayY /\ col >= DelayCols

AdvanceLoop(columns) ==
  IF col + ColsPerWord < columns THEN col' = col + ColsPerWord /\ row' = row
                                 ELSE col' = 0 /\ row' = row + 1

(* The image the loops run over: the largest one, but for processVECT3.    *)
LoopWidth  == IF call.op = "processVECT3" THEN call.width ELSE MaxWidth
LoopHeight == IF call.op = "processVECT3" THEN call.height ELSE MaxHeight

LocalRuns == IsLocal /\ row < LoopHeight + GDelayY

LocalStep ==
  /\ LocalRuns
  /\ inWord' = [p \in Inputs |-> IF InImage THEN <<p, reads>> ELSE inWord[p]]
  /\ reads' = IF InImage THEN reads + 1 ELSE reads
  /\ lineBuff' = [p \in Inputs |-> IF Loads THEN Pushed(lineBuff[p], inWord'[p])
                                    ELSE lineBuff[p]]
  /\ IF Shifts
     THEN /\ winTmp' = [p \in Inputs |->
                          ShiftedIn(winTmp[p], lineBuff[p], inWord'[p])]
          /\ winVect' = [p \in Inputs |->
                           PixelWindow(BorderY(BorderX(winTmp'[p])))]
     ELSE UNCHANGED <<winTmp, winVect>>
  /\ IF FilterRuns THEN out' = winVect' /\ writes' = writes + 1
                   ELSE UNCHANGED <<out, writes>>
  /\ AdvanceLoop(LoopWidth + DelayCols)
  /\ UNCHANGED call

ProcessVECT      == call.op = "processVECT" /\ LocalStep
ProcessVECTF     == call.op = "processVECTF" /\ LocalStep
(* Both output streams get each word.                                      *)
ProcessSIMOVECT  == call.op = "processSIMOVECT" /\ LocalStep
ProcessSIMOVECTF == call.op = "processSIMOVECTF" /\ LocalStep
ProcessMISOVECT  == call.op = "processMISOVECT" /\ LocalStep
ProcessMISOVECTF == call.op = "processMISOVECTF" /\ LocalStep

(* One of the older functions for each number of lanes.                    *)
ProcessVECT2F    == call.op = "processVECT2F" /\ LocalStep
ProcessVECT4F    == call.op = "processVECT4F" /\ LocalStep
ProcessVECT2     == call.op = "processVECT2" /\ LocalStep
ProcessVECT3     == call.op = "processVECT3" /\ LocalStep
ProcessMISOVECT4 == call.op = "processMISOVECT4" /\ LocalStep
ProcessVECT4     == call.op = "processVECT4" /\ LocalStep
ProcessVECT8     == call.op = "processVECT8" /\ LocalStep
ProcessVECT16    == call.op = "processVECT16" /\ LocalStep
ProcessVECT32    == call.op = "processVECT32" /\ LocalStep
ProcessVECT64    == call.op = "processVECT64" /\ LocalStep

-----------------------------------------------------------------------------
(* Point operators and splitStream: the iterations behind the end of a row *)
(* do nothing.                                                             *)

PointRuns == ~IsLocal /\ call.op \notin Pyramid /\ row < call.height

PointStep ==
  /\ PointRuns
  /\ IF col < call.width
     THEN /\ inWord' = [p \in Inputs |-> <<p, reads>>]
          /\ reads' = reads + 1
          /\ out' = [p \in Inputs |-> [i \in {0} |-> [v \in Lanes |->
                       <<inWord'[p], v>>]]]
          /\ writes' = writes + 1
     ELSE UNCHANGED <<inWord, reads, out, writes>>
  /\ AdvanceLoop(call.width + (IF IsWord THEN GDelayX ELSE GDelayXV))
  /\ UNCHANGED <<call, lineBuff, winTmp, winVect>>

ProcessPixelsVECT  == call.op = "processPixelsVECT" /\ call.streams = 1 /\ PointStep
ProcessPixels2VECT == call.op = "processPixelsVECT" /\ call.streams = 2 /\ PointStep
ProcessPixels3VECT == call.op = "processPixelsVECT" /\ call.streams = 3 /\ PointStep
ProcessPixelsVECTF  == call.op = "processPixelsVECTF" /\ call.streams = 1 /\ PointStep
ProcessPixels2VECTF == call.op = "processPixelsVECTF" /\ call.streams = 2 /\ PointStep
ProcessPixels3VECTF == call.op = "processPixelsVECTF" /\ call.streams = 3 /\ PointStep
SplitStreamVECT  == call.op = "splitStreamVECT" /\ call.streams = 2 /\ PointStep
SplitStream3VECT == call.op = "splitStreamVECT" /\ call.streams = 3 /\ PointStep
SplitStream4VECT == call.op = "splitStreamVECT" /\ call.streams = 4 /\ PointStep

ProcessPixelsWords == call.op = "processPixelsVECT of words" /\ call.streams = 1 /\ PointStep
ProcessPixels2Words == call.op = "processPixelsVECT of words" /\ call.streams = 2 /\ PointStep
ProcessPixels3Words == call.op = "processPixelsVECT of words" /\ call.streams = 3 /\ PointStep

-----------------------------------------------------------------------------
(* The pyramid operators; out is out_pixel.                                *)

PyramidRuns == call.op \in Pyramid /\ row < MaxHeight + GDelayY

PyramidStep ==
  /\ PyramidRuns
  /\ AdvanceLoop(MaxWidth + DelayCols)
  /\ UNCHANGED <<call, lineBuff, winTmp, winVect>>

Half == Vect \div 2
EvenEven == col % 2 = 0 /\ row % 2 = 0

(* A word of an even row and column fills the first half of out_pixel,     *)
(* each other word the second half, which completes it.                    *)
DownsampleVECT ==
  /\ call.op = "downsampleVECT"
  /\ PyramidStep
  /\ IF InImage
     THEN LET half == IF EvenEven THEN 0 ELSE 1 IN
          /\ inWord' = [p \in Inputs |-> <<p, reads>>]
          /\ reads' = reads + 1
          /\ out' = [p \in Inputs |-> [i \in {0} |-> [v \in Lanes |->
                       IF v \in Half * half..(Half * half + Half - 1)
                       THEN <<inWord'[p], 2 * (v - Half * half)>>
                       ELSE out[p][0][v]]]]
          /\ writes' = writes + half
     ELSE UNCHANGED <<inWord, reads, out, writes>>

(* A word is read at even rows and columns; the word written is the one    *)
(* read, not the one the halves are copied to.                             *)
UpsampleVECT ==
  /\ call.op = "upsampleVECT"
  /\ PyramidStep
  /\ inWord' = [p \in Inputs |-> IF InImage /\ EvenEven THEN <<p, reads>>
                                 ELSE inWord[p]]
  /\ reads' = IF InImage /\ EvenEven THEN reads + 1 ELSE reads
  /\ IF InImage
     THEN /\ out' = [p \in Inputs |-> [i \in {0} |-> [v \in Lanes |->
                       <<inWord'[p], v>>]]]
          /\ writes' = writes + 1
     ELSE UNCHANGED <<out, writes>>

Next ==
  \/ ProcessVECT2F \/ ProcessVECT4F \/ ProcessVECT2 \/ ProcessVECT3
  \/ ProcessMISOVECT4 \/ ProcessVECT4 \/ ProcessVECT8 \/ ProcessVECT16
  \/ ProcessVECT32 \/ ProcessVECT64
  \/ ProcessPixelsWords \/ ProcessPixels2Words \/ ProcessPixels3Words
  \/ DownsampleVECT \/ UpsampleVECT
  \/ ProcessVECT \/ ProcessVECTF \/ ProcessSIMOVECT \/ ProcessSIMOVECTF
  \/ ProcessMISOVECT \/ ProcessMISOVECTF
  \/ ProcessPixelsVECT \/ ProcessPixels2VECT \/ ProcessPixels3VECT
  \/ ProcessPixelsVECTF \/ ProcessPixels2VECTF \/ ProcessPixels3VECTF
  \/ SplitStreamVECT \/ SplitStream3VECT \/ SplitStream4VECT

Spec == Init /\ [][Next]_vars

-----------------------------------------------------------------------------
(* What the operators promise.                                             *)

WordsPerRow == DivUp(call.width, ColsPerWord)
OutWordsPerRow == IF IsLocal THEN LoopWidth \div ColsPerWord ELSE WordsPerRow
PixelWidth == IF IsWord THEN call.width * Vect ELSE call.width

(* Words a local operator is behind its input within a row.                *)
Lag == IF IsLocal THEN DivUp(DelayCols, ColsPerWord) ELSE 0
DelayY == IF IsLocal THEN GDelayY ELSE 0

(* Where the last word written belongs in the image.                       *)
AtY    == (writes - 1) \div OutWordsPerRow
AtWord == (writes - 1) % OutWordsPerRow

PixelOf(p, y, x) == <<<<p, y * WordsPerRow + x \div Vect>>, x % Vect>>

(* The window handed to the filter for a lane of the last word written.    *)
WindowOf(p, lane) ==
  IF IsLocal
  THEN [i \in Rows |-> [j \in 0..(2 * GDelayX) |->
          out[p][i][IF IsWord THEN lane * call.kernelX + j ELSE j + lane]]]
  ELSE [i \in {0} |-> [j \in {0} |-> out[p][0][lane]]]

DelayX == IF IsLocal THEN GDelayX ELSE 0
Neighbourhood(p, y, x) ==
  [i \in 0..(2 * DelayY) |-> [j \in 0..(2 * DelayX) |->
     PixelOf(p, Pad(call.padding, y + i - DelayY, call.height),
                Pad(call.padding, x + j - DelayX, PixelWidth))]]

(* The window of a lane starts where the delay the loop waits for puts it. *)
Centred(v) == IF IsWord THEN FirstPixelOf(v) = FirstPixel(v)
                        ELSE GDelayXV = DivUp(GDelayX, Vect)

HasWritten == call.op \notin Pyramid /\ writes > 0 /\ AtY < call.height

(* Each lane of a word away from the left and right border is computed     *)
(* from the neighbourhood of its own pixel, with the rows above and below  *)
(* the image replaced as the padding says: the selection of lanes out of   *)
(* words (LocalStep, PixelWindow) and the line buffer of words agree.      *)
InnerPixelsAreFiltered ==
  \A v \in Lanes :
    LET x == AtWord * Vect + v IN
    /\ HasWritten
    /\ IsLocal => Centred(v)
    /\ DelayX <= x /\ x + DelayX < PixelWidth
    /\ AtWord + Lag < WordsPerRow
    /\ IsWord /\ GDelayX > Vect => Lag <= AtWord
    => \A p \in Inputs : WindowOf(p, v) = Neighbourhood(p, AtY, x)

(* The operators that keep moving the window behind the end of a row       *)
(* replace the pixels beyond the left and right border too, word by word   *)
(* and then lane by lane, if the window reaches less than a word far.      *)
BorderPixelsAreFiltered ==
  \A v \in Lanes :
    LET x == AtWord * Vect + v IN
    /\ HasWritten /\ call.op \in Wide /\ GDelayX < Vect /\ 2 * GDelayX <= call.width
    /\ Centred(v) /\ x < PixelWidth
    => \A p \in Inputs : WindowOf(p, v) = Neighbourhood(p, AtY, x)

(* A finished call has taken all words of the image and left one word in   *)
(* its output for each word of an image (of the maximum size, for a local  *)
(* operator): the streams it is connected to are empty and complete.       *)
(* upsampleVECT takes a quarter; downsampleVECT leaves more than that.     *)
StreamsBalance ==
  ~LocalRuns /\ ~PointRuns /\ ~PyramidRuns =>
    /\ reads = IF call.op = "upsampleVECT"
               THEN DivUp(call.width, 2) * DivUp(call.height, 2)
               ELSE WordsPerRow * call.height
    /\ call.op # "downsampleVECT" =>
         writes = OutWordsPerRow * (IF IsLocal THEN LoopHeight ELSE call.height)

=============================================================================
