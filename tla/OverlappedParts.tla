--------------------------- MODULE OverlappedParts ---------------------------
(***************************************************************************)
(* The operators of runtime/hipacc_vivado_filter.hpp that filter an image  *)
(* in vertical parts side by side.  distribute deals the words of a line   *)
(* to the parts, the words near a cut to both neighbours; split takes a    *)
(* word apart and drops the pixels its part does not need; process filters *)
(* the part; assemble makes words again and collect puts the lines back    *)
(* together.  All run at once, connected by streams of bounded depth.  One *)
(* action is one iteration of one loop: it waits for the pixels it reads   *)
(* and for room for those it writes.                                       *)
(*                                                                         *)
(* The repository has the operators but no program that connects them: the *)
(* widths given to each are those the operators' own bounds fit, the width *)
(* of the part in pixels (split, process, assemble) and of the image in    *)
(* words (distribute, collect).                                            *)
(***************************************************************************)
EXTENDS Integers, Sequences, FiniteSets, BorderPadding

CONSTANTS
  Call,        \* parts, vect, radius, width and MAX_WIDTH (words), height,
               \* padding, cut (words of a part), fixed (the cut is chosen,
               \* 2FIXED), float (the variants for float pixels), anyOrder
  Depth        \* pixels or words a stream holds

ASSUME DepthIsPositive == Depth \in Nat \ {0}

Apron(c) == IF c.radius <= c.vect THEN 1 ELSE (c.radius + c.vect - 1) \div c.vect

ASSUME LayoutsAreKnown ==
  \A c \in Call :
    /\ c.parts \in Nat \ {0, 1} /\ c.vect \in Nat \ {0}
    /\ {c.radius, c.width, c.maxWidth, c.height, c.cut} \subseteq Nat
    /\ c.width <= c.maxWidth
    /\ c.padding \in {"CLAMP", "MIRROR", "MIRROR_101"}

(* Each part holds the overhang of its neighbours, and the lines of the    *)
(* image are not so few that a window reaches over both ends.              *)
ASSUME PartsAreWideEnough ==
  \A c \in Call : /\ c.cut >= 2 * Apron(c)
                  /\ c.width - (c.parts - 1) * c.cut >= 2 * Apron(c)
                  /\ ~c.fixed => c.cut = c.width \div c.parts
                  /\ c.radius >= 1 /\ c.height > 2 * c.radius

VARIABLES
  call,      \* the layout that runs
  pos,       \* row and column of each operator's loop
  fifo,      \* contents of each stream
  held,      \* temp of split and assemble: a word, the lanes of a word
  inPixel,   \* in_pixel of process
  lineBuff,  \* lineBuff of process
  winTmp,    \* win_tmp of process
  out        \* the last word collect wrote

vars == <<call, pos, fifo, held, inPixel, lineBuff, winTmp, out>>

Vect   == call.vect
Radius == call.radius                   \* RADIUS, GROUP_DELAY
Kernel == 2 * Radius + 1
Overhang == Apron(call)                 \* APRON, in words
LeftSkip  == IF Radius % Vect = 0 THEN 0 ELSE Vect - (Radius % Vect)   \* LEFT
RightKeep == IF Radius % Vect = 0 THEN Vect ELSE Radius % Vect         \* RIGHT

Parts == 1..call.parts
Lanes == 0..(Vect - 1)
Win   == 0..(2 * Radius)

(* The cut: in collect a fraction of the width, and so in distribute, but  *)
(* for distribute2, which takes that of the largest width.                 *)
PartWords  == call.cut                      \* part; PART_0
DealtWords == IF call.parts = 2 /\ ~call.fixed
              THEN call.maxWidth \div 2 ELSE call.cut   \* part; PART_L, PART_R

(* The last part takes what the others leave.                              *)
WordsOf(k) == IF k < call.parts THEN PartWords
              ELSE call.width - (call.parts - 1) * PartWords
WidthOf(k) == WordsOf(k) * Vect

Kind(k) == IF k = 1 THEN "L" ELSE IF k = call.parts THEN "R" ELSE "C"

Distributor == <<"distribute", 0>>
Collector   == <<"collect", 0>>
Process == {Distributor, Collector} \cup ({"split", "process", "assemble"} \X Parts)
Streams == {"words", "pixels", "results", "packed"} \X Parts

-----------------------------------------------------------------------------
(* The loops.                                                              *)

Columns(p) ==
  CASE p[1] = "distribute" -> call.width + 2 * Overhang * Vect
    [] p[1] = "process"    -> WidthOf(p[2]) + 2 * Radius
    [] p[1] = "collect"    -> call.width
    [] OTHER               -> WidthOf(p[2]) + 2 * Overhang * Vect

Lines(p) == IF p[1] = "process" THEN call.height + Radius ELSE call.height

Row(p) == pos[p].row
Col(p) == pos[p].col
Finished(p) == Row(p) = Lines(p)

AdvanceLate(p) ==                  \* mutant: one column too many
  pos' = [pos EXCEPT ![p] = IF Col(p) < Columns(p)
                            THEN [row |-> Row(p), col |-> Col(p) + 1]
                            ELSE [row |-> Row(p) + 1, col |-> 0]]

Advance(p) ==
  pos' = [pos EXCEPT ![p] = IF Col(p) + 1 < Columns(p)
                            THEN [row |-> Row(p), col |-> Col(p) + 1]
                            ELSE [row |-> Row(p) + 1, col |-> 0]]

-----------------------------------------------------------------------------
(* What an iteration reads and writes.                                     *)

TargetsOnce(col) ==                \* mutant: no overhang to the left part
  {CHOOSE k \in Parts : /\ k = call.parts \/ col < k * DealtWords
                        /\ \A l \in 1..(k - 1) : col >= l * DealtWords}

(* The parts a word belongs to: one, or two near a cut.                    *)
Targets(col) ==
  LET ahead == {k \in 1..(call.parts - 1) : col < k * DealtWords + Overhang}
      k     == CHOOSE k \in ahead : \A l \in ahead : k <= l
  IN IF ahead = {} THEN {call.parts}
     ELSE IF col < k * DealtWords - Overhang THEN {k} ELSE {k, k + 1}

SplitReads(k, col) ==
  /\ col % Vect = 0
  /\ Kind(k) # "C" => col < WidthOf(k) + Overhang * Vect

SplitWritesAligned(k, col) ==      \* mutant: keeps the pixels LEFT drops
  CASE Kind(k) = "L" -> col < WidthOf(k) + (Overhang - 1) * Vect + RightKeep
    [] Kind(k) = "C" -> col < WidthOf(k) + (2 * Overhang - 1) * Vect + RightKeep
    [] Kind(k) = "R" -> col < WidthOf(k) + Overhang * Vect

SplitWrites(k, col) ==
  CASE Kind(k) = "L" -> col < WidthOf(k) + (Overhang - 1) * Vect + RightKeep
    [] Kind(k) = "C" -> col \in LeftSkip..(WidthOf(k) + (2 * Overhang - 1) * Vect
                                           + RightKeep - 1)
    [] Kind(k) = "R" -> col \in LeftSkip..(WidthOf(k) + Overhang * Vect - 1)

(* Part L waits for the overhang on its right only, part R on its left.    *)
ProcessReads(k, row, col) ==
  /\ row < call.height
  /\ col < WidthOf(k) + (IF Kind(k) = "C" THEN 2 * Radius ELSE Radius)

ProcessWrites(k, row, col) ==
  /\ row >= Radius
  /\ IF Kind(k) = "L" THEN col >= Radius /\ col < WidthOf(k) + Radius
                      ELSE col >= 2 * Radius

AssembleReads(k, col)  == col < WidthOf(k)
AssembleWrites(k, col) == col < WidthOf(k) /\ col % Vect = Vect - 1

CollectsFrom(col) ==
  IF col >= (call.parts - 1) * PartWords THEN call.parts
  ELSE col \div PartWords + 1

Only(stream, k, condition) == IF condition THEN {<<stream, k>>} ELSE {}

Pops(p) ==
  LET k == p[2] IN
  CASE p[1] = "distribute" -> {}
    [] p[1] = "split"      -> Only("words", k, SplitReads(k, Col(p)))
    [] p[1] = "process"    -> Only("pixels", k, ProcessReads(k, Row(p), Col(p)))
    [] p[1] = "assemble"   -> Only("results", k, AssembleReads(k, Col(p)))
    [] p[1] = "collect"    -> {<<"packed", CollectsFrom(Col(p))>>}

Pushes(p) ==
  LET k == p[2] IN
  CASE p[1] = "distribute" -> IF Col(p) < call.width
                              THEN {"words"} \X Targets(Col(p)) ELSE {}
    [] p[1] = "split"      -> Only("pixels", k, SplitWrites(k, Col(p)))
    [] p[1] = "process"    -> Only("results", k, ProcessWrites(k, Row(p), Col(p)))
    [] p[1] = "assemble"   -> Only("packed", k, AssembleWrites(k, Col(p)))
    [] p[1] = "collect"    -> {}

(* Reads and writes of an hls::stream wait.                                *)
CanRun(p) ==
  /\ ~Finished(p)
  /\ \A s \in Pops(p) : fifo[s] # <<>>
  /\ \A s \in Pushes(p) : Len(fifo[s]) < Depth

(* Operators are deterministic and wait on their streams, so the order in  *)
(* which they run does not show in what they compute: in large layouts one *)
(* order, the last operator first, stands for all.                         *)
Stage(p) == CASE p[1] = "collect"    -> 5
              [] p[1] = "assemble"   -> 4
              [] p[1] = "process"    -> 3
              [] p[1] = "split"      -> 2
              [] p[1] = "distribute" -> 1
Later(p, q) == Stage(q) > Stage(p) \/ (Stage(q) = Stage(p) /\ q[2] > p[2])
HasTurn(p) ==
  CanRun(p) /\ (call.anyOrder \/ \A q \in Process : Later(p, q) => ~CanRun(q))

Moved(p, value) ==
  fifo' = [s \in Streams |->
    LET rest == IF s \in Pops(p) THEN Tail(fifo[s]) ELSE fifo[s]
    IN IF s \in Pushes(p) THEN Append(rest, value) ELSE rest]

Incoming(p) == Head(fifo[CHOOSE s \in Pops(p) : TRUE])

-----------------------------------------------------------------------------
(* The operators.  A word is its line and column, a pixel its line, its    *)
(* column and the order of its bits.  hipaccWriteMemory packs the pixels   *)
(* into a word back to front, temp(lo, hi), and hipaccReadMemory unpacks   *)
(* them likewise.                                                          *)

Orders == {"straight", "reversed"}
Reversed(bits) == IF bits = "straight" THEN "reversed" ELSE "straight"
Packed == Reversed("straight")

(* split_L takes a pixel out back to front as well, the others do not,     *)
(* temp(hi, lo).                                                           *)
SplitOrder(k) == IF Kind(k) = "L" THEN Reversed(Packed) ELSE Packed

Junk == <<-1, -1, "straight">>     \* read before it was written
NoWord == <<-1, -1>>
PixelOf(word, lane, bits) ==
  IF word = NoWord THEN Junk ELSE <<word[1], word[2] * Vect + lane, bits>>

Distribute ==
  LET p == Distributor IN
  /\ HasTurn(p)
  /\ Moved(p, <<Row(p), Col(p)>>)
  /\ Advance(p)
  /\ UNCHANGED <<call, held, inPixel, lineBuff, winTmp, out>>

Distribute2      == call.parts = 2 /\ ~call.fixed /\ Distribute
Distribute2FIXED == call.parts = 2 /\ call.fixed /\ Distribute
Distribute4      == call.parts = 4 /\ Distribute
Distribute8      == call.parts = 8 /\ Distribute
Distribute16     == call.parts = 16 /\ Distribute

Split(k) ==
  LET p == <<"split", k>>
      word == IF Pops(p) = {} THEN held[p] ELSE Incoming(p)
  IN /\ HasTurn(p)
     /\ held' = [held EXCEPT ![p] = word]
     /\ Moved(p, PixelOf(word, Col(p) % Vect, SplitOrder(k)))
     /\ Advance(p)
     /\ UNCHANGED <<call, inPixel, lineBuff, winTmp, out>>

SplitL(k)  == ~call.float /\ Kind(k) = "L" /\ Split(k)
SplitC(k)  == ~call.float /\ Kind(k) = "C" /\ Split(k)
SplitR(k)  == ~call.float /\ Kind(k) = "R" /\ Split(k)
SplitFL(k) == call.float /\ Kind(k) = "L" /\ Split(k)
SplitFC(k) == call.float /\ Kind(k) = "C" /\ Split(k)
SplitFR(k) == call.float /\ Kind(k) = "R" /\ Split(k)

(* Only processR moves the window and the line buffer on behind the last   *)
(* line of the image.                                                      *)
Loads(k, row, col) ==
  IF Kind(k) = "R" THEN row < call.height + Radius ELSE ProcessReads(k, row, col)

ShiftedIn(w, buff, col, pixel) ==
  [i \in Win |-> [j \in Win |->
     IF j < Kernel - 1 THEN w[i][j + 1]
     ELSE IF i < Kernel - 1 THEN buff[i][col] ELSE pixel]]

Pushed(buff, col, pixel) ==
  [i \in DOMAIN buff |-> [buff[i] EXCEPT ![col] =
     IF i < Kernel - 2 THEN buff[i + 1][col] ELSE pixel]]

BorderX(k, w, col) ==
  LET size == WidthOf(k) + (IF Kind(k) = "L" THEN Radius ELSE 2 * Radius) IN
  IF Kind(k) = "C" THEN w
  ELSE [i \in Win |-> [j \in Win |->
          At(w[i], GetNewCoords(call.padding, j, Kernel, Radius, col, size), Junk)]]

(* processC takes the rows from win_tmp, the others in place.              *)
BorderY(k, w, row) ==
  LET from == [i \in Win |-> GetNewCoords(call.padding, i, Kernel, Radius, row,
                                          call.height)]
      none == [j \in Win |-> Junk]
  IN IF Kind(k) = "C" THEN [i \in Win |-> At(w, from[i], none)]
                      ELSE RowsInPlace(w, from, none)

Filter(k) ==
  LET p     == <<"process", k>>
      pixel == IF Pops(p) = {} THEN inPixel[k] ELSE Incoming(p)
      loads == Loads(k, Row(p), Col(p))
  IN /\ HasTurn(p)
     /\ inPixel' = [inPixel EXCEPT ![k] = pixel]
     /\ winTmp' = [winTmp EXCEPT ![k] =
                     IF loads THEN ShiftedIn(@, lineBuff[k], Col(p), pixel) ELSE @]
     /\ lineBuff' = [lineBuff EXCEPT ![k] =
                       IF loads THEN Pushed(@, Col(p), pixel) ELSE @]
     /\ Moved(p, BorderY(k, BorderX(k, winTmp'[k], Col(p)), Row(p)))
     /\ Advance(p)
     /\ UNCHANGED <<call, held, out>>

ProcessL(k) == Kind(k) = "L" /\ Filter(k)
ProcessC(k) == Kind(k) = "C" /\ Filter(k)
ProcessR(k) == Kind(k) = "R" /\ Filter(k)

JunkWindow == [i \in Win |-> [j \in Win |-> Junk]]

(* A lane of a word that is made: what the filter returned for a window,   *)
(* written back to front, temp(lo, hi).                                    *)
Stored(window) == [of |-> window, bits |-> Reversed("straight")]
NoResult == [of |-> JunkWindow, bits |-> "straight"]

Assembling(k) ==
  LET p    == <<"assemble", k>>
      word == IF Pops(p) = {} THEN held[p]
              ELSE [held[p] EXCEPT ![Col(p) % Vect] = Stored(Incoming(p))]
  IN /\ HasTurn(p)
     /\ held' = [held EXCEPT ![p] = word]
     /\ Moved(p, word)
     /\ Advance(p)
     /\ UNCHANGED <<call, inPixel, lineBuff, winTmp, out>>

Assemble(k)  == ~call.float /\ Assembling(k)
AssembleF(k) == call.float /\ Assembling(k)

Collect ==
  LET p == Collector IN
  /\ HasTurn(p)
  /\ out' = Incoming(p)
  /\ Moved(p, NoWord)
  /\ Advance(p)
  /\ UNCHANGED <<call, held, inPixel, lineBuff, winTmp>>

Collect2      == call.parts = 2 /\ ~call.fixed /\ Collect
Collect2FIXED == call.parts = 2 /\ call.fixed /\ Collect
Collect4      == call.parts = 4 /\ Collect
Collect8      == call.parts = 8 /\ Collect
Collect16     == call.parts = 16 /\ Collect

AllFinished == \A p \in Process : Finished(p)

Init ==
  /\ call \in Call
  /\ pos = [p \in Process |-> [row |-> 0, col |-> 0]]
  /\ fifo = [s \in Streams |-> <<>>]
  /\ held = [p \in {"split", "assemble"} \X Parts |->
               IF p[1] = "split" THEN NoWord ELSE [l \in Lanes |-> NoResult]]
  /\ inPixel = [k \in Parts |-> Junk]
  /\ lineBuff = [k \in Parts |-> [i \in 0..(Kernel - 2) |->
                   [c \in 0..(WidthOf(k) + 2 * Radius - 1) |-> Junk]]]
  /\ winTmp = [k \in Parts |-> JunkWindow]
  /\ out = [l \in Lanes |-> NoResult]

Next ==
  \/ Distribute2 \/ Distribute2FIXED
  \/ Distribute4 \/ Distribute8 \/ Distribute16
  \/ \E k \in Parts :
       \/ SplitL(k) \/ SplitC(k) \/ SplitR(k)
       \/ SplitFL(k) \/ SplitFC(k) \/ SplitFR(k)
       \/ ProcessL(k) \/ ProcessC(k) \/ ProcessR(k)
       \/ Assemble(k) \/ AssembleF(k)
  \/ Collect2 \/ Collect2FIXED \/ Collect4 \/ Collect8 \/ Collect16

(* Each operator is a process of its own: it goes on as soon as it can.    *)
Fairness ==
  /\ WF_vars(Distribute)
  /\ WF_vars(Collect)
  /\ \A k \in 1..16 : /\ WF_vars(k \in Parts /\ Split(k))
                      /\ WF_vars(k \in Parts /\ Filter(k))
                      /\ WF_vars(k \in Parts /\ Assembling(k))

Spec == Init /\ [][Next]_vars /\ Fairness

-----------------------------------------------------------------------------
(* What the operators promise together.                                    *)

Pixels ==
  {Junk} \cup ((0..(call.height - 1)) \X (0..(call.width * Vect - 1)) \X Orders)
Windows == [Win -> [Win -> Pixels]]
Results == [of : Windows, bits : Orders]
Words == {NoWord} \cup ((0..(call.height - 1)) \X (0..(call.width - 1)))

Payload(stream) == CASE stream = "words"   -> Words
                     [] stream = "pixels"  -> Pixels
                     [] stream = "results" -> Windows
                     [] stream = "packed"  -> [Lanes -> Results]

TypeOK ==
  /\ call \in Call
  /\ \A p \in Process : /\ Row(p) \in 0..Lines(p)
                        /\ Col(p) \in 0..(Columns(p) - 1)
  /\ \A s \in Streams : /\ Len(fifo[s]) <= Depth
                        /\ \A n \in 1..Len(fifo[s]) : fifo[s][n] \in Payload(s[1])
  /\ \A k \in Parts : /\ held[<<"split", k>>] \in Words
                      /\ held[<<"assemble", k>>] \in [Lanes -> Results]
                      /\ inPixel[k] \in Pixels
                      /\ winTmp[k] \in Windows
                      /\ lineBuff[k] \in [0..(Kernel - 2) ->
                           [0..(WidthOf(k) + 2 * Radius - 1) -> Pixels]]
  /\ out \in [Lanes -> Results]

Neighbourhood(y, x, bits) ==
  [i \in Win |-> [j \in Win |->
     <<Pad(call.padding, y + i - Radius, call.height),
       Pad(call.padding, x + j - Radius, call.width * Vect), bits>>]]

(* Where a word of the image is what filtering the whole image gives: not  *)
(* in the last lines of all parts but the last, whose windows processL and *)
(* processC no longer move, nor at the right border unless it is clamped.  *)
HasWindow(y, c, l) ==
  /\ y + Radius < call.height \/ CollectsFrom(c) = call.parts
  /\ c * Vect + l + Radius < call.width * Vect \/ call.padding = "CLAMP"

Collected == Row(Collector) * call.width + Col(Collector)
LastLine  == (Collected - 1) \div call.width
LastWord  == (Collected - 1) % call.width

(* The last word collect wrote shows its windows of the image, their       *)
(* pixels' bits in one of these orders.                                    *)
LastWordShows(orders) ==
  \A l \in Lanes : HasWindow(LastLine, LastWord, l) =>
    \E bits \in orders :
      out[l] = Stored(Neighbourhood(LastLine, LastWord * Vect + l, bits))

(* A line of the image comes out with the windows in place: no pixel is    *)
(* missing, doubled or taken from another line, or from another column at  *)
(* the cuts between parts, whatever the order in which the operators run.  *)
(* Part L has the pixels as they are in memory; all pixels of another      *)
(* window have their bits in the same order.                               *)
PartsMeetInPlace ==
  Collected > 0 =>
    LastWordShows(IF CollectsFrom(LastWord) = 1 THEN {"straight"} ELSE Orders)

(* split takes the aggregate data types apart (F:570, "SPLIT aggregate     *)
(* data types from MAJOR to MINOR"): the parts meet without a seam, as if  *)
(* the whole image had been filtered.                                      *)
PartsMeetWithoutSeam == Collected > 0 => LastWordShows({"straight"})

(* The operators never wait for each other in a circle, however short the  *)
(* streams between them, and in the end nothing is left in a stream: an    *)
(* operator that took a pixel less than it is sent, or waited for one      *)
(* more, would stop the others for good.  distribute2 asserts no more than *)
(* width <= MAX_WIDTH.                                                     *)
AllComplete == <>(AllFinished /\ \A s \in Streams : fifo[s] = <<>>)
=============================================================================
