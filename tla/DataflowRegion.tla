--------------------------- MODULE DataflowRegion ---------------------------
(***************************************************************************)
(* The printed program at run time: main() fills the input streams, calls  *)
(* the entry function that createSchedule and prettyPrint made             *)
(* (StreamSchedule), and reads one result back.  The entry function is a   *)
(* dataflow region: its statements, calls of library operators and copies  *)
(* of streams, run at the same time and wait for each other at streams     *)
(* that hold few pixels.                                                   *)
(*                                                                         *)
(* An operator is its loop (WindowFilter has the loop body): an iteration  *)
(* takes a pixel from each input while it is inside the image, and writes  *)
(* the pixel whose window has arrived.  The value of a pixel is the term   *)
(* it was computed by, from the pixels in the centres of the windows.      *)
(***************************************************************************)
EXTENDS StreamSchedule

CONSTANTS
  Width, Height,   \* HIPACC_MAX_WIDTH, HIPACC_MAX_HEIGHT: all images
  GroupDelay,      \* of each kernel, GDELAY_X and GDELAY_Y of its operator
  Depth            \* pixels a stream inside the region holds

ASSUME ImageIsNotEmpty == {Width, Height, Depth} \subseteq Nat \ {0}
ASSUME DelaysAreNat    == GroupDelay \in [Kernel -> [x : Nat, y : Nat]]

VARIABLES
  fifo,        \* contents of the streams
  taken,       \* pixels each statement has taken, per input
  iteration,   \* iterations of its loop each statement has done
  filled,      \* inputs main() has written
  running,     \* "no", "region", "over"
  result       \* image main() fetches and its pixels

runVars == <<fifo, taken, iteration, filled, running, result>>
allVars == <<vars, runVars>>

Size == Width * Height
None == << >>

RunInit ==
  /\ fifo = << >>
  /\ taken = << >>
  /\ iteration = << >>
  /\ filled = {}
  /\ running = "no"
  /\ result = None

-----------------------------------------------------------------------------
(* Programs with an entry function the library can run.                    *)

(* main() declares one stream per image (getStreamDecl), and splitStream   *)
(* has two outputs.                                                        *)
OneStreamPerImage ==
  \A s, t \in Inputs \cup Outputs : spaces[s].image = spaces[t].image => s = t
SplitsInTwo == \A n \in DOMAIN Code : Len(Code[n].outs) <= 2

Runnable == Done /\ OutOfPlace /\ OneStreamPerImage /\ SplitsInTwo

(* Streams have room for the lags of all operators on a path to another,   *)
(* and for one pixel more.  The printed region declares no depths; main()  *)
(* runs it whether they do or not.                                         *)
DelayOf(p) == GroupDelay[processes[p].kernel]
Lag(p)     == DelayOf(p).y * Width + DelayOf(p).x
LagBefore[p \in 0..Len(processes)] ==
  IF p < 2 THEN 0 ELSE LagBefore[p - 1] + Lag(p - 1)
StreamsHoldLags == LagBefore[Len(processes)] < Depth

(* Images whose last value no kernel has read: main() can fetch them.      *)
Fetchable ==
  {i \in imgMap : \E s \in Outputs :
     spaces[s].image = i /\ IsLastWriter(spaces[s].src, i, Len(processes))}

-----------------------------------------------------------------------------
(* main().                                                                 *)

InputPixels(i) == [k \in 1..Size |-> <<i, k>>]

Contents(x) == IF x \in DOMAIN fifo THEN fifo[x] ELSE << >>

(* IMG = array: hipaccWriteMemory.                                         *)
WriteMemory(s) ==
  /\ running = "no"
  /\ s \in Inputs \ filled
  /\ fifo' = Bind(fifo, stream[s],
                  Contents(stream[s]) \o InputPixels(spaces[s].image))
  /\ filled' = filled \cup {s}
  /\ UNCHANGED <<taken, iteration, running, result>>

(* array = IMG.data(): the entry function is called, ...                   *)
CallEntry(i) ==
  /\ running = "no"
  /\ filled = Inputs
  /\ running' = "region"
  /\ fifo' = [x \in StreamsUsed |-> Contents(x)]
  /\ taken' = [n \in DOMAIN Code |-> [m \in DOMAIN Code[n].ins |-> << >>]]
  /\ iteration' = [n \in DOMAIN Code |-> 0]
  /\ result' = [image |-> i, pixels |-> << >>]
  /\ UNCHANGED filled

-----------------------------------------------------------------------------
(* The statements of the entry function.                                   *)

(* splitStream has no delay: a copy is a point operator with two outputs.  *)
Delay(n) == IF Code[n].op = "call" THEN DelayOf(NodeAt(n).at)
            ELSE [x |-> 0, y |-> 0]
Row(n)   == iteration[n] \div (Width + Delay(n).x)
Col(n)   == iteration[n] % (Width + Delay(n).x)

LoopEnds(n) == Row(n) = Height + Delay(n).y

TakesBehindRow(n) == Row(n) < Height      \* mutant: reads after the row's end

Takes(n) == Col(n) < Width /\ Row(n) < Height
Gives(n) == Col(n) >= Delay(n).x /\ Row(n) >= Delay(n).y

(* Only the streams inside the region are hardware of the region.          *)
HasRoom(x) == x \in EntryOuts \/ Len(fifo[x]) < Depth

(* The pixel in the centre of the window.                                  *)
Centre(n) == (Row(n) - Delay(n).y) * Width + Col(n) - Delay(n).x + 1

Computed(n, got) ==
  LET pixels == [m \in DOMAIN got |-> got[m][Centre(n)]] IN
  IF Code[n].op = "call" THEN <<processes[NodeAt(n).at].kernel, pixels>>
  ELSE pixels[1]

(* The streams that the next iteration of statement n reads and writes.    *)
InsNow(n) ==
  IF Takes(n) THEN {Code[n].ins[m] : m \in DOMAIN Code[n].ins} ELSE {}
OutsNow(n) ==
  IF Gives(n) THEN {Code[n].outs[m] : m \in DOMAIN Code[n].outs} ELSE {}

Ready(n) ==
  /\ n \in DOMAIN Code
  /\ Code[n].op # "none"
  /\ ~LoopEnds(n)
  /\ \A x \in InsNow(n) : fifo[x] # << >>
  /\ \A x \in OutsNow(n) : HasRoom(x)

(* One iteration of the loop of statement n.                               *)
Iterate(n) ==
  /\ Ready(n)
  /\ LET got == [m \in DOMAIN taken[n] |->
                   IF Takes(n) THEN Append(taken[n][m], Head(fifo[Code[n].ins[m]]))
                   ELSE taken[n][m]]
     IN /\ taken' = [taken EXCEPT ![n] = got]
        /\ fifo' = [x \in DOMAIN fifo |->
                      IF x \in InsNow(n) THEN Tail(fifo[x])
                      ELSE IF x \in OutsNow(n) THEN Append(fifo[x], Computed(n, got))
                      ELSE fifo[x]]
  /\ iteration' = [iteration EXCEPT ![n] = @ + 1]
  /\ UNCHANGED <<filled, running, result>>

Region == running = "region" /\ \E n \in DOMAIN Code : Iterate(n)

(* ... and, once all its statements have ended, hipaccReadMemory reads the *)
(* output stream of the image.                                             *)
AllEnded == \A n \in DOMAIN Code : Code[n].op = "none" \/ LoopEnds(n)
ResultReady == AllEnded /\ Len(fifo[OutputStream(result.image)]) >= Size

ReadMemory ==
  /\ running = "region"
  /\ ResultReady
  /\ LET x == OutputStream(result.image) IN
       /\ result' = [result EXCEPT !.pixels = SubSeq(fifo[x], 1, Size)]
       /\ fifo' = [fifo EXCEPT ![x] = SubSeq(@, Size + 1, Len(@))]
  /\ running' = "over"
  /\ UNCHANGED <<taken, iteration, filled>>

Run ==
  /\ Runnable
  /\ \/ \E s \in DOMAIN spaces : WriteMemory(s)
     \/ \E i \in Fetchable : CallEntry(i)
     \/ Region
     \/ ReadMemory
  /\ UNCHANGED vars

Compile == ScheduleNext /\ UNCHANGED runVars

RegionNext == Compile \/ Run

(* The compiler goes on as in ScheduleSpec; main() and the hardware of the *)
(* region do something while anything can be done.                         *)
RegionFairness == WF_allVars(Mark /\ UNCHANGED runVars) /\ WF_allVars(Run)

RegionSpec ==
  Init /\ MarkInit /\ RunInit /\ [][RegionNext]_allVars /\ RegionFairness

-----------------------------------------------------------------------------
(* The host program run sequentially: pixel k of every image after its     *)
(* first n executions.                                                     *)
Meaning(k) ==
  LET after[n \in 0..Len(processes)] ==
        IF n = 0 THEN [i \in Image |-> <<i, k>>]
        ELSE [after[n - 1] EXCEPT ![Writes(n)] =
                <<processes[n].kernel,
                  [m \in DOMAIN AccsOf(n) |-> after[n - 1][Reads(n, m)]]>>]
  IN after[Len(processes)]

(* What main() fetches is what the sequential program computes, pixel by   *)
(* pixel, in every interleaving of the statements of the entry function.   *)
ResultIsSequential ==
  running = "over" =>
    result.pixels = [k \in 1..Size |-> Meaning(k)[result.image]]

(* The statements never wait for each other in a circle, however paths of  *)
(* different lag meet in the entry function: if its streams hold the lags  *)
(* of the operators, some statement can go on until all have ended and the *)
(* result is there.                                                        *)
RegionNeverBlocks ==
  running = "region" /\ StreamsHoldLags =>
    (\E n \in DOMAIN Code : Ready(n)) \/ ResultReady

(* So whatever is begun ends: createSchedule, with the cycles in-place     *)
(* kernels make, and the entry function, which gives main() its result if  *)
(* its streams hold the lags.                                              *)
RegionCompletes ==
  /\ ScheduleTerminates
  /\ (Runnable /\ StreamsHoldLags /\ Fetchable # {}) ~> (running = "over")

=============================================================================
