------------------------------ MODULE Reduction ------------------------------
(***************************************************************************)
(* Global reduction of an image on a CUDA device: the host functions       *)
(* hipaccApplyReductionThreadFence and hipaccApplyReduction                *)
(* (runtime/hipacc_cu.hpp.cmake) and the kernels they launch               *)
(* (runtime/hipacc_cu_red.hpp).  A grid of blocks reduces the image to one *)
(* partial result per block.  With thread fences the block that draws the  *)
(* last ticket reduces the partial results; otherwise a second kernel does.*)
(*                                                                         *)
(* The reduced function is any commutative and associative one: a value is *)
(* the sequence of the indices in the image it was computed from.  The     *)
(* reduction within a block, synchronised by barriers, is one step.        *)
(***************************************************************************)
EXTENDS Integers, Sequences, FiniteSets, SequencesExt

CONSTANTS
  Width, Height, Stride,  \* of the image
  Region,                 \* regions [x, y, width, height] to reduce
  BlockDim,               \* threads of a block (BS, max_threads)
  PPT,                    \* pixels_per_thread
  WarpSize,               \* 32
  MaxCalls                \* bound: calls of the host function

PowersOfTwo == {1, 2, 4, 8, 16, 32, 64, 128, 256, 512, 1024}

ASSUME SizesArePositive ==
  /\ {Width, Height, Stride, PPT, BlockDim, WarpSize} \subseteq Nat \ {0}
  /\ {BlockDim, WarpSize} \subseteq PowersOfTwo
ASSUME RowsDoNotOverlap == Width <= Stride
ASSUME CallsAreBounded == MaxCalls \in Nat
ASSUME RegionsAreParts ==
  \A r \in Region : /\ {r.x, r.y} \subseteq Nat
                    /\ r.x + r.width \in 1..Width
                    /\ r.y + r.height \in 1..Height
                    /\ {r.width, r.height} \subseteq Nat \ {0}
(* A part that starts at the origin is not reduced as one: the host does   *)
(* not pass its offsets, although the kernel is compiled to take them.     *)
ASSUME OriginMeansWhole ==
  \A r \in Region : r.x = 0 /\ r.y = 0 => r.width = Width /\ r.height = Height

VARIABLES
  target,      \* "fence" (Fermi or later) or "steps"
  region,      \* the region reduced
  host,        \* "idle", or the kernel that runs
  pc,          \* next step of each block
  inFlight,    \* blocks whose store other blocks may not see yet
  output,      \* the device memory for partial results
  finished,    \* finished_blocks
  result,      \* the value returned last
  calls        \* calls so far

vars == <<target, region, host, pc, inFlight, output, finished, result, calls>>

Junk == <<-1>>        \* memory never written

-----------------------------------------------------------------------------
(* The grid.                                                               *)
Ceil(a, b) == (a + b - 1) \div b

IsCropped(r) == (r.x # 0 \/ r.y # 0) /\ (r.width # Width \/ r.height # Height)

(* Blocks beside the region are skipped, by whole blocks of columns.       *)
IdleLeft(r)  == IF IsCropped(r) THEN (r.x \div BlockDim) * BlockDim ELSE 0
IdleRight(r) == IF IsCropped(r)
                THEN ((Width - r.x - r.width) \div BlockDim) * BlockDim ELSE 0
GridX(r) == Ceil(Width - IdleLeft(r) - IdleRight(r), 2 * BlockDim)
GridY(r) == Ceil(r.height, PPT)
GridSize(r) == GridX(r) * GridY(r)

NumBlocks == GridSize(region)
Block     == 0..(NumBlocks - 1)

-----------------------------------------------------------------------------
(* The first kernel, for region r.                                         *)

Read(r, x, y) == x + (y + r.y) * Stride

Inside(r, x) == x \in r.x..(r.x + r.width - 1)

(* A thread reduces two columns, a block's width apart, of PPT rows.  In   *)
(* the first row it starts with one of them even if neither is inside.     *)
FirstRow(r, x, y) ==
  IF Inside(r, x) THEN IF Inside(r, x + BlockDim)
                       THEN <<Read(r, x, y), Read(r, x + BlockDim, y)>>
                       ELSE <<Read(r, x, y)>>
  ELSE <<Read(r, x + BlockDim, y)>>

NextRowUnchecked(r, x, y) ==          \* mutant: rows below the region count
  (IF Inside(r, x) THEN <<Read(r, x, y)>> ELSE << >>) \o
  (IF Inside(r, x + BlockDim) THEN <<Read(r, x + BlockDim, y)>> ELSE << >>)

NextRow(r, x, y) ==
  IF y >= r.height THEN << >>
  ELSE (IF Inside(r, x) THEN <<Read(r, x, y)>> ELSE << >>) \o
       (IF Inside(r, x + BlockDim) THEN <<Read(r, x + BlockDim, y)>> ELSE << >>)

ThreadValue(r, b, tid) ==
  LET x == 2 * BlockDim * (b % GridX(r)) + tid + IdleLeft(r)
      y == PPT * (b \div GridX(r))
  IN FirstRow(r, x, y) \o FlattenSeq([j \in 1..(PPT - 1) |-> NextRow(r, x, y + j)])

Partial(r, b) == FlattenSeq([t \in 1..BlockDim |-> ThreadValue(r, b, t - 1)])

(* Reduction of m partial results in memory mem by one block of n threads: *)
(* thread tid starts with element tid, whatever m is, and adds every n-th  *)
(* from there.                                                             *)
Gather(mem, m, n) ==
  LET Element(i) == IF i < m THEN mem[i] ELSE Junk
      Further(i) == IF i < m THEN mem[i] ELSE << >>
  IN FlattenSeq([t \in 1..n |->
       Element(t - 1) \o
       FlattenSeq([j \in 1..(m \div n) |-> Further(t - 1 + j * n)])])

NextPow2(x) ==
  CHOOSE p \in PowersOfTwo :
    /\ p >= x /\ p >= WarpSize
    /\ \A q \in PowersOfTwo : q >= x /\ q >= WarpSize => p <= q

SecondBlockDim(m) == IF m < BlockDim THEN NextPow2((m + 1) \div 2) ELSE BlockDim

-----------------------------------------------------------------------------
PCs == {"reduce", "fence", "ticket", "last", "done"}
Value == Seq(Int)

TypeOK ==
  /\ target \in {"fence", "steps"}
  /\ region \in Region
  /\ host \in {"idle", "kernel2D", "kernel1D"}
  /\ pc \in [Block -> PCs]
  /\ inFlight \subseteq Block
  /\ output \in [Block -> Value]
  /\ finished \in 0..NumBlocks
  /\ result \in Value
  /\ calls \in 0..MaxCalls

Init ==
  /\ target \in {"fence", "steps"}
  /\ region \in Region
  /\ host = "idle"
  /\ pc = [b \in Block |-> "done"]
  /\ inFlight = {}
  /\ output = [b \in Block |-> Junk]
  /\ finished = 0
  /\ result = Junk
  /\ calls = 0

(* The host allocates output and launches the first kernel.                *)
ApplyReduction ==
  /\ host = "idle"
  /\ calls < MaxCalls
  /\ host' = "kernel2D"
  /\ pc' = [b \in Block |-> "reduce"]
  /\ output' = [b \in Block |-> Junk]
  /\ calls' = calls + 1
  /\ UNCHANGED <<target, region, inFlight, finished, result>>

(* A block stores its partial result.                                      *)
StorePartial(b) ==
  /\ host = "kernel2D"
  /\ pc[b] = "reduce"
  /\ inFlight' = inFlight \union {b}
  /\ pc' = [pc EXCEPT ![b] = IF target = "fence" /\ NumBlocks > 1
                             THEN "fence" ELSE "done"]
  /\ UNCHANGED <<target, region, host, output, finished, result, calls>>

(* The memory system makes a store visible to the other blocks.            *)
Arrive(b) ==
  /\ b \in inFlight
  /\ output' = [output EXCEPT ![b] = Partial(region, b)]
  /\ inFlight' = inFlight \ {b}
  /\ UNCHANGED <<target, region, host, pc, finished, result, calls>>

NoThreadFence(b) ==                   \* mutant: the store is not waited for
  /\ pc[b] = "fence"
  /\ pc' = [pc EXCEPT ![b] = "ticket"]
  /\ UNCHANGED <<target, region, host, inFlight, output, finished, result, calls>>

(* __threadfence                                                           *)
ThreadFence(b) ==
  /\ pc[b] = "fence"
  /\ b \notin inFlight
  /\ pc' = [pc EXCEPT ![b] = "ticket"]
  /\ UNCHANGED <<target, region, host, inFlight, output, finished, result, calls>>

DrawTicketPerThread(b) ==             \* mutant: every thread counts
  /\ pc[b] = "ticket"
  /\ pc' = [pc EXCEPT ![b] = IF finished = NumBlocks - 1 THEN "last" ELSE "done"]
  /\ finished' = finished + BlockDim
  /\ UNCHANGED <<target, region, host, inFlight, output, result, calls>>

(* atomicInc wraps beyond the number of blocks.                            *)
DrawTicket(b) ==
  /\ pc[b] = "ticket"
  /\ pc' = [pc EXCEPT ![b] = IF finished = NumBlocks - 1 THEN "last" ELSE "done"]
  /\ finished' = IF finished >= NumBlocks THEN 0 ELSE finished + 1
  /\ UNCHANGED <<target, region, host, inFlight, output, result, calls>>

LastBlockNoReset(b) ==                \* mutant: the counter is not reset
  /\ pc[b] = "last"
  /\ output' = [output EXCEPT ![0] = Gather(output, NumBlocks, BlockDim)]
  /\ pc' = [pc EXCEPT ![b] = "done"]
  /\ UNCHANGED <<target, region, host, inFlight, finished, result, calls>>

(* The last block reduces the partial results and resets the counter.      *)
LastBlock(b) ==
  /\ pc[b] = "last"
  /\ output' = [output EXCEPT ![0] = Gather(output, NumBlocks, BlockDim)]
  /\ finished' = 0
  /\ pc' = [pc EXCEPT ![b] = "done"]
  /\ UNCHANGED <<target, region, host, inFlight, result, calls>>

(* Kernels run one after the other; the end of one is a barrier.           *)
KernelDone == inFlight = {} /\ \A b \in Block : pc[b] = "done"

Kernel1D ==
  /\ host = "kernel2D"
  /\ target = "steps"
  /\ KernelDone
  /\ host' = "kernel1D"
  /\ output' = [output EXCEPT ![0] = Gather(output, NumBlocks, SecondBlockDim(NumBlocks))]
  /\ UNCHANGED <<target, region, pc, inFlight, finished, result, calls>>

(* The host copies the first element and frees output.                     *)
Return ==
  /\ host = IF target = "fence" THEN "kernel2D" ELSE "kernel1D"
  /\ KernelDone
  /\ host' = "idle"
  /\ result' = output[0]
  /\ UNCHANGED <<target, region, pc, inFlight, output, finished, calls>>

BlockStep(b) ==
  StorePartial(b) \/ Arrive(b) \/ ThreadFence(b) \/ DrawTicket(b) \/ LastBlock(b)

Next == ApplyReduction \/ (\E b \in Block : BlockStep(b)) \/ Kernel1D \/ Return

Spec == Init /\ [][Next]_vars

-----------------------------------------------------------------------------
(* Sizes for which every thread has a pixel to start with: the region is as *)
(* wide as a block has threads, BlockDim of its columns or more are in the *)
(* last block of a row, and there are as many partial results as threads   *)
(* that gather them.                                                       *)
EveryThreadStarts ==
  /\ region.width >= BlockDim
  /\ region.x + region.width
       >= IdleLeft(region) + 2 * BlockDim * (GridX(region) - 1) + BlockDim
  /\ IF target = "fence" THEN NumBlocks = 1 \/ NumBlocks >= BlockDim
     ELSE NumBlocks >= SecondBlockDim(NumBlocks)

Pixels ==
  {x + y * Stride : x \in region.x..(region.x + region.width - 1),
                    y \in region.y..(region.y + region.height - 1)}

(* What a call returns depends on the partial results alone, not on the    *)
(* order in which blocks run and their stores arrive, nor on earlier calls.*)
Partials(r) == [b \in 0..(GridSize(r) - 1) |-> Partial(r, b)]

Expected(t, r) ==
  IF t = "steps"
  THEN Gather(Partials(r), GridSize(r), SecondBlockDim(GridSize(r)))
  ELSE IF GridSize(r) = 1 THEN Partials(r)[0]
  ELSE Gather(Partials(r), GridSize(r), BlockDim)

ScheduleIndependent ==
  host = "idle" /\ calls > 0 => result = Expected(target, region)

(* Every call returns the reduction of all pixels of the region, each      *)
(* taken once, in whatever order blocks run and stores arrive.             *)
ResultIsReduction ==
  host = "idle" /\ calls > 0 /\ EveryThreadStarts =>
    /\ Len(result) = Cardinality(Pixels)
    /\ {result[n] : n \in DOMAIN result} = Pixels

(* The block that reduces the partial results is the only one left, and    *)
(* sees all of them: their stores arrived before their tickets were drawn. *)
LastSeesAll ==
  \A b \in Block : pc[b] = "last" =>
    \A c \in Block : /\ output[c] = Partial(region, c)
                     /\ c # b => pc[c] = "done"

(* What the comments at the host functions promise                         *)
(* (hipacc_cu.hpp.cmake:890 and 994): every call returns the reduction.    *)
ReturnsReduction ==
  host = "idle" /\ calls > 0 =>
    {result[n] : n \in DOMAIN result} = Pixels

(* A call leaves the counter as it found it: the kernel can be launched    *)
(* again.                                                                  *)
CounterReset == host = "idle" => finished = 0
=============================================================================
