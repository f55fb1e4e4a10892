# Formal model of the Hipacc compiler for Vivado and of its runtimes

Hipacc is a source-to-source compiler for an image processing DSL embedded in
C++. This fork (hipacc-vivado) adds a back end for Vivado HLS: the kernels a
host program runs one after the other become the processes of one *dataflow
region*, an entry function in which `hls::stream`s connect calls of library
operators. The model has two halves: what makes that translation correct, and
what the back ends for CPUs and GPUs have to get right, from the argument lists
and border regions of a kernel to the memory and reductions of the runtimes.

Paths below are relative to `src/`; `H` is `lib/Analysis/HostDataDeps.cpp`, `F`
is `runtime/hipacc_vivado_filter.hpp`.

## 1. The system

### Components, their state and operations

| Component | State | Operations | Hard behaviour |
|---|---|---|---|
| Host data dependency analysis (`DependencyTracker`, `HostDataDeps`) | maps of declared images, boundary conditions, accessors, iteration spaces, kernels; `spaces_` and `processes_`, a bipartite graph | one per DSL declaration in `main()`; `runKernel` per `execute()` | order of statements; several values of one image; one image read twice; in-place kernels |
| Stream schedule (`createSchedule`) | names of streams per space and process, copies, the schedule, two counters | `markSpace`, `markProcess` (mutually recursive), `createStream` | recursion over a graph with joins and, for in-place kernels, cycles |
| Entry function (`prettyPrint`, `getEntrySignature`, `getOutputStream`) | none | printing, backwards over the schedule | producer before consumer, one writer and one reader per stream, which stream is the host's result |
| Vivado kernel printer (`Rewrite::printKernelFunction`, `printKernelArguments`) | `vivadoBM`, `vivadoSizeX/Y`, kept from kernel to kernel | one per kernel declaration | stale members; sizes compared as strings |
| Vivado filter library (`process…`, `downsample`, `upsample`, `distribute…`, `collect…`) | line buffer, window, loop variables | one loop iteration | borders, group delay, uninitialised buffers, number of pixels taken, operators waiting for each other |
| CUDA reductions (`hipaccApplyReduction…`, `REDUCTION_CUDA_…`) | partial results, `finished_blocks` on the device | store, fence, ticket, last block; second kernel | blocks in any order, stores that are visible late, regions |
| Host rewriting (`Rewrite`, `CreateHostStrings`) | text and per-declaration maps | one per DSL statement | lists made at different times that must agree; transfers and releases |
| Kernel classes and kernels (`ClassRepresentation`) | members, mapping, argument lists, launch configuration | `addArg`, `createArgInfo`, `calcConfig`, `setResourceUsage`, … | a configuration that changes after the lists were made |
| AST translation (`ASTTranslate`, `MemoryAccess`, `BorderHandling`) | the syntax tree, border handling of the copy being printed | one visitor per node | which of up to ten copies of the body a block runs, staging to local memory |
| Runtime memory (`hipacc_base.hpp` and one file per target) | list of images, reference counts, pyramids, running traversals | create, copy, transfer, release, traverse | identity of images, strides, recursion over pyramids |
| DSL headers (`dsl/`) | arrays, pyramids | what the DSL means when compiled as plain C++ | the reference of the above |
| Kernel statistics | per-variable patterns | one visitor per node | fixpoint over the control flow graph |
| Device tables, vectorisation, driver | records and tables | look-ups | little |

### How they interact

`hipacc` parses the program. Clang's control flow graph of `main()` is walked by
`DependencyTracker`, which calls `HostDataDeps` for every declaration and every
`execute()`. When it is done, `createSchedule` names the streams. The rewriter
then visits the same declarations: for each kernel it prints the functor and a
call of a filter operator (kernel printer), and for the whole program the entry
function (from the schedule). An assignment from `IMG.data()` becomes a call of
the entry function followed by a transfer from the output stream of the image.
The printed program runs with the filter library. On the other targets each
kernel declaration is translated at once (configuration, argument lists, border
regions), each `execute()` becomes a launch, images, pyramids and assignments become
calls of the runtime, and global operators go through the reduction functions.

The compiler itself is sequential. Concurrency arises in the programs it prints:
all processes of a dataflow region run at once, and so do the blocks of a GPU
kernel. What has to hold of the compiler is therefore mostly that the printed
network means the same as the sequential program.

### What makes each component correct

* **Graph**: every accessor of every execution is fed by the last earlier
  execution that wrote its image, or by the host; an image has at most one input; executions recorded once stay as they are.
* **Schedule and entry function**: every execution is printed once, after its
  producers, with its arguments in accessor order; every stream has one writer and
  one reader; the traversal ends; the host gets the last value of an image.
* **Kernel printer**: each kernel gets the operator, window and border mode of
  its own accessors and masks, whatever was printed before.
* **Filter library**: the *k*-th pixel written is computed from the
  neighbourhood of the *k*-th pixel, continued beyond the border as asked; exactly
  the pixels of the image are taken from the stream; an image filtered in parts comes
  out in place and without a seam, and the operators never wait for each other in a circle.
* **Border regions**: whatever copy of the body a block runs, each pixel is computed
  from what the DSL reads there, and each pixel of the iteration space is written once.
* **Kernel arguments**: every launch gives the kernel as printed what the program
  means by its parameters, in a configuration that fits the device.
* **Memory**: the generated program shows what the DSL shows; host and device blocks
  are released once, by whoever has the last handle; pyramids are at the level the
  recursion says.
* **Reductions**: the result contains each pixel of the region once, in every
  order of blocks and stores, and the counter is ready for the next launch.

`PROJECT.json` lists the hazards of the code by line, with the properties that
cover them and a note where none does yet.

## 2. Modules

| Module | Models | State and actions |
|---|---|---|
| `HostProgram` | what a host program means: a sequence of executions over images (abstract specification) | `Execute` |
| `HostDataDeps` | the analysis | a map per kind of declaration, `spaces`, `processes`; `link` stands for the loop of `runKernel` over the accessors. Actions `AddImage` … `AddKernel`, `RunKernel`, `LinkYoungestSpace` / `LinkNewInput` (one iteration of the loop each) |
| `StreamSchedule` | `createSchedule` and the printed code; EXTENDS `HostDataDeps` | the recursion is an explicit stack of `markProcess` activations; `MarkOutput`, `MarkInput`, `PushInStream`, `ReturnFromMarkProcess`, `FinishSchedule`; `Code` is the printed entry function |
| `DataflowRegion` | the printed program at run time; EXTENDS `StreamSchedule` | contents of the streams, loop counters of the statements, the result; `WriteMemory`, `CallEntry`, `ReadMemory` of `main()`, `Iterate` for one iteration of one statement |
| `DataflowRegion_proofs` | theorems about the last three: the wiring, that the analysis implements `HostProgram`, the entry function, its result, and that the region does not block | |
| `KernelPrinter` | the choice of library call per kernel | `PrintKernel`, and `Abort` for a failed assertion in a build that checks them |
| `Kernels_proofs` | theorems about it and about `KernelArguments` | |
| `BorderPadding` | `getNewCoords` and the in-place row pass, with the border conditions they implement | operators only |
| `WindowFilter` | the local and pyramid operators for one pixel per cycle, and the point operators `processPixels` and `splitStream` | one action per operator, each one iteration of the shared loop; a pixel is its index in the input stream, so that a window tells where its contents come from |
| `WindowFilter_proofs` | theorems about it | |
| `VectorFilter` | the operators on words of several pixels (local, point, pyramid, `splitStream…VECT`), those with a fixed word size included | one action per operator, each one iteration of its loop; a word is its index in the input stream, a pixel a word and a lane; `PixelWindow` is the selection of lanes by `getWinCoords` |
| `VectorFilter_proofs` | theorems about it | |
| `OverlappedParts` | `distribute…`, `split…`, `processL/C/R`, `assemble…`, `collect…`: an image filtered in 2 to 16 vertical parts | one action per operator and part, each one iteration of its loop, waiting for what it reads and for room for what it writes (`fifo`) |
| `OverlappedParts_proofs` | theorems about it | |
| `BorderRegions` | the kernel `ASTTranslate` prints for a local operator (CUDA, OpenCL, C99) with `hipaccPrepareKernelLaunch`; the reference `DSLRead` is from `dsl/image.hpp` | one block of one launch; per thread `Stage` (local memory) and `Compute`; a pixel is its position |
| `BorderRegions_proofs` | theorems about it | |
| `KernelArguments` | what the rewriter keeps of a kernel from its class to its last launch | `VisitClass`, `DeclareKernel`, `SetDefaultConfig`, `EstimateResources`, `SetResourceUsage`, `TranslateKernel`, `Execute`, `EndOfProgram` |
| `DSLMemory` | images, regions, pyramids and traversals as the DSL headers have them (abstract specification) | a statement per action; `arrays` |
| `RuntimeMemory` | the same statements as rewritten, on the memory management of all five languages; refines `DSLMemory` | `memory` (device block with stride, counted host block), `context`, handles; the same statements, `NextRepetition`, `EndRecursion`, `EndTraversal` for the parts of a traversal, `ReleaseImage`, `ReleasePyramid`, `LeaveMain` |
| `RuntimeMemory_proofs` | theorems about it: traversals, pixels (it implements `DSLMemory`), handles and releases | |
| `Reduction` | the CUDA reductions | a program counter per block, stores in flight, `finished`; `StorePartial`, `Arrive`, `ThreadFence`, `DrawTicket`, `LastBlock`, `Kernel1D`, `Return`; a value is the sequence of pixels it was computed from |
| `Reduction_proofs` | theorems about it | |
| `MC…` | instances for TLC | constants, starting states, symmetry |

Definitions marked "mutant" in a module are wrong variants of the definition
below or above them, each a plausible mistake in the code. The specification does
not use them; they show that the properties can fail.

Modelling decisions worth knowing:

* The `for` loop of `runKernel` takes one step per accessor, so that its
  intermediate states are visible to the invariants. `RunKernel` cannot begin while
  a loop runs: the analysis is sequential.
* `DataflowRegion` keeps the loop of an operator and what it takes and gives per
  iteration, and replaces the window by its centre: that the rest of the window is
  right is `WindowFilter`. An iteration is one step, which needs its input and its room at
  once. Split in two it could only go further, so no deadlock is hidden; streams that are
  parameters of the entry function belong to `main()` and hold any number of pixels.
* Names of streams are tuples. Counters and kinds are kept, spelling is not.
* Uninitialised memory (line buffer, window, unwritten device memory) is the
  value `Junk`, different from every legal value. A property that compares with legal
  values then fails if the code depends on it.
* The pixel type, the filter and the reduced function are left out: the model
  computes *which* pixels reach them. The reduction within a block is one step,
  since barriers separate it from everything the other blocks see.
* In `OverlappedParts` a pixel is its position and the order of its bits, straight as in memory or reversed: `hls`
  ranges `(lo,hi)` reverse them, and the operators do not agree on the range.
* In `BorderRegions` the value of a pixel is its position as well, so that the window
  a thread computes from says which pixels were read. In `RuntimeMemory` pixels are
  small numbers, and the columns a stride adds hold a value no image has.
* `RuntimeMemory` reads `data()` at once, and assignments only between regions that do
  not overlap: of a pointer kept, or a copy onto itself, DSL and runtimes say different
  things (section 5).
* In `KernelArguments` the occupancy calculator and the JIT compiler are external: any
  occupancy may be the answer. Which extents and offsets a kernel body reads is free, too.
  Constructors initialise every member once, and every parameter initialises a member
  (`ConstructorOK`). The code relies on the latter: `createHostArgInfo` counts members to find an
  argument, so that a parameter used in an expression would shift those behind it.
* Device memory is not sequentially consistent in `Reduction`: a store is in
  flight until `Arrive`, and only a fence or the end of the kernel waits for it.

## 3. Runs

| Run | Expect | What it shows |
|---|---|---|
| `hostdeps` | pass | `ReadsLatestWrite`, `OneInputPerImage`, `NeverRewired` in every order of declarations and executions; the graph, read back, implements `HostProgram` (`HostSpec`) |
| `schedule` | pass | the entry function is a legal dataflow region and means what the program means |
| `region` | pass | the region `createSchedule` makes gives `main()` the result of the sequential program (`ResultIsSequential`) whatever the depth of its streams, and never blocks if they hold the lags of its operators (`RegionNeverBlocks`); `createSchedule` ends, in-place kernels included, and so does the region (`RegionCompletes`) |
| `operators` | pass | the scalar operators, local, pyramid and point, compute the right neighbourhoods, and take the right pixels |
| `vectors` | pass | the operators on words take and answer every word, compute each lane from its own neighbourhood away from the left and right border, and those that go on behind the end of a row at the border as well |
| `parts` | pass | windows come out in their place, across the cuts too (`PartsMeetInPlace`), and all operators end with empty streams although a stream holds one element (`AllComplete`) |
| `seam` | violation | `PartsMeetWithoutSeam`: the second part filters pixels whose bits are reversed |
| `regions` | pass | every block reads what the DSL reads (`ReadsAsTheDSL`) and the blocks share out the iteration space (`EveryPixelOnce`) |
| `memory` | pass | every statement of the generated host program but OpenCL's copy of a padded image does what the DSL says (`StatementsFollowDSL`); counted handles, single release, levels of pyramids |
| `kernels` | pass | on Vivado, kernels do not see each other's border modes (`OwnBorder`) and windows (`WindowIsOwnMasks`); on other targets, every launch matches the printed kernel, fits the device, and finds its masks written |
| `reduction` | pass | two calls in a row give the reduction of the region |
| `smallreduction` | violation | `ReturnsReduction`: fewer partial results than threads |

### Bounds, and why they are enough

* `hostdeps`: two images, one boundary condition, two accessors, two iteration
  spaces, two kernels with up to two accessors (zero included), three executions. A
  wiring mistake needs a second value of an image (two executions) and a reader of
  it (a third), an input that is also written, and an accessor twice in one kernel;
  all occur. All names are symmetric.
* `schedule`: three images and kernels, three executions, declarations done
  beforehand. This has chains, joins, a fork into two accessors of one kernel, a fork
  into two kernels with a join, a space with three or four consumers, inputs read
  by several kernels, and results that are never read. Larger diamonds repeat these.
* `region`: two kernels, three images, three executions, in-place kernels for
  the end of `createSchedule`; without symmetry, which is unsound for liveness, but starting from
  one program of each set that differ in the names of images. The kernels have windows of
  3x1 and 1x3, their lags in an image of 2x3 pixels are one and two pixels, streams hold
  four: fewer than an image has, so that they fill up, and too few for the lags of some
  of the programs. `ResultIsSequential` holds of these as well, `RegionNeverBlocks` and
  `RegionCompletes` are not about them (`StreamsHoldLags`). Chains, diamonds around one local operator and around two, and a
  stream joined with its own copy occur. A larger delay or image needs more of the same room.
* `operators`: all images of up to 5x5 pixels that are at least as large as the
  window less one, with windows of 5x3, 3x5, 1x3, 3x1 (3x3 for the pyramid
  operators, factor 2), in a maximum size of 5x5, so that images with rows shorter
  than the buffer, even and odd sizes, and windows over both borders of an image occur.
* `vectors`: words of 1, 2 and 4 pixels, windows narrower than a word, as wide as
  a few words, and wider (3x3, 7x3, 5x1, 1x5), images of up to 12x4 pixels whose
  width need not be a multiple of the word, in a maximum width of 12. Three to twelve
  words in a row leave inner words for every window but the widest on the widest
  word. One call has words of four pixels and a window of 11x11, the least with a radius of more than
  a word in an operator of a fixed word, on five and six words by ten rows.
  `InnerPixelsAreFiltered` excludes four cases in which it fails (section 5).
  In the columns at the left and right border `BorderPixelsAreFiltered` holds for the
  operators on words of a fixed size whose radius is less than a word and at most half the row.
* `parts`: two to sixteen parts, words of 1 and 2 pixels, radius 1 to 3, all three
  paddings, both types of pixel, cuts in the middle and chosen (`2FIXED`), width a
  multiple of the parts or not, and as wide as the largest image. Two parts run in every order of all operators, the
  others in one. Streams hold one element, the least there is: with more, operators
  wait less. `seam` takes a few of these layouts of two parts. In an image narrower than the
  largest, two parts do not end (section 5).
* `regions`: 900 launches. Blocks of 2x1 to 4x2 threads with one or two rows each,
  iteration spaces of 10 to 12 pixels that end inside a block, at its edge, or begin
  beside the origin; masks of 1x1 to 5x3, so that the border is narrower and wider
  than a block and both exist or only one; all boundary modes, local memory or not.
  `MinBlockX` is 3 here (16 in the code) so that the rule for narrow blocks applies
  to some. For two launches the threads run in any order. Launches for which the code
  does not do what the DSL does are left out by `Supported`, one named condition for each
  of the cases in section 5.
* `memory`: four declarations, assignments and `data()` calls in up to four open
  traversals and recursions, the latter repeated twice; images of 4x4 and 2x2 pixels,
  pyramids of two and three levels, strides with and without padding. A pyramid needs
  an image, a mistake in a transfer needs two images and a copy, one in the order of
  releases needs both in the context, one in nested traversals two pyramids.
* `kernels`, for languages other than Vivado: four kernels, from a point operator to one with two images, masks
  constant, computed, and copied to a domain, cropped or not, members in another order
  than parameters; thirteen combinations of language, JIT estimate, user configuration,
  padding, exploration, timing, pixels per thread, local memory and textures; up to 128
  threads in warps of 32, two occupancies, up to one extent unused, two launches.
* `kernels`, for Vivado: two kernels, since the members a kernel finds are those the previous one left, with masks of
  9x5, 11x13 and 3x11, so that sizes of one and two digits meet on both axes. A program is translated for one language, so the two
  halves of this run never run together.
* `reduction`: 7x4 pixels with rows of 9, blocks of two threads with two rows
  each, the whole image and six parts; up to four blocks in a grid; two calls, so
  that a counter left wrong shows. For the last four parts the result is not
  checked (section 5), the protocol is: one ends in a block with one column of it, for two the last block
  has none, and one is narrower than a block.

`MaxRuns`, `MaxAccs`, `MaxKernels`, `MaxCalls`, `MaxStatements`, `MaxLoop`, `MaxExecutions`
and `MaxUnused` are the bounds on counters;
they only disable further statements, printed kernels, launches and calls. Deadlock is not
checked: all of these programs end. That the operators of `parts` end only when they
should is `AllComplete`.

### Fairness

`StreamSchedule` and `DataflowRegion` have weak fairness of `Mark`. The compiler is one thread that
does not stop inside `createSchedule`, and the steps of `Mark` never wait for
anything else, so a step that is enabled is taken. Nothing obliges the host
program to have further statements.

`DataflowRegion` has weak fairness of `Run`: while `main()` or any statement of the region
can go on, something does. Hardware gives more (each statement goes on by itself); as
every statement has finitely many iterations, this is enough.

`OverlappedParts` has weak fairness for each operator of each part: in a dataflow
region every operator is a piece of hardware of its own, which goes on as soon as its
input is there and its output has room. `AllComplete` needs no order between them.

## 4. Theorems

Checked with TLAPS for every value of the constants.

**`DataflowRegion_proofs`** begins with `HostDataDeps`. It assumes `CtorType` (a kernel constructor has an
iteration space and a sequence of accessors) and `BoundsAreNat`. `TypeCorrect`,
`WiringIsSequential` (`ReadsLatestWrite`), `OneInput` (`OneInputPerImage`) and
`RecordedStays` (`NeverRewired`) follow from the inductive invariant `IInv`:

* `DeclOK`, `ProcOK`, `SrcOK`: names are declared before they are used, a process
  and its output space point to each other, a process has linked a prefix of its
  accessors. Without them the look-ups in the other parts mean nothing.
* `LinkOK`: while the loop of `runKernel` runs, it works on the youngest process,
  and all others are complete.
* `OutputsOrdered`: spaces written by later processes are younger. `runKernel`
  takes the *youngest* space of an image, the property speaks of the *last writer*;
  this part connects the two.
* `InputIsFirst`: the input space of an image is older than any space of the
  image that is written. A reader that finds no space makes an input; it must not
  appear after a written one, or the youngest space would be the input.

The analysis also implements `HostProgram` (`Refinement`, `HostSpec`), from `IInv` and one
more invariant, `WriterExists`: each image has a last writer at each point of the program. That
a last writer is unique makes `LastWriter`, a `CHOOSE`, a name for it. `RunKernel` of a kernel
without accessors and the last step of the loop map to `Execute`, everything else to a stutter. An
in-place accessor, whose edge says nothing of the value it reads, is mapped to the value
a sequential run would give it.

The second part is about the whole way from the program to the entry
function (`StreamSchedule`), for any number of images, kernels, accessors and executions. `ScheduleTypeCorrect`
(`ScheduleTypeOK`) holds of every program; `DataflowIsPointToPoint` (`PointToPoint`),
`WrittenBeforeRead` (`ProducerPrintedFirst`) and `DataflowFollowsProgram`
(`ArgumentsFollowProgram`) of those whose kernels do not work in place (`OutOfPlace`). The
invariant `ScheduleInv` (`ScheduleInvariant`) has two halves:

* While statements are recorded (`TrackOK`): both directions of the graph agree, so that
  the number of consumers of a space is the number of accessors linked to it.
* While streams are named (`MarkInv`): `StackOK` says what the activations mean. `PlanOK`:
  each process and shared space is in the schedule once, and a space's producer comes in when all
  of its consumers have come by. `NamesOK` and `CopiesOK`: streams and copies get
  numbers of their own. `ArgsOK` and `OutOK`: the names in the calls are those of the spaces
  the processes are linked to. `OrderOK`: what is printed later stands earlier.

None of this needs `OutOfPlace`; only the end does. When the marking is over, all
processes must have been planned. If one is not, take the youngest: its result is an
output, or has a consumer that is younger and therefore planned. So all consumers
have come by, which plans it after all. An in-place kernel is its own consumer and breaks
the argument. That the traversal starts from each output once is a matter of ranks (`Rank`).

The third part takes up there and runs the entry function (`DataflowRegion`), for any number of
executions, images of any size, operators with any windows and streams of any depth (assuming
`ImageIsNotEmpty`, `DelaysAreNat`). `RegionComputesProgram` (`ResultIsSequential`): what `main()`
fetches is what the program computes sequentially. The region is a network in which each stream
has one writer and one reader, so the order of the statements cannot matter; the
proof makes that precise. `Pixel(x, k)` is the value the k-th pixel on stream `x` must
have, read off the sequential program, and the invariant `Flowing` says that a stream always holds
the piece (`Piece`) between what its reader has taken and its writer has given, and that
each statement has taken a prefix. Both are functions of its loop counter (`TakenAt`,
`GivenAt`), whose steps are the arithmetic of the loop (`OneIteration`). That a
statement writes the right pixel (`StatementComputes`) comes from
`ArgumentsFollowProgram`; the sequential program is a recursion over executions, followed by
induction (`AfterLastWriter`).

`RegionHasNoDeadlock` (`RegionNeverBlocks`) has the same invariant and one argument. Of the unfinished
statements take one that has taken least, and among those that are ahead of it by no more
than the lags of the calls printed after the stream they read, the first printed. If it waits for
an input, the writer of that stream is printed before it and is not further ahead
(`EmptyInput`); if it waits for room, the reader has taken less than anyone
(`FullOutput`, from `StreamsHoldLags`, which is the hypothesis of `RegionNeverBlocks`). Neither can
be, so it goes on. `RegionComputesProgram` needs no such room: with less, statements may wait for good, but
what they have written is right.

**`Reduction_proofs`** assumes `SizesArePositive`, `RegionsAreParts` and, for the values and types,
`OriginMeansWhole`, `RowsDoNotOverlap` (`createMemory` rounds the stride up from the width,
`runtime/hipacc_cu.hpp.cmake`:356) and `CallsAreBounded` (`MaxCalls` is a number).
`LastSeesAllPartials` (`LastSeesAll`), `CounterIsReset` (`CounterReset`) and
`ResultIsDeterminate` (`ScheduleIndependent`) hold for any image, region, block
size and number of calls. The invariant counts: while a block is busy,
`finished` is the number of blocks past their ticket (`Counted`). The block that draws
ticket `NumBlocks - 1` is not among these, so all others are (`LastTicket`, by
cardinalities), and none of them is another last block (`LastIsAlone`). A block
past its fence has no store in flight (`Fenced`), so its partial result is in
memory (`Stored`). `Gathered` carries the reduced value to the copy by the host.
That a region has at least one block (`GridPositive`) needs the arithmetic of the
blocks skipped on both sides.

That the result is the reduction of the region, each pixel once (`ResultIsTheReduction`, for
`ResultIsReduction`), follows from `ScheduleIndependent` and one statement about values, without the state:
what a call is expected to return covers the region (`ExpectedCovers`). `Covers(s, r, C)` says that the
value `s` lists the pixels `C` of region `r`, each once; values of disjoint sets are
concatenated to one of the union (`CoversConcat`), and so are sequences of them (`FlattenCovers`, by induction on
the recursive function in `FlattenSeq`). From below: a row of a thread (`FirstRowCovers`,
`NextRowCovers`), a thread (`ThreadCovers`), a block (`PartialCovers`), the threads that gather every n-th
partial result (`GatherCovers`). Blocks are disjoint and together the region (`BlocksDisjoint`, `BlocksCover`) by
the arithmetic of the grid, where `RowsApart`, that `a + b * s` determines `a < s` and `b`, is used for pixels in memory,
blocks in a grid and threads among partial results. `ThreadStarts` is where the sizes matter,
and showed that a first version of `EveryThreadStarts`, on the remainder of the width
alone, was too weak: a region narrower than a block, or with a margin of some columns on the right, may have a thread
without a pixel as well. The run now has such regions. `ReductionTypeCorrect` (`TypeOK`) holds for all regions.

**`WindowFilter_proofs`** proves `TypeCorrect`, `FiltersImage` (`OutputIsFilteredImage`) and
`LeavesNothing` (`ConsumesImage`) for every image size, every odd window and every maximum size
that satisfy the assumptions of the module (`ImageFits`, `KernelSizeIsOdd`,
`ImageCoversWindow`, `PaddingIsKnown`, `StreamsOfPoints`, `PyramidWindowIsSquare`,
`FactorIsTwo`). The invariant says what each part of the state holds in iteration (`row`, `col`):

* `CountOK`: pixels read and written as functions of `row` and `col`, for each operator.
  The pyramid operators take or write every second pixel of every second row, so
  these functions and their steps are most of the arithmetic.
* `LinesOK`: the line buffer holds, per column, the newest lines before this one.
* `WindowsOK`: the last window shows the neighbourhood of the last pixel written.

Border handling is a matter of one dimension (`SlotIsPadded`): the slot `getNewCoords`
picks lies in the window and shows the coordinate the padding asks for. The second pass works
in place; `InPlaceIsParallel` shows that it may, because a slot picked for a later one is
picked for itself.

**`VectorFilter_proofs`** proves `VectorStreamsBalance` (`StreamsBalance`), `VectorInnerPixels`
(`InnerPixelsAreFiltered`), `VectorBorderPixels` (`BorderPixelsAreFiltered`) and
`VectorTypeCorrect` for words of any number of pixels, any odd window and any image that is at least as
high as the window less one (`ImageCoversRows`, `VectorCallsAreLegal`,
`VectorSizesArePositive`; `MaxWidthIsPadded`: `MAX_WIDTH` is rounded up to whole words for the operators
that count in pixels). The width is free: lanes whose windows reach too far are excluded by
the properties, lane by lane. The invariant has the parts of the one of `WindowFilter`, in words.

* *Counting*: the loops step by pixels or by words up to a bound that need not be a multiple.
  `InWords` and `LocalInWords` translate columns, bounds and delays into words, by what rounding
  up means (`RoundUp`); `ReadUpTo` and `WrittenUpTo` count from there.
* *Lanes* (`LaneFound`): the pixel a lane wants lies in word `w` of the window and lane `l`, which
  `getWinCoords` picks; in the picture that is pixel `x + m - radius` (`InnerLane`). At the border the slot
  is replaced twice, the word by `getNewCoords` and the lane by `getWinCoords`; `LeftLane` and
  `RightLane` show, padding by padding, that the two together mirror or clamp pixels, as long as
  the radius is less than a word.
* *Steps*: the window takes in one word per iteration and shows the words around it
  (`WindowSlides`, `LinesMove`), for the wide operators behind the end of a row as well.

The proof changed the property: in the operators with a fixed word and a radius of more than a word, the first
inner lanes are wrong as well (section 5), and a row narrower than the window is inside both
borders. Both are now conditions of the properties, and the run has such a call.

**`Kernels_proofs`** is about the two models of the rewriter's work on kernels. For `KernelPrinter`
it proves `BorderIsOwn` (`OwnBorder`) and `WindowIsOwn`
(`WindowIsOwnMasks`) for any kernels and masks of any size, from `CallsAreOwn`: what is
printed does not depend on the members left by earlier kernels. The second says of the maximum of
strings what is true of it: it is one of the sizes, and the largest of those with as many
digits (`DigitsInOrder`); that it is the largest of all does not hold (section 5).

For `KernelArguments` it proves all four invariants of its run, for any kernel classes with members
in any order, any arguments, targets, thread counts and occupancies, and any number of launches
(`ProgramsAssumption`, `TargetsAssumption`, `ThreadsAssumption`). They follow from `ArgsInv`
(`ArgumentsInvariant`), which says what each phase has established, in terms of the operators that
were used in earlier ones: after `SetResourceUsage` the parameters are those of the new block
(`ParametersKnown`), and the kernel is printed from them before the first launch. The
work is in what these operators compute.

* `LaunchesMatch` (`LaunchMatchesKernel`). Members stand in the order of the parameters, each with
  the declaration's argument for it (`MembersKnown`), and the n-th image of a declaration is that of
  the n-th image member although the two lists are filtered apart (`MappingKnown`, from `RanksDiffer`,
  `RanksCover`: the elements of a set of positions have the ranks 1, 2, ...). So the two argument
  lists agree position by position (`ArgumentsPair`), through every condition under which a stride, an
  offset or a border start is added, and the temporaries of literals have different numbers. That
  the two filters of the lists keep the same positions is `PassedAre`.
* `ConfigurationsFit` (`ConfigurationFits`): a configuration of greatest occupancy exists (`FirstIs`); the look-ahead
  never gives up a better shape (`BestIsBest`); it may be skipped only if all shapes need
  equally many blocks (`RowsNeedNoMore`); and a kernel with tiles is compiled one warp wide, for which the
  estimate is exact (`TilesFit`). The property is about windows that reach at most a warp's width,
  on devices whose warps are the columns of `TileWidth`.
* `MasksWritten` (`MasksAreWritten`) and `ArgumentsTypeCorrect` (`KernelArgsTypeOK`): each parameter
  has a name of its own, `ParametersOnce`.

**`OverlappedParts_proofs`** holds for every layout the module admits (`LayoutsAreKnown`;
`PartsAreWideEnough`: each part holds the overhang of its neighbours and the image has more lines than
a window reaches over both ends; `DepthIsPositive`): any number and width of parts, words and
windows of any size, and every order of the operators. `PartsTypeCorrect` (`TypeOK`)
and `PartsInPlace` (`PartsMeetInPlace`) follow from `IInv` (`PartsInvariant`). All three have the hypothesis
`CutsMeet`, that `distribute2` cuts where `collect2` does, without which they are false (section
5); in the other pairs both cut alike. `IInv` keeps it as `CutsAgree`. As in the region, each stream
has one writer and one reader, and what the n-th value of a stream has to be does not depend on the
order (`Promised`): a word or pixel of the image, a filtered window, a word of these, the bits of all
pixels of a part in the one order its `split` takes them out (`SplitOrder`).

* `StreamsOK`: a stream holds the promised values between the number its reader has taken
  and its writer has given (`Taken`, `Given`), which are functions of where their loops are. The operators
  disagree about the length of a line: `distribute` counts words, `split` unpacks a word in the column
  where it begins and drops pixels at both ends, `process` reads none in the last columns
  and lines and writes late, `assemble` completes a word in its last column. Three counts
  cover them all (`Line`, `LineBegun`, `LineEnded`), each with its step (`DealtStep` … `CollectedStep`).
* `SplitOK`, `AssembleOK`: the word `split` is taking apart is the one its column lies in; the lanes `assemble` has
  filled are those of the word it is at.
* `PixelOK`, `LinesOK`, `WindowOK`: while `process` moves its window, line buffer and window show the
  part (`HasLines`, `Shows`; `NewLinesHave`, `NewWindowShows`), the last part going on with its last pixel.
* `OutOK`: the word `collect` wrote last has its windows in place.
* `LoopsOK`, `ShapesOK`: loops stay within their bounds, variables within their types.

That a part's borders are the image's is `ColumnsFit`: a part in front sees the left border of the image
and the pixels of its neighbour on the right, one in between no border, the last one the
right border only if it is clamped, which is the exception in `HasWindow`. Which parts a word is
dealt to (`TargetsIs`, a nest of `CHOOSE` and cuts) and which one `collect` takes it from
(`CollectsFromIs`) are intervals of columns, and for that the parts have to be as wide as assumed.

**`BorderRegions_proofs`** proves `BlocksReadAsTheDSL` (`ReadsAsTheDSL`),
`BlocksShareTheSpace` (`EveryPixelOnce`) and `LocalMemoryFits` (`RegionsTypeOK`) for every launch that is `Regular`: sizes
have their types, iteration space and accessor are not scaled against each other, and the launch is
`Supported`. The argument has three parts.

* Which copy a block runs: labels are tried in order, so the copy taken is
  the first whose test holds (`JumpsTo`, `PastLabels`). Each copy handles all borders its block
  touches (`CopyHandles`), and the tests it omits are superfluous in its place (`CopyFits`). This needs
  the arithmetic of rounding blocks up and down (`LessCeil`, `DivLess`).
* What a thread reads: handled coordinates equal the DSL's (`HandledIs`, `WindowReads`),
  directly or through local memory, whose staged rows cover the window (`StagedOK`).
* Sharing out: a thread belongs to one pixel per row it computes and back
  (`WrittenBelongs`, `PixelHasThread`, `OneThread`, `PixelHasBlock`).

That local memory stays within its bounds needs one more conjunct, `CellsOK`: every cell in use is
one that a thread of the block stages.

**`RuntimeMemory_proofs`** holds for any images, pyramids, sizes, strides, targets and programs, under
the assumptions of the module (`NamesDiffer`, `NamesAreFinite`, `DepthsArePositive`,
`BoundsAreNat`, `SizesArePositive`, `RegionsAreNat`, `TargetsAreKnown`), in three parts.

* *Traversals*: `LevelsAreRight` (`LevelsFollowTheCalls`). `hipaccTraverse` keeps the pyramids in a
  local vector per call and in a global list of lists, asks the first pyramid for the bottom, and
  moves all. `TraversalInv` relates the two: a call works on the list entry of the innermost
  traversal around it (`NestedOK`); two calls have all pyramids in common or none, and each belongs
  to a traversal that runs (`BoundOK`). So the pyramids of a traversal are all on one level, and when
  it ends no call is left that uses them.
* *Pixels*: `StatementsAreDSLs` (`StatementsFollowDSL`), that each statement is one of `DSLMemory`, but for
  OpenCL's copies of padded images (`CopiesPadded`), and from it `HostProgramImplementsDSL` (`RefinesDSL`), the
  refinement for executions without such a copy. `MemoryInv` says
  that each block has its image's height in rows of a stride of its target, and that handles and
  regions lie within. Each transfer function, written with its own loops in the code, is then shown to
  do one thing to the rows of an image (`ReadIsRows`, `WriteSpreads`, `WholeCopy`, `RectangleCopy`), whatever
  the padding holds; strides are multiples of the alignment that fit (`StrideFits`). So every
  step but those is a step of the DSL on `Arrays`; releases and leaving `main()` stutter.
* *Handles*: `HostBlocksAreCounted` (`HostBlocksCounted`), `BlocksAreReleasedOnce` (`ReleasedOnce`) and
  `MemoryTypeCorrect` (`MemoryTypeOK`), from `CountInv`. The handles on an image are a sum over the variables
  (`Total`, which is what `Held` folds: `HeldIsTotal`) plus its entries in the context (`Counted`). Counting alone
  is not inductive: an image has one owner, the variable whose declaration created it, a pyramid owns
  its stages but the first (`OwnersOK`), and it is freed exactly when the owner has been released (`FreedOK`).
  Hence an image is in the context exactly until it is freed (`Balanced`), so that a release finds its entry.
  Vivado images are all equal to `operator==`, and a release may take another image's entry; there only the number
  of entries is right (`ContextBalanced`), which is enough because each release drops one handle
  and the count names the image whose entry goes.

Only model-checked: that `createSchedule` ends and that the region completes, and that all parts end:
liveness is beyond the prover. Every invariant of a passing run is a theorem.

Induction is used as a fact about sets (`NatSetInduction` in `DataflowRegion_proofs`, `InductionOnNat` in `Kernels_proofs`): a set of
naturals with 0 and all successors has all of them, which follows from the least element of
its complement. A recursive function is a `CHOOSE`; that one exists is proved by induction
before anything is said of it (`AfterExists`, `LagsExist`, `FlatteningExists`, `BestExists`).

## 5. What the model says about the code

Two runs violate what a comment of the repository says (`smallreduction`, `seam`); `findings` in
`PROJECT.json` quotes both sides. Further observations made while modelling, not stated as properties; the
conditions named in brackets exclude them from the properties.

Analysis and entry function:

* An in-place kernel is wired to its own output: `runKernel` pushes the output
  space (`H`:387) before it looks up the accessors (`H`:404).
* A space with three or more consumers is printed as a call of `splitStream` with as many
  outputs (`H`:653); the library's takes two (`F`:4260) and has other names for more
  [`SplitsInTwo`].
* `IMG.data()` reads the youngest output space of the image (`H`:776). If a kernel read
  the last value, that is an older one, or none, in which case no call is printed;
  the comment at `lib/Rewrite/Rewrite.cpp`:1823 says "creates current output" [`Fetchable`].
* An image that is both an input and an output of the region has two stream
  parameters in the entry function and one declaration in `main()` [`OneStreamPerImage`].
* The streams of the region get no depth (`H`:660). Where a stream meets another that lags
  behind it, the region blocks unless the stream holds the lag and one pixel more: at least
  two image lines around a 5x5 window. `RegionNeverBlocks` and `RegionCompletes` are about streams that
  have the room (`StreamsHoldLags`); the printed code does not ask for it.
* Every `IMG.data()` prints the whole entry call (`lib/Rewrite/Rewrite.cpp`:1824), so that a
  program fetching two results runs the region a second time, with empty input streams.
* All operators get the maximum of all image sizes (`H`:718): a smaller image has too few pixels.
* Kernels executed in a loop, and in one of two branches, are recorded once.

Kernel printer:

* The union of mask sizes is a maximum of strings (`lib/Rewrite/Rewrite.cpp`:2841):
  of the widths 9 and 11 it is 9, although the comment above it says "Union of all
  mask/domain regions". The run has such kernels; `WindowIsOwnMasks` promises the largest of the sizes with
  as many digits, which is what is left of the union.
* The assertion at `lib/Rewrite/Rewrite.cpp`:2950 compares the border mode with the one of the
  kernel before it, and fails for programs like `tests/vivado/tests/harris_corner/main.cpp`
  (297, 308), whose kernels have different modes.
* A point operator that is the first kernel of a program is printed with empty
  window sizes.

Filter library:

* `downsample` keeps rows and columns that are `GROUP_DELAY%2` modulo the factor
  (`F`:3998), which starts with the first pixel for a factor of two only [`FactorIsTwo`].
* An image smaller than the maximum gets `MAX_WIDTH*MAX_HEIGHT` pixels written
  (`F`:3659), more than it has. One narrower than the window less one is inside
  both borders at once, of which `getNewCoords` (`F`:78) handles one [`ImageCoversWindow`].
* Vector operators (`VectorFilter`): each of the four conditions of
  `InnerPixelsAreFiltered` beyond the border itself is needed. The window only moves while `col < width`
  (`F`:4440), so the last words of a row repeat the window before them; at the left border
  a pixel column is compared with a number of words (`F`:1450, commented "this will
  exhibit problems"), so that neighbours come from the previous row, or, with one
  pixel per word, are replaced twice; and for radii above 1 up to the word size (5x5 with
  words of two pixels) `KERNEL_SIZE_X_V` is the kernel size in pixels
  (`F`:56), the window is wider than the delay of the loop, and the whole output is
  shifted by whole words. In an operator with a fixed word and a radius of more than a word, the
  border is computed from the window size in pixels where the window has fewer words
  (`F`:1451), so that lanes are replaced near the left border whose windows lie in the image
  (`processVECT4` with 11x11).
* Operators with a fixed word: lanes 31 and 32 of `processVECT32` (`F`:2913) take offsets
  10 and 11 for 30 and 31; lane 0 of `processVECT2F`, `4F`, `2` and `3` starts its window at pixel 0;
  a radius of a word or more gives wrong border pixels; `downsampleVECT` writes in
  odd rows as well; `upsampleVECT` (about `F`:3620) writes the pixel read instead of the one computed; the
  overloads for square windows (`F`:4341) drop the padding they are given.
* Overlapped parts, the bits: the host packs pixels into a word with `temp(lo,hi)`, which reverses the bits of an
  `ap_uint` (`runtime/hipacc_vivado.hpp`:141), and unpacks them so (174); a word of one pixel goes
  through `hipaccReverseBits` (149). `split_L`, `splitF_L` (`F`:598, 637), `assemble` and `assembleF` (819, 847) do
  the same; `split_C`, `splitF_C`, `splitF_R` and `split_R` (673, 708, 746, 785) take `temp(hi,lo)`, with the old order left
  in comments. So all parts but the first filter pixels whose bits are reversed (run `seam`).
* Overlapped parts, the cut: `distribute2` cuts at `MAX_WIDTH/2` (`F`:207), `collect2` at `width/2` (`F`:1264), and for an
  image narrower than the largest the operators wait for good: `AllComplete` fails for two parts of an image
  of four words where the largest has six [`CutsMeet`, in the theorems];
  a part has to be at least twice the overhang, which is not asserted [`PartsAreWideEnough`];
  `processR` always clamps at the right border.

Reductions:

* A thread neither of whose columns is inside the region starts with
  the second one (`runtime/hipacc_cu_red.hpp`:90), and pixels beside the region are reduced with it. This happens to regions
  narrower than a block, to those that have fewer columns than a block has threads in the last block of a row (a
  remainder by twice the block size below the block size), and to those with none there, because the host only
  skips as many columns on the right as fill whole blocks.
  `EveryThreadStarts` names exactly the sizes for which this does not
  happen. A region at the origin that is not the whole image gets no offsets from
  the host (`runtime/hipacc_cu.hpp.cmake`:1043) although its kernel is compiled
  to take them [`OriginMeansWhole`].

Border regions:

* A 1xN or Nx1 mask leaves out the copies for one direction: a row filter over a height
  that ends inside a block runs the bottom copy, which handles neither left nor right
  (`lib/AST/ASTTranslate.cpp`:1055) [`RowFilterFits`]; a column filter on an iteration space with an
  offset has no check at its left side [`ColumnFilterAtOrigin`].
* `REPEAT` in the DSL adds lower and upper bound where the generated code adds the size, which differ
  beside the origin [`RepeatFromOrigin`]. A mask larger than the image, a space lower than a block
  and local memory that a kernel does not read are left out as well [`MaskFits`, `TallEnough`, `SharedIsUsed`].
* The Renderscript checks in y test the borders left and right; the interpolation headers
  compute an upper row from a lower column, and compare with `((x)<0||(y)<0)<0`, which never holds.

Memory and host program:

* The OpenCL copy of an image ignores strides: it copies width times height pixels from the start of
  the buffer (`runtime/hipacc_cl.hpp`:758), and the last rows of a padded image are not copied. `RefinesDSL` fails after two declarations and an
  assignment; `StatementsFollowDSL` says that nothing else departs from the DSL [`CopiesPadded`].
* `Img = Pyr(i).data()` leaves the flag that suppresses the next transfer set; of two images in one
  declaration only the first is rewritten; `swap` of a DSL pyramid does not compile; local images of lambdas
  are released at the end of `main()`; Vivado ignores the initial array of an image, and neither Vivado
  nor C99 has the pyramid functions the rewriter calls.
* `data()` is a pointer to live memory in the DSL and a snapshot in the generated program, and
  kernel arguments are captured at declaration in the DSL and at launch in the program.

Kernel arguments:

* A C99 call is opened only if the first parameter is passed [`FirstIsPassed`]; with exploration or timing
  none is printed [`TargetsAssumption`].
* A default or user configuration is not checked against local memory; windows wider than a warp look
  ahead although no local memory is used; on AMD a warp is 64 wide and tiles 32 [`TileWidth`].
* A domain copied from a non-constant mask is written if and only if the kernel takes the mask,
  whether it takes the domain or not [`CopiedIsUsed`]; the same mask passed twice is declared twice.
* A failed JIT estimate says "using default kernel configuration" (`lib/Rewrite/Rewrite.cpp`, about 2140) and sets the
  configuration from the numbers it did not get.
* `-use-textures Linear1D` on CUDA binds the output surface as `Linear1D`, where the runtime asserts `Surface`
  (`runtime/hipacc_cu.hpp.cmake`:536).

## 6. Not modelled

* The printed text of kernels, types and scalar arguments; Clang's syntax tree.
* Of the filter library: overloads of the same operators for square windows and other
  types of streams.
* OpenCL and RenderScript reductions: the two-step scheme without fences.
* Of the AST translation: Renderscript and Filterscript, staging while a configuration is explored,
  textures, vectorisation, interpolation other than nearest neighbour, and the unrolled convolution functions.
* Kernel statistics: a hint for optimisations.
* Device tables, options, the driver, Polly, SIMD types: tables and calls of
  external tools, without behaviour of their own.
* Loops and branches in `main()`: the analysis records each statement once, and
  so does the model. A second fetch from one program and images of different sizes: what
  happens is in section 5.

## 7. Plan

Done, in order of importance: host data dependencies with their refinement; schedule and entry
function; the region at run time; filter operators (scalar, vector, overlapped parts);
kernel printer; CUDA reductions; border regions; runtime memory; kernel arguments; the theorems of section 4.

Left:

1. `KernelStatistics`: the fixpoint over the control flow graph.
2. OpenCL reductions, as a variant of `Kernel1D` of `Reduction`.
