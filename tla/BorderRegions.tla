---------------------------- MODULE BorderRegions ----------------------------
(***************************************************************************)
(* The code ASTTranslate prints for a local operator on a GPU or a CPU,    *)
(* and the launch code of the run time that goes with it.  To keep border  *)
(* handling out of the inner blocks the kernel contains up to ten copies   *)
(* of its body, each handling some of the four borders; a block jumps to   *)
(* the copy for its place in the grid, which the run time computes from    *)
(* the geometry of the iteration space.  A copy also omits the tests of    *)
(* the iteration space that its place makes superfluous.  Optionally the   *)
(* threads of a block first stage the pixels they share into local memory. *)
(*                                                                         *)
(* A behaviour is one block of one launch.  The value of a pixel is its    *)
(* position, so that the window a thread computes from says exactly which  *)
(* pixels were read; the reference is what the DSL headers read when the   *)
(* same program is compiled by a plain C++ compiler.                       *)
(***************************************************************************)
EXTENDS Integers, FiniteSets

CONSTANTS
    Launch,         \* the launches, records of the fields below
    MinBlockX,      \* blocks narrower than this never take BH_NO (16)
    WordRange       \* the values of the unsigned arithmetic of the launch

ASSUME WordsAreFinite == WordRange \in Nat \ {0}

(***************************************************************************)
(* A launch has: gpu (CUDA and OpenCL, or the C99 loop), bx, by (block),   *)
(* ppt (pixels per thread), sx, sy (size of the mask), mode (boundary      *)
(* mode), nn (nearest neighbour interpolation), shared (local memory), w,  *)
(* h, ox, oy (iteration space), aw, ah, ax, ay (accessor), and anyOrder,   *)
(* whether all schedules of the threads are explored or only one.          *)
(***************************************************************************)
VARIABLES
    launch,     \* the launch
    block,      \* the block of the grid that runs
    smem,       \* its local memory: the pixel staged at <<column, row>>
    pc,         \* per thread: "stage", "compute" or "done"
    writes      \* the pixels written, each with the window it was computed from

vars == <<launch, block, smem, pc, writes>>

Modes == {"UNDEFINED", "CLAMP", "REPEAT", "MIRROR", "CONSTANT"}

Ceil(a, b) == -((-a) \div b)

\* conversion of a float to int, for the quotient of two integers
Trunc(a, b) == IF a >= 0 THEN a \div b ELSE Ceil(a, b)

\* the constant of mode CONSTANT, and local memory nobody has written: no pixels
Const == <<>>

Unset == <<0>>

KernelX(l) == l.mode # "UNDEFINED" /\ l.sx > 1

KernelY(l) == l.mode # "UNDEFINED" /\ l.sy > 1

BorderHandling(l) == KernelX(l) \/ KernelY(l)

SizeX(l) == IF KernelX(l) THEN l.sx \div 2 ELSE 0

SizeY(l) == IF KernelY(l) THEN l.sy \div 2 ELSE 0

-----------------------------------------------------------------------------
(* The run time: which blocks need which border. *)

StartLeft(l) == IF SizeX(l) > 0 THEN Ceil(l.ox + SizeX(l), l.bx) ELSE 0

StartRight(l) == (l.ox + l.w - SizeX(l)) \div l.bx

StartTop(l) == Ceil(SizeY(l), l.ppt * l.by)

\* additional blocks are staged below the block; the subtraction is unsigned
StartBottom(l) ==
    LET p_add == Ceil(2 * SizeY(l), l.by)
    IN  ((l.h - p_add * l.by) % WordRange) \div (l.by * l.ppt)

FallBack(l) ==
    ~ (StartRight(l) - StartLeft(l) > 1 /\ StartBottom(l) - StartTop(l) > 1)

Grid(l) ==
    IF l.gpu
    THEN (0 .. Ceil(l.w + l.ox, l.bx) - 1) \X (0 .. Ceil(l.h, l.by * l.ppt) - 1)
    ELSE {<<0, 0>>}

-----------------------------------------------------------------------------
(***************************************************************************)
(* The launches for which the copies and the local memory suffice.  The    *)
(* printed code does not test any of this.                                 *)
(***************************************************************************)
\* one reflection or repetition leads back into the image
MaskFits(l) == l.w >= SizeX(l) /\ l.h >= SizeY(l)

\* the unsigned subtraction in the launch code stays positive
TallEnough(l) == l.gpu => Ceil(2 * SizeY(l), l.by) * l.by <= l.h /\ l.h < WordRange

\* masks are staged on a GPU only; the two blocks beside the own one are staged
SharedIsUsed(l) == l.shared => l.gpu /\ (l.sx > 1 \/ l.sy > 1) /\ l.sx \div 2 <= l.bx

\* repeat() of the DSL adds lower + upper, the width only at offset 0
RepeatFromOrigin(l) == l.mode = "REPEAT" => l.ax = 0 /\ l.ay = 0

\* a row filter takes BH_B in the last row of blocks, without left and right
RowFilterFits(l) ==
    l.gpu /\ KernelX(l) /\ ~ KernelY(l) => l.h % (l.by * l.ppt) = 0

\* a column filter has no copy for the blocks left of the iteration space
ColumnFilterAtOrigin(l) == l.gpu /\ ~ KernelX(l) /\ KernelY(l) => l.ox = 0

Supported(l) ==
    /\ MaskFits(l) /\ TallEnough(l) /\ SharedIsUsed(l) /\ RepeatFromOrigin(l)
    /\ RowFilterFits(l) /\ ColumnFilterAtOrigin(l)

-----------------------------------------------------------------------------
(* The copies of the body, in the order of their labels and of their gotos. *)

Labelled(l, v) ==
    CASE v \in {"TL", "TR", "BL", "BR"} -> KernelX(l) /\ KernelY(l)
      [] v = "T" -> KernelY(l)
      [] v = "B" -> l.by > 1 \/ l.ppt > 1 \/ KernelY(l)
      [] v = "L" -> KernelX(l)
      [] OTHER   -> TRUE

Labels == <<"FB", "TL", "TR", "T", "BL", "BR", "B", "R", "L", "NO">>

Taken(l, b, v) ==
    LET left   == b[1] < StartLeft(l)
        right  == b[1] >= StartRight(l)
        top    == b[2] < StartTop(l)
        bottom == b[2] >= StartBottom(l)
    IN  CASE v = "FB" -> FallBack(l)
          [] v = "TL" -> left /\ top
          [] v = "TR" -> right /\ top
          [] v = "T"  -> top
          [] v = "BL" -> bottom /\ left
          [] v = "BR" -> bottom /\ right
          [] v = "B"  -> bottom
          [] v = "R"  -> right
          [] v = "L"  -> left
          [] v = "NO" -> l.bx >= MinBlockX

\* after the last goto the kernel runs into its first label, BH_FB
VariantOf(l, b) ==
    LET taken == {n \in DOMAIN Labels : /\ Labelled(l, Labels[n])
                                        /\ Taken(l, b, Labels[n])}
    IN  IF ~ l.gpu THEN "FB"
        ELSE IF ~ BorderHandling(l) THEN "NO"
        ELSE IF taken = {} THEN "FB"
        ELSE Labels[CHOOSE n \in taken : \A m \in taken : n <= m]

\* bh_variant.borders of a copy
Borders(l, v) ==
    CASE v = "FB" -> (IF KernelX(l) THEN {"left", "right"} ELSE {})
                     \cup (IF KernelY(l) THEN {"top", "bottom"} ELSE {})
      [] v = "TL" -> {"top", "left"}
      [] v = "TR" -> {"top", "right"}
      [] v = "T"  -> {"top"}
      [] v = "BL" -> {"bottom", "left"}
      [] v = "BR" -> {"bottom", "right"}
      [] v = "B"  -> {"bottom"}
      [] v = "R"  -> {"right"}
      [] v = "L"  -> {"left"}
      [] v = "NO" -> {}

-----------------------------------------------------------------------------
(* The tests of the iteration space a copy contains. *)

ChecksLower(l, v) ==
    \/ ~ BorderHandling(l)
    \/ Borders(l, v) # {} /\ (KernelX(l) => "left" \in Borders(l, v))

ChecksUpper(l, v) ==
    \/ ~ BorderHandling(l)
    \/ Borders(l, v) # {} /\ (KernelX(l) => "right" \in Borders(l, v))

\* MUTANT: a block of one row is taken to compute one row
ChecksRowByBlock(l, v) ==
    /\ l.by # 1
    /\ BorderHandling(l) =>
           /\ Borders(l, v) # {}
           /\ KernelY(l) => "bottom" \in Borders(l, v)

ChecksRow(l, v) ==
    /\ ~ (l.by = 1 /\ l.ppt = 1)
    /\ BorderHandling(l) =>
           /\ Borders(l, v) # {}
           /\ KernelY(l) => "bottom" \in Borders(l, v)

Computes(l, v, gid) ==
    l.gpu => /\ ChecksLower(l, v) => gid[1] >= l.ox
             /\ ChecksUpper(l, v) => gid[1] < l.w + l.ox
             /\ ChecksRow(l, v)   => gid[2] < l.h

-----------------------------------------------------------------------------
(* From the position of a thread to the pixel it reads. *)

\* gid_[x|y] plus local offset, without the offset of the iteration space and
\* with that of the accessor; on a GPU gid_y never had the former
IndexX(l, x) ==
    l.ax + (IF l.nn THEN Trunc((x - l.ox) * l.aw, l.w) ELSE x - l.ox)

IndexY(l, y) ==
    l.ay + (IF l.nn THEN Trunc(y * l.ah, l.h)
            ELSE IF l.gpu THEN y ELSE y - l.oy)

Upper(mode, i, lower, upper) ==
    IF i < upper THEN i
    ELSE CASE mode = "CLAMP"  -> upper - 1
           [] mode = "REPEAT" -> lower + ((i - lower) % (upper - lower))
           [] mode = "MIRROR" -> upper - (i + 1 - upper)

Lower(mode, i, lower, upper) ==
    IF i >= lower THEN i
    ELSE CASE mode = "CLAMP"  -> lower
           [] mode = "REPEAT" -> lower + ((i - lower) % (upper - lower))
           [] mode = "MIRROR" -> lower + (lower - i - 1)

Handled(mode, i, lower, upper, isLower, isUpper) ==
    LET j == IF isUpper THEN Upper(mode, i, lower, upper) ELSE i
    IN  IF isLower THEN Lower(mode, j, lower, upper) ELSE j

\* addBorderHandling and the access, in a copy that handles the given borders
ReadGlobal(l, borders, gid) ==
    LET x == IndexX(l, gid[1])
        y == IndexY(l, gid[2])
        right == l.ax + l.aw
        bottom == l.ay + l.ah
    IN  IF l.mode = "CONSTANT"
        THEN IF /\ "right"  \in borders => x < right
                /\ "bottom" \in borders => y < bottom
                /\ "left"   \in borders => x >= l.ax
                /\ "top"    \in borders => y >= l.ay
             THEN <<x, y>> ELSE Const
        ELSE << Handled(l.mode, x, l.ax, right,
                        "left" \in borders, "right" \in borders),
                Handled(l.mode, y, l.ay, bottom,
                        "top" \in borders, "bottom" \in borders) >>

Offsets(l) == (-(l.sx \div 2) .. l.sx \div 2) \X (-(l.sy \div 2) .. l.sy \div 2)

-----------------------------------------------------------------------------
(* What the DSL reads for the window of a pixel of the iteration space. *)

DSLBorder(mode, i, lower, upper) ==
    LET repeated == IF i < lower THEN i + lower + upper ELSE i
        mirrored == IF i < lower THEN lower + (lower - i - 1) ELSE i
    IN  CASE mode = "UNDEFINED" -> i
          [] mode = "CLAMP"  -> IF i < lower THEN lower
                                ELSE IF i > upper - 1 THEN upper - 1 ELSE i
          [] mode = "REPEAT" -> IF repeated >= upper
                                THEN repeated - (lower + upper) ELSE repeated
          [] mode = "MIRROR" -> IF mirrored >= upper
                                THEN upper - (mirrored + 1 - upper) ELSE mirrored

DSLIndex(nn, i, min, offset, width, is_width) ==
    IF nn THEN Trunc(offset * is_width + width * (i - min), is_width)
    ELSE i - min + offset

DSLRead(l, pixel, d) ==
    LET x == DSLIndex(l.nn, pixel[1] + d[1], l.ox, l.ax, l.aw, l.w)
        y == DSLIndex(l.nn, pixel[2] + d[2], l.oy, l.ay, l.ah, l.h)
        right == l.ax + l.aw
        bottom == l.ay + l.ah
    IN  IF l.mode = "CONSTANT"
        THEN IF x < l.ax \/ x >= right \/ y < l.ay \/ y >= bottom
             THEN Const ELSE <<x, y>>
        ELSE << DSLBorder(l.mode, x, l.ax, right),
                DSLBorder(l.mode, y, l.ay, bottom) >>

\* the pixels the DSL's element iterator visits
IterationSpace(l) ==
    (l.ox .. l.ox + l.w - 1) \X (l.oy .. l.oy + l.h - 1)

-----------------------------------------------------------------------------
(* The threads of the block. *)

Threads(l) == IF l.gpu THEN (0 .. l.bx - 1) \X (0 .. l.by - 1) ELSE {<<0, 0>>}

GidX(l, t) == l.bx * block[1] + t[1]

GidY(l, t) == l.by * l.ppt * block[2] + t[2]

\* the rows of local memory a thread fills are those of its pixels and of the
\* apron below the block; the columns those of the blocks left and right too
StageRows(l) == 0 .. l.ppt + Ceil(l.sy - 1, l.by) - 1

\* MUTANT: one stage too many
StageColumnsPast(l) == IF l.sx > 1 THEN 0 .. 3 ELSE {0}

StageColumns(l) == IF l.sx > 1 THEN 0 .. 2 ELSE {0}

ApronX(l) == IF l.sx > 1 THEN l.bx ELSE 0

\* borders are handled along the axes the mask extends over
StageBorders(l, v) ==
    {b \in Borders(l, v) :
        IF b \in {"left", "right"} THEN l.sx > 1 ELSE l.sy > 1}

Staged(l, v, t) ==
    [c \in {<<t[1] + i * l.bx, t[2] + p * l.by>> :
                i \in StageColumns(l), p \in StageRows(l)} |->
        ReadGlobal(l, StageBorders(l, v),
                   << GidX(l, t) + c[1] - t[1] - ApronX(l),
                      GidY(l, t) + c[2] - t[2] - l.sy \div 2 >>)]

\* a kernel on the CPU loops over the iteration space
Gids(l, t) ==
    IF l.gpu THEN {<<GidX(l, t), GidY(l, t) + p * l.by>> : p \in 0 .. l.ppt - 1}
    ELSE IterationSpace(l)

ReadShared(l, t, gid, d) ==
    LET c == << t[1] + d[1] + ApronX(l),
                gid[2] - GidY(l, t) + t[2] + d[2] + l.sy \div 2 >>
    IN  IF c \in DOMAIN smem THEN smem[c] ELSE Unset

Window(l, v, t, gid) ==
    [d \in Offsets(l) |->
        IF l.shared THEN ReadShared(l, t, gid, d)
        ELSE ReadGlobal(l, Borders(l, v), <<gid[1] + d[1], gid[2] + d[2]>>)]

\* accessMem for the iteration space: gid_x is a column of the image, gid_y a
\* row of the iteration space (on the CPU of the image)
Written(l, gid) == IF l.gpu THEN <<gid[1], gid[2] + l.oy>> ELSE gid

\* MUTANT: a thread waits for itself only
PastOwnStage(l) == TRUE

\* __syncthreads or barrier(CLK_LOCAL_MEM_FENCE) between the two phases
PastBarrier(l) == l.shared => \A t \in Threads(l) : pc[t] # "stage"

Earlier(t) ==
    {u \in DOMAIN pc : u[2] < t[2] \/ (u[2] = t[2] /\ u[1] < t[1])}

HasTurn(t) == launch.anyOrder \/ \A u \in Earlier(t) : pc[u] # pc[t]

Stage(t) ==
    /\ pc[t] = "stage" /\ HasTurn(t)
    /\ LET staged == Staged(launch, VariantOf(launch, block), t)
       IN  smem' = [c \in DOMAIN smem \cup DOMAIN staged |->
                       IF c \in DOMAIN staged THEN staged[c] ELSE smem[c]]
    /\ pc' = [pc EXCEPT ![t] = "compute"]
    /\ UNCHANGED <<launch, block, writes>>

Compute(t) ==
    /\ pc[t] = "compute" /\ PastBarrier(launch) /\ HasTurn(t)
    /\ LET v == VariantOf(launch, block)
       IN  writes' = writes \cup
             {[thread |-> t, pixel |-> Written(launch, gid),
               window |-> Window(launch, v, t, gid)] :
                gid \in {g \in Gids(launch, t) : Computes(launch, v, g)}}
    /\ pc' = [pc EXCEPT ![t] = "done"]
    /\ UNCHANGED <<launch, block, smem>>

Init ==
    /\ launch \in Launch
    /\ block \in Grid(launch)
    /\ smem = <<>>
    /\ pc = [t \in Threads(launch) |->
                IF launch.shared THEN "stage" ELSE "compute"]
    /\ writes = {}

Next == \E t \in Threads(launch) : Stage(t) \/ Compute(t)

Spec == Init /\ [][Next]_vars

-----------------------------------------------------------------------------
(***************************************************************************)
(* Local memory holds pixels, and no thread computes before it has staged. *)
(***************************************************************************)
RegionsTypeOK ==
    /\ block \in Grid(launch)
    /\ DOMAIN pc = Threads(launch)
    /\ \A t \in DOMAIN pc : pc[t] \in {"stage", "compute", "done"}
    /\ \A c \in DOMAIN smem : smem[c] \in (Int \X Int) \cup {Const}
    /\ \A c \in DOMAIN smem : /\ c[1] \in 0 .. 3 * launch.bx - 1
                              /\ c[2] \in 0 .. (launch.ppt + launch.sy) * launch.by

(***************************************************************************)
(* Whatever copy of the body a block jumps to, wherever it lies, and in    *)
(* whatever order its threads run, the window a pixel is computed from is  *)
(* the one the DSL reads: no copy misses a border that it needs, and the   *)
(* local memory holds every pixel a thread reads from it.                  *)
(***************************************************************************)
ReadsAsTheDSL ==
    \A wr \in writes : \A d \in Offsets(launch) :
        wr.window[d] = DSLRead(launch, wr.pixel, d)

(***************************************************************************)
(* The blocks of the grid share out the iteration space: a block that has  *)
(* ended has written the pixels that are its own, each of them once, and   *)
(* nothing outside the iteration space, although most copies of the body   *)
(* omit most of the tests that would keep it inside.                       *)
(***************************************************************************)
Own(p) ==
    ~ launch.gpu \/ block = << p[1] \div launch.bx,
                               (p[2] - launch.oy) \div (launch.by * launch.ppt) >>

EveryPixelOnce ==
    (\A t \in DOMAIN pc : pc[t] = "done") =>
        /\ {wr.pixel : wr \in writes} = {p \in IterationSpace(launch) : Own(p)}
        /\ Cardinality({wr.pixel : wr \in writes}) = Cardinality(writes)
        /\ launch.gpu => \A p \in IterationSpace(launch) :
               << p[1] \div launch.bx,
                  (p[2] - launch.oy) \div (launch.by * launch.ppt) >> \in Grid(launch)
=============================================================================
