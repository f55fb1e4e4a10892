---------------------------- MODULE RuntimeMemory ----------------------------
(***************************************************************************)
(* The generated host program of all back ends: the statements on images,  *)
(* accessors and pyramids as lib/Rewrite/Rewrite.cpp rewrites them, run on *)
(* the memory management of runtime/hipacc_base.hpp and of the run-times   *)
(* of the targets.  An image is a handle on a block of device memory, whose*)
(* rows may be padded to a stride, and on a reference-counted host block;  *)
(* the context holds a handle on every image until it is released, which   *)
(* the rewriter does before the last statement of main().                  *)
(*                                                                         *)
(* A host program that refines DSLMemory sees what the DSL promises.       *)
(*                                                                         *)
(* Vivado images are streams and only their handles are modelled here; see *)
(* StreamSchedule for their data.                                          *)
(***************************************************************************)
EXTENDS Integers, Sequences, FiniteSets, SequencesExt

CONSTANTS ImageNames, PyramidNames, AccessorNames, Sizes, Depths, Regions,
          HostArrays, MaxLoop, MaxCalls, MaxStatements,   \* as in DSLMemory
          Targets     \* the targets [lang, texture, alignment in pixels]

Languages == {"C99", "CUDA", "OpenCL", "Renderscript", "Vivado"}

ASSUME NamesDiffer == ImageNames \cap PyramidNames = {}
ASSUME NamesAreFinite == IsFiniteSet(ImageNames) /\ IsFiniteSet(PyramidNames)
ASSUME DepthsArePositive == Depths \subseteq Nat \ {0}
ASSUME BoundsAreNat == MaxLoop \in Nat /\ MaxStatements \in Nat
ASSUME SizesArePositive == Sizes \subseteq (Nat \ {0}) \X (Nat \ {0})
ASSUME RegionsAreNat ==
  Regions \subseteq [width : Nat, height : Nat, x : Nat, y : Nat]
ASSUME TargetsAreKnown ==
  \A t \in Targets : /\ t.lang \in Languages
                     /\ t.texture \in BOOLEAN /\ t.alignment \in Nat

VARIABLES target,
          memory,          \* the images created so far and their blocks
          context,         \* HipaccContext: [imgs, allocs]
          images, pyramids, accessors,          \* handles; as in DSLMemory
          hipaccPyramids,  \* the pyramids of the running traversals
          calls,           \* hipaccTraverse calls, with their own pyrs
          read,            \* what the last hipaccReadMemory returned
          phase,           \* of main(): "running", "releasing" or "left"
          released,        \* variables released at the end of main()
          statements

vars == <<target, memory, context, images, pyramids, accessors, hipaccPyramids,
          calls, read, phase, released, statements>>

\* The content of padding a Renderscript transfer takes from a fresh buffer.
Garbage == -1

NoPyramid  == [imgs |-> <<>>, level |-> 0, bound |-> FALSE]
NoAccessor == [img |-> 0, width |-> 0, height |-> 0, x |-> 0, y |-> 0]

HostPixel(a, k) == IF a = 0 THEN 0 ELSE 100 * a + k

HostArray(width, height, a) ==
  [k \in 0 .. width * height - 1 |-> HostPixel(a, k)]

(***************************************************************************)
(* Transfers.  img is a record of memory; a host array is packed, device   *)
(* memory has one row every stride pixels.                                 *)
(***************************************************************************)
RowsIn(img, host, padding(_)) ==
  [k \in DOMAIN img.device |->
     LET x == k % img.stride
         y == k \div img.stride
     IN  IF x < img.width THEN host[y * img.width + x] ELSE padding(k)]

RowsOut(img) ==
  [k \in 0 .. img.width * img.height - 1 |->
     img.device[(k \div img.width) * img.stride + (k % img.width)]]

\* CPU: a loop over the rows, or one memcpy if there is no padding.
CPUWrite(img, host) == RowsIn(img, host, LAMBDA k : img.device[k])

CPURead(img) == RowsOut(img)

\* CUDA: arrays are packed, padded linear memory takes a 2D copy.
CUDAWrite(img, host) ==
  IF img.array2D \/ img.stride = img.width THEN host
  ELSE RowsIn(img, host, LAMBDA k : img.device[k])

CUDARead(img) ==
  IF img.array2D \/ img.stride = img.width THEN img.device ELSE RowsOut(img)

\* OpenCL: image objects are packed, buffers are written row by row.
OpenCLWrite(img, host) ==
  IF img.array2D THEN host ELSE RowsIn(img, host, LAMBDA k : img.device[k])

OpenCLRead(img) == IF img.array2D THEN img.device ELSE RowsOut(img)

\* Renderscript: the whole allocation goes through a fresh buffer.
RenderscriptWrite(img, host) == RowsIn(img, host, LAMBDA k : Garbage)

RenderscriptRead(img) == RowsOut(img)

WriteMemory(lang, img, host) ==
  CASE lang = "C99"          -> CPUWrite(img, host)
    [] lang = "CUDA"         -> CUDAWrite(img, host)
    [] lang = "OpenCL"       -> OpenCLWrite(img, host)
    [] lang = "Renderscript" -> RenderscriptWrite(img, host)
    [] lang = "Vivado"       -> img.device

ReadMemory(lang, img) ==
  CASE lang = "C99"          -> CPURead(img)
    [] lang = "CUDA"         -> CUDARead(img)
    [] lang = "OpenCL"       -> OpenCLRead(img)
    [] lang = "Renderscript" -> RenderscriptRead(img)

FirstPixels(dst, src, n) ==
  [k \in DOMAIN dst.device |-> IF k < n THEN src.device[k] ELSE dst.device[k]]

CPUCopy(dst, src) == FirstPixels(dst, src, src.stride * src.height)

CUDACopy(dst, src) == FirstPixels(dst, src, src.stride * src.height)

\* clEnqueueCopyBuffer is given the pixels of the image, not of its rows.
OpenCLCopy(dst, src) ==
  FirstPixels(dst, src, src.width * src.height)

RenderscriptCopy(dst, src) == FirstPixels(dst, src, src.stride * src.height)

CopyMemory(lang, dst, src) ==
  CASE lang = "C99"          -> CPUCopy(dst, src)
    [] lang = "CUDA"         -> CUDACopy(dst, src)
    [] lang = "OpenCL"       -> OpenCLCopy(dst, src)
    [] lang = "Renderscript" -> RenderscriptCopy(dst, src)

\* mutant: the first row of the source region is dropped
CopyRectangleFromTop(dst, d, src, s, width, height) ==
  [k \in DOMAIN dst.device |->
     LET x == (k % dst.stride) - d.x
         y == (k \div dst.stride) - d.y
     IN  IF x \in 0 .. width - 1 /\ y \in 0 .. height - 1
         THEN src.device[y * src.stride + (x + s.x)]
         ELSE dst.device[k]]

\* height rows of width pixels from the corner of s to the corner of d.
CopyRectangle(dst, d, src, s, width, height) ==
  [k \in DOMAIN dst.device |->
     LET x == (k % dst.stride) - d.x
         y == (k \div dst.stride) - d.y
     IN  IF x \in 0 .. width - 1 /\ y \in 0 .. height - 1
         THEN src.device[(y + s.y) * src.stride + (x + s.x)]
         ELSE dst.device[k]]

CPUCopyRegion(dst, d, src, s) ==
  CopyRectangle(dst, d, src, s, s.width, d.height)

CUDACopyRegion(dst, d, src, s) ==
  CopyRectangle(dst, d, src, s, s.width, s.height)

OpenCLCopyRegion(dst, d, src, s) ==
  CopyRectangle(dst, d, src, s, d.width, d.height)

RenderscriptCopyRegion(dst, d, src, s) ==
  CopyRectangle(dst, d, src, s, s.width, s.height)

CopyMemoryRegion(lang, dst, d, src, s) ==
  CASE lang = "C99"          -> CPUCopyRegion(dst, d, src, s)
    [] lang = "CUDA"         -> CUDACopyRegion(dst, d, src, s)
    [] lang = "OpenCL"       -> OpenCLCopyRegion(dst, d, src, s)
    [] lang = "Renderscript" -> RenderscriptCopyRegion(dst, d, src, s)

(***************************************************************************)
(* Allocation.                                                             *)
(***************************************************************************)
\* The alignment the allocation call is printed with, 0 for none.
Alignment(t) ==
  IF (t.lang = "CUDA" /\ t.texture) \/ t.lang = "Vivado" THEN 0 ELSE t.alignment

\* The creation functions: the smallest multiple of the alignment.
CPUStride(width, alignment) ==
  IF alignment = 0 THEN width ELSE -((-width) \div alignment) * alignment

\* mutant: the largest multiple of the alignment that fits
CUDAStrideDown(width, alignment, texture) ==
  IF texture \/ alignment = 0 THEN width
  ELSE (width \div alignment) * alignment

CUDAStride(width, alignment, texture) ==
  IF texture \/ alignment = 0 THEN width
  ELSE -((-width) \div alignment) * alignment

OpenCLStride(width, alignment, texture) ==
  IF texture \/ alignment = 0 THEN width
  ELSE -((-width) \div alignment) * alignment

RenderscriptStride(width, alignment) ==
  IF alignment = 0 THEN width ELSE -((-width) \div alignment) * alignment

Stride(t, width) ==
  CASE t.lang = "C99"          -> CPUStride(width, Alignment(t))
    [] t.lang = "CUDA"         -> CUDAStride(width, Alignment(t), t.texture)
    [] t.lang = "OpenCL"       -> OpenCLStride(width, Alignment(t), t.texture)
    [] t.lang = "Renderscript" -> RenderscriptStride(width, Alignment(t))
    [] t.lang = "Vivado"       -> width

\* A new image: its host block is zero, its device block unwritten.
NewImage(t, size) ==
  LET stride == Stride(t, size[1])
  IN  [width   |-> size[1],
       height  |-> size[2],
       stride  |-> stride,
       array2D |-> t.texture,
       device  |-> [k \in 0 .. stride * size[2] - 1 |-> Garbage],
       host    |-> HostArray(size[1], size[2], 0),
       live    |-> TRUE,
       refs    |-> 1,
       freed   |-> 0]

\* hipaccWriteMemory keeps a copy of the host array in the host block.
Written(t, img, host) ==
  [img EXCEPT !.host   = host,
              !.device = WriteMemory(t.lang, img, host)]

\* createImage: the context takes a handle, Renderscript's takes two.
CreateImage(t, size, a) ==
  LET img == NewImage(t, size)
  IN  [(IF t.lang = "Vivado" THEN img
        ELSE Written(t, img, HostArray(size[1], size[2], a)))
         EXCEPT !.refs = IF t.lang = "Renderscript" THEN 3 ELSE 2]

AddImages(ids) ==
  context' = [imgs   |-> context.imgs \o ids,
              allocs |-> IF target.lang = "Renderscript"
                         THEN context.allocs \o ids ELSE <<>>]

(***************************************************************************)
(* Handles.  Destroying the last one frees the host block.                 *)
(***************************************************************************)
Dropped(img, n) ==
  [img EXCEPT !.refs = @ - n,
              !.live = @ /\ img.refs > n]

CopiedUncounted(img) == img          \* mutant: the default copy constructor

Copied(img) == [img EXCEPT !.refs = @ + 1]

\* HipaccImage::operator==: the same device pointer; Vivado has none.
SameImage(i, j) == target.lang = "Vivado" \/ i = j

\* del_image: the first entry of the list that equals the image.
FirstSame(list, i) ==
  CHOOSE k \in DOMAIN list :
    SameImage(list[k], i) /\ \A l \in 1 .. k - 1 : ~SameImage(list[l], i)

Without(list, i) == RemoveAt(list, FirstSame(list, i))

\* hipaccReleaseMemory of image i, and of the images ids in this order.
ReleaseOne(s, i) ==
  LET freed == [s.mem EXCEPT ![i].freed = @ + 1]
  IN  IF ~\E k \in DOMAIN s.ctx.imgs : SameImage(s.ctx.imgs[k], i)
      THEN [s EXCEPT !.mem = freed]
      ELSE LET j == s.ctx.imgs[FirstSame(s.ctx.imgs, i)]
               handles == IF target.lang = "Renderscript" THEN 2 ELSE 1
           IN  [mem |-> [freed EXCEPT ![j] = Dropped(@, handles)],
                ctx |-> [imgs   |-> Without(s.ctx.imgs, i),
                         allocs |-> IF target.lang = "Renderscript"
                                    THEN Without(s.ctx.allocs, i) ELSE <<>>]]

Release(mem, ctx, ids) ==
  FoldLeft(ReleaseOne, [mem |-> mem, ctx |-> ctx], ids)

(***************************************************************************)
(* The operands of an assignment, as the rewriter prints them: an image by *)
(* its name, an accessor by its HipaccAccessor, P(relative) as it is, with *)
(* the index as a literal.                                                 *)
(***************************************************************************)
Operands ==
  [kind : {"image"}, name : ImageNames, at : {0}]
    \union [kind : {"accessor"}, name : AccessorNames, at : {0}]
    \union [kind : {"level"}, name : PyramidNames, at : -2 .. 2]

\* HipaccPyramid::operator().
HasStage(P, relative) == P.level + relative \in 0 .. Len(P.imgs) - 1
Stage(P, relative)    == P.imgs[P.level + relative + 1]

Denotes(o) ==
  \/ o.kind = "image" /\ images[o.name] # 0
  \/ o.kind = "accessor" /\ accessors[o.name] # NoAccessor
  \/ o.kind = "level" /\ HasStage(pyramids[o.name], o.at)

\* HipaccAccessor(img)
WholeImage(i) == [img |-> i, width |-> memory[i].width,
                  height |-> memory[i].height, x |-> 0, y |-> 0]

AccessorOf(o) ==
  CASE o.kind = "image"    -> WholeImage(images[o.name])
    [] o.kind = "accessor" -> accessors[o.name]
    [] o.kind = "level"    -> WholeImage(Stage(pyramids[o.name], o.at))

\* The sizes the DSL asserts to be equal, and no copy of a block onto itself.
Copyable(d, s) ==
  /\ d.width = s.width /\ d.height = s.height
  /\ \/ d.img # s.img
     \/ d.x + d.width <= s.x \/ s.x + s.width <= d.x
     \/ d.y + d.height <= s.y \/ s.y + s.height <= d.y

(***************************************************************************)
(* Statements.                                                             *)
(***************************************************************************)
Statement ==
  /\ phase = "running"
  /\ statements < MaxStatements /\ statements' = statements + 1
  /\ UNCHANGED <<target, phase, released>>

\* Image<T> n(width, height[, a]); Vivado's images take no initial pixels.
DeclareImage(n, size, a) ==
  /\ Statement
  /\ images[n] = 0
  /\ target.lang = "Vivado" => a = 0
  /\ memory' = Append(memory, CreateImage(target, size, a))
  /\ images' = [images EXCEPT ![n] = Len(memory) + 1]
  /\ AddImages(<<Len(memory) + 1>>)
  /\ UNCHANGED <<pyramids, accessors, hipaccPyramids, calls, read>>

\* The sizes of the stages: width and height are halved from one to the next.
LevelSizes(size, depth) ==
  LET half[l \in 0 .. depth - 1] ==
        IF l = 0 THEN size ELSE <<half[l - 1][1] \div 2, half[l - 1][2] \div 2>>
  IN  half

\* hipaccCreatePyramid: add() copies the handle of the base image; the stages
\* take over its memory type and alignment.  C99 and Vivado have no pyramids.
DeclarePyramid(p, n, depth) ==
  /\ Statement
  /\ target.lang \in {"CUDA", "OpenCL", "Renderscript"}
  /\ pyramids[p] = NoPyramid /\ images[n] # 0
  /\ LET base == memory[images[n]]
         size == LevelSizes(<<base.width, base.height>>, depth)
         ids == [l \in 1 .. depth - 1 |-> Len(memory) + l]
     IN  /\ \A l \in 1 .. depth - 1 : size[l][1] * size[l][2] > 0
         /\ memory' = [memory EXCEPT ![images[n]] = Copied(@)]
                         \o [l \in 1 .. depth - 1 |->
                               CreateImage(target, size[l], 0)]
         /\ pyramids' = [pyramids EXCEPT ![p] =
                           [NoPyramid EXCEPT !.imgs = <<images[n]>> \o ids]]
         /\ AddImages(ids)
  /\ UNCHANGED <<images, accessors, hipaccPyramids, calls, read>>

\* HipaccAccessor c(o, width, height, x, y); a reference, not a handle.
DeclareAccessor(c, o, r) ==
  /\ Statement
  /\ target.lang # "Vivado"
  /\ accessors[c] = NoAccessor /\ o.kind # "accessor" /\ Denotes(o)
  /\ LET w == AccessorOf(o)
     IN  /\ r.x + r.width <= w.width /\ r.y + r.height <= w.height
         /\ accessors' = [accessors EXCEPT ![c] =
              [img |-> w.img, width |-> r.width, height |-> r.height,
               x |-> r.x, y |-> r.y]]
  /\ UNCHANGED <<memory, context, images, pyramids, hipaccPyramids, calls,
                 read>>

SetDevice(i, device) == memory' = [memory EXCEPT ![i].device = device]

\* d = s; a whole copy unless one side is an accessor.
Assign(d, s) ==
  /\ Statement
  /\ target.lang # "Vivado"
  /\ Denotes(d) /\ Denotes(s) /\ Copyable(AccessorOf(d), AccessorOf(s))
  /\ LET to   == AccessorOf(d)
         from == AccessorOf(s)
         dst  == memory[to.img]
         src  == memory[from.img]
     IN  IF "accessor" \in {d.kind, s.kind}
         THEN SetDevice(to.img,
                        CopyMemoryRegion(target.lang, dst, to, src, from))
         ELSE SetDevice(to.img, CopyMemory(target.lang, dst, src))
  /\ UNCHANGED <<context, images, pyramids, accessors, hipaccPyramids, calls,
                 read>>

\* d = n.data(); becomes a copy on the device, and the call of data() in it is
\* not rewritten.
AssignData(d, n) ==
  /\ Statement
  /\ target.lang # "Vivado"
  /\ d.kind # "accessor" /\ Denotes(d) /\ images[n] # 0
  /\ AccessorOf(d).img # images[n]
  /\ Copyable(AccessorOf(d), WholeImage(images[n]))
  /\ LET i == AccessorOf(d).img
     IN  SetDevice(i, CopyMemory(target.lang, memory[i], memory[images[n]]))
  /\ UNCHANGED <<context, images, pyramids, accessors, hipaccPyramids, calls,
                 read>>

\* d = a;
AssignArray(d, a) ==
  /\ Statement
  /\ target.lang # "Vivado"
  /\ d.kind # "accessor" /\ Denotes(d)
  /\ LET i == AccessorOf(d).img
     IN  memory' = [memory EXCEPT ![i] =
           Written(target, @, HostArray(@.width, @.height, a))]
  /\ UNCHANGED <<context, images, pyramids, accessors, hipaccPyramids, calls,
                 read>>

\* p = n.data(); reads the device into the host block and returns that.
Data(n) ==
  /\ Statement
  /\ target.lang # "Vivado"
  /\ images[n] # 0
  /\ memory' = [memory EXCEPT ![images[n]].host = ReadMemory(target.lang,
                                                 memory[images[n]])]
  /\ read' = memory'[images[n]].host
  /\ UNCHANGED <<context, images, pyramids, accessors, hipaccPyramids, calls>>

(***************************************************************************)
(* Traversals.  Every hipaccTraverse keeps the pyramids it was called with *)
(* in a local vector, and moves those back when it ends.                   *)
(***************************************************************************)
Move(ps, by) ==
  [p \in PyramidNames |-> IF p \in ps
                          THEN [pyramids[p] EXCEPT !.level = @ + by]
                          ELSE pyramids[p]]

Bind(P)   == [P EXCEPT !.bound = TRUE, !.level = 0]
Unbind(P) == [P EXCEPT !.bound = FALSE]

Traverse(ps) ==
  /\ phase = "running" /\ Len(calls) < MaxCalls
  /\ ps # {}
  /\ \A p \in ps : pyramids[p] # NoPyramid /\ ~pyramids[p].bound
  /\ \A p, q \in ps : Len(pyramids[p].imgs) = Len(pyramids[q].imgs)
  /\ pyramids' = [p \in PyramidNames |->
                    IF p \in ps THEN Bind(pyramids[p]) ELSE pyramids[p]]
  /\ hipaccPyramids' = Append(hipaccPyramids, ps)
  /\ calls' = Append(calls, [kind |-> "traversal", pyrs |-> ps, left |-> 1])
  /\ UNCHANGED <<target, memory, context, images, accessors, read, phase,
                 released, statements>>

Recurse(loop) ==
  /\ Len(calls) < MaxCalls
  /\ hipaccPyramids # <<>>
  /\ LET pyrs == Last(hipaccPyramids)
     IN  /\ \E p \in pyrs : pyramids[p].level # Len(pyramids[p].imgs) - 1
         /\ pyramids' = Move(pyrs, 1)
         /\ calls' = Append(calls, [kind |-> "recursion", pyrs |-> pyrs,
                                    left |-> loop])
  /\ UNCHANGED <<target, memory, context, images, accessors, hipaccPyramids,
                 read, phase, released, statements>>

NextRepetition ==
  /\ calls # <<>> /\ Last(calls).left > 1
  /\ calls' = [calls EXCEPT ![Len(calls)].left = @ - 1]
  /\ UNCHANGED <<target, memory, context, images, pyramids, accessors,
                 hipaccPyramids, read, phase, released, statements>>

EndRecursionOutermost ==             \* mutant: hipaccPyramids.front()
  /\ calls # <<>> /\ Last(calls).kind = "recursion" /\ Last(calls).left = 1
  /\ pyramids' = Move(hipaccPyramids[1], -1)
  /\ calls' = Front(calls)
  /\ UNCHANGED <<target, memory, context, images, accessors, hipaccPyramids,
                 read, phase, released, statements>>

EndRecursion ==
  /\ calls # <<>> /\ Last(calls).kind = "recursion" /\ Last(calls).left = 1
  /\ pyramids' = Move(Last(calls).pyrs, -1)
  /\ calls' = Front(calls)
  /\ UNCHANGED <<target, memory, context, images, accessors, hipaccPyramids,
                 read, phase, released, statements>>

EndTraversal ==
  /\ calls # <<>> /\ Last(calls).kind = "traversal"
  /\ hipaccPyramids' = Front(hipaccPyramids)
  /\ pyramids' = [p \in PyramidNames |->
                    IF p \in Last(calls).pyrs THEN Unbind(pyramids[p])
                                              ELSE pyramids[p]]
  /\ calls' = Front(calls)
  /\ UNCHANGED <<target, memory, context, images, accessors, read, phase,
                 released, statements>>

(***************************************************************************)
(* The end of main(): the releases come before its last statement, in the  *)
(* order of the rewriter's hash maps; then the variables are destroyed.    *)
(***************************************************************************)
Declared ==
  {n \in ImageNames : images[n] # 0}
    \union {p \in PyramidNames : pyramids[p] # NoPyramid}

ReleaseVariable(v, ids) ==
  /\ v \in Declared \ released
  /\ phase \in {"running", "releasing"} /\ calls = <<>>
  /\ phase' = "releasing"
  /\ released' = released \union {v}
  /\ LET after == Release(memory, context, ids)
     IN  /\ context' = after.ctx
         /\ memory' = IF v \in ImageNames THEN after.mem
                      ELSE [i \in DOMAIN memory |->
                             IF i \in ToSet(ids) THEN Dropped(after.mem[i], 1)
                             ELSE after.mem[i]]
  /\ UNCHANGED <<target, images, pyramids, accessors, hipaccPyramids, calls,
                 read, statements>>

ReleaseImage(n) == ReleaseVariable(n, <<images[n]>>)

\* mutant: the base image is released with the pyramid
ReleaseWholePyramid(p) == ReleaseVariable(p, Reverse(pyramids[p].imgs))

\* hipaccReleasePyramid releases and drops all stages but the first.
ReleasePyramid(p) == ReleaseVariable(p, Reverse(Tail(pyramids[p].imgs)))

\* The handles variables still hold: of each image, and of each pyramid its
\* first stage and, until they are released, the others.
HeldBy(v, i) ==
  IF v \in ImageNames THEN IF images[v] = i THEN 1 ELSE 0
  ELSE Cardinality({k \in DOMAIN pyramids[v].imgs :
         pyramids[v].imgs[k] = i /\ (k > 1 => v \notin released)})

Held(i) ==
  IF phase = "left" THEN 0
  ELSE FoldSet(LAMBDA v, n : n + HeldBy(v, i), 0, ImageNames \union PyramidNames)

LeaveMain ==
  /\ phase = "releasing" /\ released = Declared
  /\ phase' = "left"
  /\ memory' = [i \in DOMAIN memory |-> Dropped(memory[i], Held(i))]
  /\ UNCHANGED <<target, context, images, pyramids, accessors, hipaccPyramids,
                 calls, read, released, statements>>

Init ==
  /\ target \in Targets
  /\ memory = <<>> /\ context = [imgs |-> <<>>, allocs |-> <<>>]
  /\ images = [n \in ImageNames |-> 0]
  /\ pyramids = [p \in PyramidNames |-> NoPyramid]
  /\ accessors = [c \in AccessorNames |-> NoAccessor]
  /\ hipaccPyramids = <<>> /\ calls = <<>>
  /\ read = <<>>
  /\ phase = "running" /\ released = {} /\ statements = 0

Next ==
  \/ \E n \in ImageNames, size \in Sizes, a \in {0} \union HostArrays :
       DeclareImage(n, size, a)
  \/ \E p \in PyramidNames, n \in ImageNames, depth \in Depths :
       DeclarePyramid(p, n, depth)
  \/ \E c \in AccessorNames, o \in Operands, r \in Regions :
       DeclareAccessor(c, o, r)
  \/ \E d, s \in Operands : Assign(d, s)
  \/ \E d \in Operands, n \in ImageNames : AssignData(d, n)
  \/ \E d \in Operands, a \in HostArrays : AssignArray(d, a)
  \/ \E n \in ImageNames : Data(n)
  \/ \E ps \in SUBSET PyramidNames : Traverse(ps)
  \/ \E loop \in 1 .. MaxLoop : Recurse(loop)
  \/ NextRepetition
  \/ EndRecursion
  \/ EndTraversal
  \/ \E n \in ImageNames : ReleaseImage(n)
  \/ \E p \in PyramidNames : ReleasePyramid(p)
  \/ LeaveMain

Spec == Init /\ [][Next]_vars

(***************************************************************************)
(* Properties.                                                             *)
(***************************************************************************)

MemoryTypeOK ==
  /\ target \in Targets /\ target.lang \in Languages
  /\ images \in [ImageNames -> 0 .. Len(memory)]
  /\ \A p \in PyramidNames : ToSet(pyramids[p].imgs) \subseteq DOMAIN memory
  /\ ToSet(context.imgs) \subseteq DOMAIN memory
  /\ \A i \in DOMAIN memory :
       /\ memory[i].stride >= memory[i].width
       /\ DOMAIN memory[i].device = 0 .. memory[i].stride * memory[i].height - 1
       /\ DOMAIN memory[i].host = 0 .. memory[i].width * memory[i].height - 1
       /\ memory[i].live \in BOOLEAN
  /\ phase \in {"running", "releasing", "left"}
  /\ statements \in 0 .. MaxStatements

(* The reference count of a host block is the number of handles on it: of  *)
(* variables, pyramid stages and context entries.  So no handle is left on *)
(* a freed block, and none is lost when main() has returned.               *)
Occurrences(list, i) == Cardinality({k \in DOMAIN list : list[k] = i})

HostBlocksCounted ==
  \A i \in DOMAIN memory :
    LET handles == Held(i) + Occurrences(context.imgs, i)
                           + Occurrences(context.allocs, i)
    IN  memory[i].refs = handles /\ memory[i].live = (handles > 0)

(* Every device block is released exactly once, although the first stage   *)
(* of a pyramid and its base image are two handles on one block, and none  *)
(* while a statement can still use it.                                     *)
ReleasedOnce ==
  \A i \in DOMAIN memory :
    /\ phase = "running" => memory[i].freed = 0
    /\ phase = "left" => memory[i].freed = 1 /\ context.imgs = <<>>
    /\ memory[i].freed <= 1

(* A pyramid is bound exactly while one traversal of it runs, its level is *)
(* the number of recursions that traversal has open, and 0 when it is not  *)
(* bound.                                                                  *)
Traversing(p) == {t \in DOMAIN calls : calls[t].kind = "traversal"
                                         /\ p \in calls[t].pyrs}

LevelsFollowTheCalls ==
  /\ Len(hipaccPyramids) = Cardinality({t \in DOMAIN calls :
                                          calls[t].kind = "traversal"})
  /\ \A p \in PyramidNames :
       /\ Cardinality(Traversing(p)) = IF pyramids[p].bound THEN 1 ELSE 0
       /\ pyramids[p].level = Cardinality({t \in DOMAIN calls :
                                 calls[t].kind = "recursion"
                                   /\ p \in calls[t].pyrs})
       /\ pyramids[p] # NoPyramid =>
            pyramids[p].level \in 0 .. Len(pyramids[p].imgs) - 1

Arrays ==
  [i \in DOMAIN memory |->
     [width  |-> memory[i].width,
      height |-> memory[i].height,
      pixel  |-> IF target.lang = "Vivado" THEN memory[i].host
                 ELSE RowsOut(memory[i])]]

DSL == INSTANCE DSLMemory
         WITH arrays    <- Arrays,
              gPyramids <- hipaccPyramids,
              calls     <- [t \in DOMAIN calls |->
                              [kind |-> calls[t].kind, left |-> calls[t].left]]

\* Where hipaccCopyMemory of OpenCL copies all rows (see OpenCLCopy), and the
\* statements that copy an image whose rows it does not.
PackedCopy(s) ==
  target.lang = "OpenCL" => \/ memory[s.img].array2D \/ s.height = 1
                            \/ memory[s.img].stride = s.width

CopiesPadded ==
  \/ \E d, s \in Operands :
       /\ "accessor" \notin {d.kind, s.kind} /\ Assign(d, s)
       /\ ~PackedCopy(AccessorOf(s))
  \/ \E d \in Operands, n \in ImageNames :
       AssignData(d, n) /\ ~PackedCopy(WholeImage(images[n]))

(* The host program computes what the DSL says: every pixel of every image *)
(* and stage, what data() shows, and the stage P(relative) stands for.     *)
(* tests/memory_assignment compares whole copies with their source.        *)
RefinesDSL == DSL!Spec

(* From wherever it has got to, every statement but OpenCL's copies of     *)
(* padded images does what the DSL says.                                   *)
StatementsFollowDSL == DSL!Init /\ [][DSL!Next \/ CopiesPadded]_(DSL!dslVars)

==============================================================================
