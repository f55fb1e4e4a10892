------------------------------ MODULE DSLMemory ------------------------------
(***************************************************************************)
(* What a host program may assume of images, regions and pyramids: the     *)
(* reference implementation of the DSL in dsl/image.hpp and                *)
(* dsl/pyramid.hpp, where an image is one array on the host, level 0 of a  *)
(* pyramid shares the array of its base image, an assignment copies        *)
(* pixels, and a traversal moves the pyramids bound to it up and down.     *)
(*                                                                         *)
(* Left out: Pyramid::swap, which does not compile, because the vector     *)
(* assignment in it needs an Image::operator= for a constant image.        *)
(***************************************************************************)
EXTENDS Integers, Sequences, SequencesExt

CONSTANTS ImageNames,      \* the Image variables of main()
          PyramidNames,    \* its Pyramid variables
          AccessorNames,   \* its Accessor variables
          Sizes,           \* the image sizes <<width, height>> it uses
          Depths,          \* the pyramid depths
          Regions,         \* the regions [width, height, x, y] of accessors
          HostArrays,      \* the arrays it fills images from, numbered from 1
          MaxLoop,         \* bound on the repetitions of a recursion
          MaxCalls,        \* bound on the nested traversals and recursions
          MaxStatements    \* bound on the other statements of a run

VARIABLES arrays,          \* the pixel arrays, in the order of allocation
          images,          \* Image variable -> its array, 0 if not declared
          pyramids,        \* Pyramid variable -> [imgs, level, bound]
          accessors,       \* Accessor variable -> [img, width, height, x, y]
          gPyramids,       \* the pyramids of the running traversals
          calls,           \* the running traversals and recursions
          read,            \* what the last call of data() showed
          statements       \* number of statements so far

dslVars == <<arrays, images, pyramids, accessors, gPyramids, calls, read,
             statements>>

NoPyramid  == [imgs |-> <<>>, level |-> 0, bound |-> FALSE]
NoAccessor == [img |-> 0, width |-> 0, height |-> 0, x |-> 0, y |-> 0]

\* Pixel k of host array a; array 0 stands for zeros.
HostPixel(a, k) == IF a = 0 THEN 0 ELSE 100 * a + k

Filled(size, a) ==
  [width  |-> size[1],
   height |-> size[2],
   pixel  |-> [k \in 0 .. size[1] * size[2] - 1 |-> HostPixel(a, k)]]

\* The sizes of the levels of a pyramid on an image, each half the last.
LevelSizes(size, depth) ==
  LET half[l \in 0 .. depth - 1] ==
        IF l = 0 THEN size ELSE <<half[l - 1][1] \div 2, half[l - 1][2] \div 2>>
  IN  half

(***************************************************************************)
(* An operand of an assignment is an image, an accessor or P(relative).    *)
(* It denotes a region of an array.                                        *)
(***************************************************************************)
Operands ==
  [kind : {"image"}, name : ImageNames, at : {0}]
    \union [kind : {"accessor"}, name : AccessorNames, at : {0}]
    \union [kind : {"level"}, name : PyramidNames, at : -2 .. 2]

\* P(relative): the stage must exist (the assertion of operator()).
HasStage(P, relative) == P.level + relative \in 0 .. Len(P.imgs) - 1
Stage(P, relative)    == P.imgs[P.level + relative + 1]

Denotes(o) ==
  \/ o.kind = "image" /\ images[o.name] # 0
  \/ o.kind = "accessor" /\ accessors[o.name] # NoAccessor
  \/ o.kind = "level" /\ HasStage(pyramids[o.name], o.at)

Whole(i) == [img |-> i, width |-> arrays[i].width, height |-> arrays[i].height,
             x |-> 0, y |-> 0]

Region(o) ==
  CASE o.kind = "image"    -> Whole(images[o.name])
    [] o.kind = "accessor" -> accessors[o.name]
    [] o.kind = "level"    -> Whole(Stage(pyramids[o.name], o.at))

SameSize(r, s) == r.width = s.width /\ r.height = s.height

\* A copy within one array is only defined between regions that do not touch.
Disjoint(r, s) ==
  \/ r.img # s.img
  \/ r.x + r.width <= s.x \/ s.x + s.width <= r.x
  \/ r.y + r.height <= s.y \/ s.y + s.height <= r.y

(***************************************************************************)
(* Statements.                                                             *)
(***************************************************************************)
Statement == statements < MaxStatements /\ statements' = statements + 1

\* Image<T> n(width, height[, a]);
DeclareImage(n, size, a) ==
  /\ Statement
  /\ images[n] = 0
  /\ arrays' = Append(arrays, Filled(size, a))
  /\ images' = [images EXCEPT ![n] = Len(arrays) + 1]
  /\ UNCHANGED <<pyramids, accessors, gPyramids, calls, read>>

\* Pyramid<T> p(n, depth);
DeclarePyramid(p, n, depth) ==
  /\ Statement
  /\ pyramids[p] = NoPyramid /\ images[n] # 0
  /\ LET base == arrays[images[n]]
         size == LevelSizes(<<base.width, base.height>>, depth)
     IN  /\ \A l \in 1 .. depth - 1 : size[l][1] * size[l][2] > 0
         /\ arrays' = arrays \o [l \in 1 .. depth - 1 |-> Filled(size[l], 0)]
  /\ pyramids' = [pyramids EXCEPT ![p] =
       [NoPyramid EXCEPT !.imgs = <<images[n]>>
                           \o [l \in 1 .. depth - 1 |-> Len(arrays) + l]]]
  /\ UNCHANGED <<images, accessors, gPyramids, calls, read>>

\* Accessor<T> c(o, width, height, x, y); the accessor stays on the image that
\* P(relative) is when the accessor is declared.
DeclareAccessor(c, o, r) ==
  /\ Statement
  /\ accessors[c] = NoAccessor /\ o.kind # "accessor" /\ Denotes(o)
  /\ LET w == Region(o)
     IN  /\ r.x + r.width <= w.width /\ r.y + r.height <= w.height
         /\ accessors' = [accessors EXCEPT ![c] =
              [img |-> w.img, width |-> r.width, height |-> r.height,
               x |-> r.x, y |-> r.y]]
  /\ UNCHANGED <<arrays, images, pyramids, gPyramids, calls, read>>

\* d = s; between any two of images, accessors and pyramid stages.
Assigned(d, s) ==
  LET to    == arrays[d.img]
      from  == arrays[s.img]
      at(k) == [x |-> k % to.width, y |-> k \div to.width]
  IN  [to EXCEPT !.pixel =
        [k \in DOMAIN to.pixel |->
           IF at(k).x - d.x \in 0 .. d.width - 1
                /\ at(k).y - d.y \in 0 .. d.height - 1
           THEN from.pixel[(at(k).y - d.y + s.y) * from.width
                             + (at(k).x - d.x + s.x)]
           ELSE to.pixel[k]]]

Assign(d, s) ==
  /\ Statement
  /\ Denotes(d) /\ Denotes(s)
  /\ SameSize(Region(d), Region(s)) /\ Disjoint(Region(d), Region(s))
  /\ arrays' = [arrays EXCEPT ![Region(d).img] = Assigned(Region(d), Region(s))]
  /\ UNCHANGED <<images, pyramids, accessors, gPyramids, calls, read>>

\* d = a; an image or a pyramid stage from an array of the host.
AssignArray(d, a) ==
  /\ Statement
  /\ d.kind # "accessor" /\ Denotes(d)
  /\ LET i == Region(d).img
     IN  arrays' = [arrays EXCEPT ![i] =
                      Filled(<<arrays[i].width, arrays[i].height>>, a)]
  /\ UNCHANGED <<images, pyramids, accessors, gPyramids, calls, read>>

\* d = n.data(); the array of n is read as the host array it is.
AssignData(d, n) ==
  /\ Statement
  /\ d.kind # "accessor" /\ Denotes(d) /\ images[n] # 0
  /\ Region(d).img # images[n]
  /\ SameSize(Region(d), Whole(images[n]))
  /\ arrays' = [arrays EXCEPT ![Region(d).img] = arrays[images[n]]]
  /\ UNCHANGED <<images, pyramids, accessors, gPyramids, calls, read>>

\* p = n.data(); and p is read at once.
Data(n) ==
  /\ Statement
  /\ images[n] # 0
  /\ read' = arrays[images[n]].pixel
  /\ UNCHANGED <<arrays, images, pyramids, accessors, gPyramids, calls>>

(***************************************************************************)
(* traverse(pyramids, f) binds the pyramids and calls f; traverse(loop, g) *)
(* in f calls f again, loop times, with the pyramids of the innermost      *)
(* traversal one level deeper, and g between the calls.  Any statement may *)
(* be in f and in g.                                                       *)
(***************************************************************************)
Move(ps, by) ==
  [p \in PyramidNames |-> IF p \in ps
                          THEN [pyramids[p] EXCEPT !.level = @ + by]
                          ELSE pyramids[p]]

Traverse(ps) ==
  /\ Len(calls) < MaxCalls
  /\ ps # {}
  /\ \A p \in ps : pyramids[p] # NoPyramid /\ ~pyramids[p].bound
  /\ \A p, q \in ps : Len(pyramids[p].imgs) = Len(pyramids[q].imgs)
  /\ pyramids' = [p \in PyramidNames |->
       IF p \in ps THEN [pyramids[p] EXCEPT !.bound = TRUE, !.level = 0]
                   ELSE pyramids[p]]
  /\ gPyramids' = Append(gPyramids, ps)
  /\ calls' = Append(calls, [kind |-> "traversal", left |-> 1])
  /\ UNCHANGED <<arrays, images, accessors, read, statements>>

Recurse(loop) ==
  /\ Len(calls) < MaxCalls
  /\ gPyramids # <<>>
  /\ \E p \in Last(gPyramids) : pyramids[p].level # Len(pyramids[p].imgs) - 1
  /\ pyramids' = Move(Last(gPyramids), 1)
  /\ calls' = Append(calls, [kind |-> "recursion", left |-> loop])
  /\ UNCHANGED <<arrays, images, accessors, gPyramids, read, statements>>

\* The function of the innermost call returns.
Return ==
  /\ calls # <<>>
  /\ LET top == Last(calls)
     IN  \/ /\ top.left > 1
            /\ calls' = [calls EXCEPT ![Len(calls)].left = @ - 1]
            /\ UNCHANGED <<pyramids, gPyramids>>
         \/ /\ top.kind = "recursion" /\ top.left = 1
            /\ pyramids' = Move(Last(gPyramids), -1)
            /\ calls' = Front(calls)
            /\ UNCHANGED gPyramids
         \/ /\ top.kind = "traversal"
            /\ pyramids' = [p \in PyramidNames |->
                 IF p \in Last(gPyramids)
                 THEN [pyramids[p] EXCEPT !.bound = FALSE] ELSE pyramids[p]]
            /\ gPyramids' = Front(gPyramids)
            /\ calls' = Front(calls)
  /\ UNCHANGED <<arrays, images, accessors, read, statements>>

Init ==
  /\ arrays = <<>>
  /\ images = [n \in ImageNames |-> 0]
  /\ pyramids = [p \in PyramidNames |-> NoPyramid]
  /\ accessors = [c \in AccessorNames |-> NoAccessor]
  /\ gPyramids = <<>> /\ calls = <<>>
  /\ read = <<>>
  /\ statements = 0

Next ==
  \/ \E n \in ImageNames, size \in Sizes, a \in {0} \union HostArrays :
       DeclareImage(n, size, a)
  \/ \E p \in PyramidNames, n \in ImageNames, depth \in Depths :
       DeclarePyramid(p, n, depth)
  \/ \E c \in AccessorNames, o \in Operands, r \in Regions :
       DeclareAccessor(c, o, r)
  \/ \E d, s \in Operands : Assign(d, s)
  \/ \E d \in Operands, a \in HostArrays : AssignArray(d, a)
  \/ \E d \in Operands, n \in ImageNames : AssignData(d, n)
  \/ \E n \in ImageNames : Data(n)
  \/ \E ps \in SUBSET PyramidNames : Traverse(ps)
  \/ \E loop \in 1 .. MaxLoop : Recurse(loop)
  \/ Return

Spec == Init /\ [][Next]_dslVars
==============================================================================
