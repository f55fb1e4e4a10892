--------------------------- MODULE MCBorderRegions ---------------------------
(***************************************************************************)
(* Launches for TLC.  MCLaunch crosses the geometries in which a border    *)
(* lies inside, at the edge of or between blocks with the boundary modes,  *)
(* the shapes of the mask and the two ways to read; geometries the printed *)
(* code does not handle (Supported) are left out.                          *)
(***************************************************************************)
EXTENDS BorderRegions

Shape == {<<1, 1>>, <<3, 1>>, <<1, 3>>, <<3, 3>>, <<5, 3>>}

\* bx, by, ppt
Blocks == {<<2, 1, 1>>, <<3, 1, 2>>, <<3, 2, 1>>, <<4, 2, 2>>}

\* w, h, ox, oy, aw, ah, ax, ay
Regions == { <<10, 9, 0, 0, 10, 9, 0, 0>>, <<12, 8, 0, 0, 12, 8, 0, 0>>,
             <<11, 12, 1, 2, 11, 12, 0, 0>>, <<10, 12, 3, 1, 10, 12, 2, 1>> }

Base == [gpu: BOOLEAN, mode: Modes, nn: {FALSE}, shared: BOOLEAN,
         s: Shape, b: Blocks, r: Regions]

FullLaunch(c) ==
    [gpu |-> c.gpu, mode |-> c.mode, nn |-> c.nn, shared |-> c.shared,
     sx |-> c.s[1], sy |-> c.s[2], bx |-> c.b[1], by |-> c.b[2], ppt |-> c.b[3],
     w |-> c.r[1], h |-> c.r[2], ox |-> c.r[3], oy |-> c.r[4],
     aw |-> c.r[5], ah |-> c.r[6], ax |-> c.r[7], ay |-> c.r[8],
     anyOrder |-> FALSE]

\* the block is of no concern to the loop on the CPU
OneCPULaunch(l) == l.gpu \/ l.bx = 2

Crossed ==
    {l \in {FullLaunch(c) : c \in Base} :
        OneCPULaunch(l) /\ Supported(l)}

\* a few blocks whose threads run in any order
Staging ==
    {[gpu |-> TRUE, mode |-> m, nn |-> FALSE, shared |-> TRUE, sx |-> 3, sy |-> 3,
      bx |-> 3, by |-> 2, ppt |-> 1, w |-> 10, h |-> 9, ox |-> 0, oy |-> 0,
      aw |-> 10, ah |-> 9, ax |-> 0, ay |-> 0, anyOrder |-> TRUE] :
        m \in {"MIRROR", "CONSTANT"}}

\* accessors that scale: the index is rounded towards 0, before the offset is
\* added in a kernel and afterwards in the DSL, so masks need offset 0
Scaling ==
    {[gpu |-> TRUE, mode |-> m, nn |-> TRUE, shared |-> sh, sx |-> 3, sy |-> 3,
      bx |-> 2, by |-> 2, ppt |-> 1, w |-> 10, h |-> 8, ox |-> 3, oy |-> 1,
      aw |-> aw, ah |-> 12, ax |-> 0, ay |-> 0, anyOrder |-> FALSE] :
        m \in Modes \ {"UNDEFINED"}, sh \in {FALSE}, aw \in {5, 15}}
    \cup
    {[gpu |-> TRUE, mode |-> "UNDEFINED", nn |-> TRUE, shared |-> FALSE,
      sx |-> 1, sy |-> 1, bx |-> 4, by |-> 1, ppt |-> 2, w |-> 10, h |-> 9,
      ox |-> 3, oy |-> 1, aw |-> 5, ah |-> 12, ax |-> 2, ay |-> 1,
      anyOrder |-> FALSE]}

MCLaunch == Crossed \cup Staging \cup Scaling

MCMinBlockX == 3

MCWordRange == 2^16
==============================================================================
