---------------------------- MODULE MCReduction ----------------------------
(* An image of 7x4 pixels in rows of 9, reduced whole and in parts.  For   *)
(* the last four parts a thread has no pixel to start with.                *)
EXTENDS Reduction

Part(x, y, width, height) == [x |-> x, y |-> y, width |-> width, height |-> height]

Parts == {Part(0, 0, 7, 4), Part(1, 1, 5, 3), Part(2, 1, 3, 2),
          Part(2, 0, 4, 4), Part(0, 1, 5, 3), Part(1, 1, 3, 3), Part(1, 1, 1, 3)}

(* An image of 8x8 pixels, for fewer partial results than threads.         *)
Whole == {Part(0, 0, 8, 8)}
=============================================================================
