---------------------------- MODULE BorderPadding ----------------------------
(***************************************************************************)
(* Border handling of the filter library: which row or column of a window  *)
(* replaces one that lies outside the image (getNewCoords), and what the   *)
(* border conditions of the DSL promise.                                   *)
(***************************************************************************)
EXTENDS Integers

GetNewCoordsShifted(padding, i, kernel, offset, pos, size) ==
  IF pos >= offset /\ pos < kernel - 1     \* mutant: mirrors the edge
  THEN LET border == kernel - 1 - pos IN
       IF i >= border THEN i
       ELSE IF padding = "CLAMP" THEN border ELSE border + (border - i)
  ELSE i

(* getNewCoords: which row or column of the window stands in for i when    *)
(* the window's last row or column is at pos in an image of this size.     *)
GetNewCoords(padding, i, kernel, offset, pos, size) ==
  IF pos >= offset /\ pos < kernel - 1
  THEN LET border == kernel - 1 - pos
           d2b    == border - i
       IN IF i >= border THEN i
          ELSE CASE padding = "CLAMP"      -> border
                 [] padding = "MIRROR"     -> border + d2b - 1
                 [] padding = "MIRROR_101" -> border + d2b
  ELSE IF pos >= size
  THEN LET border == kernel - (pos - (size - 1)) - 1
           d2b    == i - border
       IN IF i <= border THEN i
          ELSE CASE padding = "CLAMP"      -> border
                 [] padding = "MIRROR"     -> border - d2b + 1
                 [] padding = "MIRROR_101" -> border - d2b
  ELSE i

(* Reading outside the window array yields anything.                       *)
At(f, i, junk) == IF i \in DOMAIN f THEN f[i] ELSE junk

(* The second pass of the border handling exchanges the rows of the window *)
(* in place, from the first to the last: row i becomes what row from[i]    *)
(* then holds.                                                             *)
RowsInPlace(w, from, junk) ==
  LET done[i \in DOMAIN w] ==
        IF from[i] \in DOMAIN w /\ from[i] < i THEN done[from[i]]
                                               ELSE At(w, from[i], junk)
  IN done

-----------------------------------------------------------------------------
Min2(a, b) == IF a < b THEN a ELSE b
Max2(a, b) == IF a > b THEN a ELSE b

(* The image coordinate that stands in for coordinate x of an image of     *)
(* this size: the border conditions as the DSL defines them.               *)
Pad(padding, x, size) ==
  CASE padding = "CLAMP"      -> Max2(0, Min2(x, size - 1))
    [] padding = "MIRROR"     -> IF x < 0 THEN -x - 1
                                 ELSE IF x >= size THEN 2 * size - x - 1
                                 ELSE x
    [] padding = "MIRROR_101" -> IF x < 0 THEN -x
                                 ELSE IF x >= size THEN 2 * size - x - 2
                                 ELSE x
=============================================================================
