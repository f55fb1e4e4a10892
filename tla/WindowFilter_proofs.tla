------------------------ MODULE WindowFilter_proofs ------------------------
(***************************************************************************)
(* Theorems about WindowFilter: the operators filter images of every size  *)
(* with windows of every size.                                             *)
(***************************************************************************)
EXTENDS WindowFilter, TLAPS

Paddings == {"CLAMP", "MIRROR", "MIRROR_101"}

-----------------------------------------------------------------------------
(* Border handling.  Slot i of a window whose last slot is at pos shows    *)
(* image coordinate pos - 2n + i.  The slot getNewCoords picks for it lies *)
(* in the window and shows the coordinate the padding asks for, which has  *)
(* been read.                                                              *)
LEMMA SlotIsPadded ==
  ASSUME NEW n \in Nat, NEW size \in Nat \ {0}, size >= 2 * n,
         NEW padding \in Paddings,
         NEW pos \in n..(size + n - 1), NEW i \in 0..(2 * n)
  PROVE  LET g == GetNewCoords(padding, i, 2 * n + 1, n, pos, size) IN
         /\ g \in 0..(2 * n)
         /\ pos - 2 * n + g = Pad(padding, pos - n + i - n, size)
         /\ pos - 2 * n + g \in 0..(size - 1)
  BY DEF GetNewCoords, Pad, Paddings, Min2, Max2

(* A slot that is picked for a later one keeps its contents, ...           *)
LEMMA PickedSlotStays ==
  ASSUME NEW n \in Nat, NEW size \in Nat, NEW padding \in Paddings,
         NEW pos \in Nat, NEW i \in 0..(2 * n),
         NEW g, g = GetNewCoords(padding, i, 2 * n + 1, n, pos, size)
  PROVE  /\ g \in Int
         /\ g < i => GetNewCoords(padding, g, 2 * n + 1, n, pos, size) = g
  BY DEF GetNewCoords, Paddings

(* ... so the rows can be exchanged in place.                              *)
LEMMA InPlaceIsParallel ==
  ASSUME NEW N \in Nat, NEW w, DOMAIN w = 0..N,
         NEW from \in [0..N -> Int],
         \A i \in 0..N :
           from[i] \in 0..N /\ from[i] < i => from[from[i]] = from[i],
         NEW junk
  PROVE  RowsInPlace(w, from, junk) = [i \in 0..N |-> At(w, from[i], junk)]
  <1> DEFINE F(d) == [i \in DOMAIN w |->
                 IF from[i] \in DOMAIN w /\ from[i] < i THEN d[from[i]]
                                               ELSE At(w, from[i], junk)]
             g == [i \in 0..N |-> At(w, from[i], junk)]
             d == RowsInPlace(w, from, junk)
  <1>1. g = F(g)
    OBVIOUS
  <1>2. d = CHOOSE e : e = F(e)
    BY DEF RowsInPlace
  <1>3. d = F(d)
    BY <1>1, <1>2
  <1> HIDE DEF d
  <1>4. ASSUME NEW i \in 0..N, ~(from[i] \in 0..N /\ from[i] < i)
        PROVE  d[i] = At(w, from[i], junk)
    BY <1>3, <1>4
  <1>5. ASSUME NEW i \in 0..N, from[i] \in 0..N, from[i] < i
        PROVE  d[i] = At(w, from[i], junk)
    <2>1. from[from[i]] = from[i] /\ ~(from[from[i]] < from[i])
      BY <1>5
    <2>2. d[from[i]] = At(w, from[i], junk)
      BY <1>4, <1>5, <2>1
    <2>3. d[i] = d[from[i]]
      BY <1>3, <1>5
    <2> QED
      BY <2>2, <2>3
  <1>6. \A i \in 0..N : d[i] = At(w, from[i], junk)
    BY <1>4, <1>5
  <1>7. d = [i \in 0..N |-> d[i]]
    BY <1>3
  <1>8. d = [i \in 0..N |-> At(w, from[i], junk)]
    BY <1>6, <1>7
  <1> QED
    BY <1>8 DEF d

-----------------------------------------------------------------------------
(* Counting.                                                               *)
LEMMA DivMod ==
  ASSUME NEW w \in Nat \ {0}, NEW q \in Nat, NEW r \in 0..(w - 1)
  PROVE  (q * w + r) \div w = q /\ (q * w + r) % w = r
  OBVIOUS

(* The pixel at column c of row r is in the image, and read.               *)
IsRead(f, w, h, r, c) == r < h /\ c < w /\ (f = 2 => r % 2 = 1 /\ c % 2 = 1)

(* Pixels before column c of row r of a w by h image, in raster order; of  *)
(* an upsampled image, those that are read.                                *)
ReadUpTo(f, w, h, r, c) ==
  LET rows == Min2(r, h)
      cols == IF r < h THEN Min2(c, w) ELSE 0
  IN IF f = 2 THEN (rows \div 2) * (w \div 2)
                  + (IF rows % 2 = 1 THEN cols \div 2 ELSE 0)
     ELSE rows * w + cols

(* Pixels of the loop's rows of w pixels before column x of row y; of a    *)
(* downsampled image, those that are retained.                             *)
WrittenUpTo(down, w, y, x) ==
  IF y < 0 THEN 0
  ELSE IF down THEN ((y + 1) \div 2) * ((w + 1) \div 2)
                      + (IF y % 2 = 0 THEN (Max2(x, 0) + 1) \div 2 ELSE 0)
  ELSE y * w + Max2(x, 0)

LEMMA OneMore ==
  ASSUME NEW q \in Nat, NEW w \in Nat
  PROVE  /\ q * w \in Nat
         /\ (q + 1) * w = q * w + w
  OBVIOUS

LEMMA Product ==
  ASSUME NEW a \in Nat, NEW A \in Nat, a <= A, NEW b \in Nat, NEW B \in Nat,
         b <= B
  PROVE  a * b \in Nat /\ A * B \in Nat /\ a * b <= A * B
  OBVIOUS

LEMMA ReadStep ==
  ASSUME NEW f \in {1, 2}, NEW w \in Nat \ {0}, NEW h \in Nat \ {0},
         NEW r \in Nat, NEW c \in Nat, NEW e, e = c + 1
  PROVE  ReadUpTo(f, w, h, r, e) =
           ReadUpTo(f, w, h, r, c) + (IF IsRead(f, w, h, r, c) THEN 1 ELSE 0)
  <1>1. CASE f = 1
    <2>1. r * w \in Nat /\ (r + 1) * w = r * w + w
      BY OneMore
    <2> QED
      BY <1>1, <2>1 DEF ReadUpTo, Min2, IsRead
  <1>2. CASE f = 2
    <2>1. r \div 2 \in Nat /\ w \div 2 \in Nat
      OBVIOUS
    <2>2. /\ (r \div 2) * (w \div 2) \in Nat
          /\ (r \div 2 + 1) * (w \div 2) = (r \div 2) * (w \div 2) + (w \div 2)
      BY <2>1, OneMore
    <2>3. (r + 1) \div 2 = IF r % 2 = 1 THEN r \div 2 + 1 ELSE r \div 2
      OBVIOUS
    <2>4. (c + 1) \div 2 = IF c % 2 = 1 THEN c \div 2 + 1 ELSE c \div 2
      OBVIOUS
    <2> QED
      BY <1>2, <2>1, <2>2, <2>3, <2>4 DEF ReadUpTo, Min2, IsRead
  <1> QED
    BY <1>1, <1>2

LEMMA ReadRow ==
  ASSUME NEW f \in {1, 2}, NEW w \in Nat \ {0}, NEW h \in Nat \ {0},
         NEW r \in Nat, NEW c \in Nat, NEW q \in Nat, q = r + 1
  PROVE  c >= w => ReadUpTo(f, w, h, q, 0) = ReadUpTo(f, w, h, r, c)
  <1>1. CASE f = 1
    <2>1. r * w \in Nat /\ (r + 1) * w = r * w + w
      BY OneMore
    <2> QED
      BY <1>1, <2>1 DEF ReadUpTo, Min2, IsRead
  <1>2. CASE f = 2
    <2>1. r \div 2 \in Nat /\ w \div 2 \in Nat
      OBVIOUS
    <2>2. /\ (r \div 2) * (w \div 2) \in Nat
          /\ (r \div 2 + 1) * (w \div 2) = (r \div 2) * (w \div 2) + (w \div 2)
      BY <2>1, OneMore
    <2>3. (r + 1) \div 2 = IF r % 2 = 1 THEN r \div 2 + 1 ELSE r \div 2
      OBVIOUS
    <2> QED
      BY <1>2, <2>1, <2>2, <2>3 DEF ReadUpTo, Min2, IsRead
  <1> QED
    BY <1>1, <1>2

LEMMA WriteStep ==
  ASSUME NEW down \in BOOLEAN, NEW w \in Nat \ {0}, NEW y \in Int, NEW x \in Int,
         x < w, NEW e, e = x + 1
  PROVE  /\ WrittenUpTo(down, w, y, e) =
              WrittenUpTo(down, w, y, x)
                + (IF y >= 0 /\ x >= 0 /\ (down => y % 2 = 0 /\ x % 2 = 0)
                   THEN 1 ELSE 0)
         /\ e = w => \A z \in Int : z <= 0 =>
              WrittenUpTo(down, w, y + 1, z) = WrittenUpTo(down, w, y, e)
  <1>1. CASE y < 0
    BY <1>1 DEF WrittenUpTo, Max2
  <1>2. CASE y >= 0 /\ ~down
    <2>1. y * w \in Nat /\ (y + 1) * w = y * w + w
      BY <1>2, OneMore
    <2> QED
      BY <1>2, <2>1 DEF WrittenUpTo, Max2
  <1>3. CASE y >= 0 /\ down
    <2> DEFINE q == (y + 1) \div 2
               v == (w + 1) \div 2
    <2>1. q \in Nat /\ v \in Nat
      BY <1>3
    <2>2. q * v \in Nat /\ (q + 1) * v = q * v + v
      BY <2>1, OneMore
    <2>3. (y + 2) \div 2 = IF y % 2 = 0 THEN q + 1 ELSE q
      BY <1>3
    <2>4. (y + 1) + 1 = y + 2 /\ (y + 1) % 2 = 1 - (y % 2)
      BY <1>3
    <2>5. x >= 0 => (x + 2) \div 2 = IF x % 2 = 0 THEN (x + 1) \div 2 + 1
                                                  ELSE (x + 1) \div 2
      OBVIOUS
    <2> QED
      BY <1>3, <2>1, <2>2, <2>3, <2>4, <2>5 DEF WrittenUpTo, Max2
  <1> QED
    BY <1>1, <1>2, <1>3

LEMMA ReadBound ==
  ASSUME NEW f \in {1, 2}, NEW w \in Nat \ {0}, NEW h \in Nat \ {0},
         NEW W \in Nat, NEW H \in Nat, w <= W, h <= H, NEW r \in Nat, NEW c \in Nat
  PROVE  /\ ReadUpTo(f, w, h, r, c) \in 0..(W * H)
         /\ IsRead(f, w, h, r, c) => ReadUpTo(f, w, h, r, c) < W * H
  <1>1. w * h \in Nat /\ W * H \in Nat /\ w * h <= W * H
    BY Product
  <1>2. CASE f = 1
    <2>1. r < h => (r + 1) * w \in Nat /\ (r + 1) * w = r * w + w
                   /\ r * w \in Nat /\ (r + 1) * w <= h * w
      BY OneMore, Product
    <2> QED
      BY <1>1, <1>2, <2>1 DEF ReadUpTo, Min2, IsRead
  <1>3. CASE f = 2
    <2> DEFINE q == r \div 2
               v == w \div 2
    <2>1. q \in Nat /\ v \in Nat /\ v <= w
      OBVIOUS
    <2>2. q * v \in Nat /\ (q + 1) * v = q * v + v /\ (q + 1) * v \in Nat
      BY <2>1, OneMore
    <2>3. (h \div 2) * v \in Nat /\ (h \div 2) * v <= h * w
      BY <2>1, Product
    <2>4. r < h => q * v <= h * w
      BY <2>1, Product
    <2>5. r < h /\ r % 2 = 1 => (q + 1) * v <= h * w
      <3>1. r < h /\ r % 2 = 1 => q + 1 <= h
        OBVIOUS
      <3> QED
        BY <2>1, <3>1, Product
    <2>6. c < w /\ c % 2 = 1 => c \div 2 < v
      OBVIOUS
    <2>7. c < w => c \div 2 <= v
      OBVIOUS
    <2> QED
      BY <1>1, <1>3, <2>1, <2>2, <2>3, <2>4, <2>5, <2>6, <2>7
         DEF ReadUpTo, Min2, IsRead
  <1> QED
    BY <1>2, <1>3

LEMMA WrittenBound ==
  ASSUME NEW down \in BOOLEAN, NEW W \in Nat \ {0}, NEW H \in Nat \ {0},
         NEW y \in Int, NEW x \in Int, x <= W, y < H \/ (y = H /\ x <= 0)
  PROVE  WrittenUpTo(down, W, y, x) \in 0..(W * H)
  <1>1. CASE y < 0
    BY <1>1, Product DEF WrittenUpTo
  <1>2. CASE y >= 0 /\ ~down
    <2>1. y < H => /\ y * W \in Nat /\ (y + 1) * W = y * W + W
                   /\ (y + 1) * W <= H * W
      BY <1>2, OneMore, Product
    <2>2. W * H = H * W /\ W * H \in Nat
      BY Product
    <2> QED
      BY <1>2, <2>1, <2>2 DEF WrittenUpTo, Max2
  <1>3. CASE y >= 0 /\ down
    <2> DEFINE q == (y + 1) \div 2
               v == (W + 1) \div 2
    <2>1. q \in Nat /\ v \in Nat /\ v <= W /\ q <= H
      BY <1>3
    <2>2. q * v \in Nat /\ (q + 1) * v = q * v + v /\ q * v <= H * W
      BY <2>1, OneMore, Product
    <2>3. y < H /\ y % 2 = 0 => q + 1 <= H
      BY <1>3
    <2>4. y < H /\ y % 2 = 0 => (q + 1) * v <= H * W
      BY <2>1, <2>3, Product
    <2>5. W * H = H * W /\ W * H \in Nat
      BY Product
    <2>6. (Max2(x, 0) + 1) \div 2 \in 0..v
      BY DEF Max2
    <2>7. y = H => (Max2(x, 0) + 1) \div 2 = 0
      BY DEF Max2
    <2> DEFINE e == (Max2(x, 0) + 1) \div 2
    <2>8. WrittenUpTo(down, W, y, x) = q * v + (IF y % 2 = 0 THEN e ELSE 0)
      BY <1>3 DEF WrittenUpTo
    <2>9. y \in Nat /\ y <= H
      BY <1>3
    <2>10. e \in 0..v
      BY <2>6
    <2>11. y = H => e = 0
      BY <2>7
    <2> HIDE DEF q, v, e
    <2>12. CASE y % 2 = 0 /\ y < H
      BY <2>1, <2>2, <2>4, <2>5, <2>8, <2>10, <2>12
    <2>13. CASE ~(y % 2 = 0 /\ y < H)
      <3>1. WrittenUpTo(down, W, y, x) = q * v
        BY <2>2, <2>8, <2>9, <2>11, <2>13
      <3> QED
        BY <2>2, <2>5, <3>1
    <2> QED
      BY <2>12, <2>13
  <1> QED
    BY <1>1, <1>2, <1>3

(* The last pixel written before column x + 1 of row y is that of x, y.    *)
LEMMA WrittenIs ==
  ASSUME NEW down \in BOOLEAN, NEW W \in Nat \ {0}, NEW y \in Nat,
         NEW x \in 0..(W - 1), down => y % 2 = 0 /\ x % 2 = 0,
         NEW s \in Nat, s = IF down THEN 2 ELSE 1,
         NEW v \in Nat, v = IF down THEN (W + 1) \div 2 ELSE W,
         NEW n \in Nat, n = WrittenUpTo(down, W, y, x)
  PROVE  s * (n \div v) = y /\ s * (n % v) = x
  <1>1. CASE ~down
    <2>1. s = 1 /\ v = W /\ n = y * W + x
      BY <1>1 DEF WrittenUpTo, Max2
    <2>2. n \div v = y /\ n % v = x
      BY <2>1, DivMod
    <2> QED
      BY <2>1, <2>2
  <1>2. CASE down
    <2> DEFINE q == y \div 2
               r == x \div 2
    <2>1. s = 2 /\ v = (W + 1) \div 2 /\ v \in Nat \ {0}
      BY <1>2
    <2>2. q \in Nat /\ (y + 1) \div 2 = q /\ 2 * q = y
      BY <1>2
    <2>3. r \in 0..(v - 1) /\ (x + 1) \div 2 = r /\ 2 * r = x
      BY <1>2, <2>1
    <2>4. n = q * v + r
      BY <1>2, <2>1, <2>2, <2>3 DEF WrittenUpTo, Max2
    <2> HIDE DEF q, r
    <2>5. (q * v + r) \div v = q /\ (q * v + r) % v = r
      <3>1. v \in Nat \ {0} /\ q \in Nat /\ r \in 0..(v - 1)
        BY <2>1, <2>2, <2>3
      <3> QED
        BY ONLY <3>1, DivMod
    <2>6. n \div v = q /\ n % v = r
      BY <2>4, <2>5
    <2> QED
      BY <2>1, <2>2, <2>3, <2>6
  <1> QED
    BY <1>1, <1>2

-----------------------------------------------------------------------------
(* The inductive invariant.                                                *)

IsUp   == call.op = "upsample"
Factor == IF IsUp THEN 2 ELSE 1
IsDown == call.op = "downsample"

(* A loop runs over whole rows.                                            *)
LoopOK ==
  /\ IsPoint => col < call.width + GDelayX
  /\ Running \/ (col = 0 /\ row = IF IsPoint THEN call.height
                                  ELSE MaxHeight + GDelayY)

(* The streams are where the loop is.                                      *)
CountOK ==
  /\ reads = ReadUpTo(Factor, call.width, call.height, row, col)
  /\ writes = IF IsPoint THEN reads
              ELSE WrittenUpTo(IsDown, MaxWidth, row - GDelayY, col - GDelayX)

InPicture(y, x) == y \in 0..(call.height - 1) /\ x \in 0..(call.width - 1)

(* The line buffer holds the newest lines of the image.                    *)
LineOf(i, c) == (IF c < col THEN row ELSE row - 1) - (KernelY - 2 - i)

LinesOK ==
  ~IsPoint /\ row < call.height + GDelayY =>
    \A p \in Inputs : \A i \in 0..(KernelY - 2) : \A c \in 0..(call.width - 1) :
      InPicture(LineOf(i, c), c) =>
        lineBuff[p][i][c] = ImagePixel(p, LineOf(i, c), c)

(* A window that has just taken in pixel x of line y, or the place where   *)
(* that would be, shows the image around.                                  *)
Shows(w, p, y, x) ==
  \A i \in Rows : \A j \in Cols :
    InPicture(y - (KernelY - 1) + i, x - (KernelX - 1) + j) =>
      w[i][j] = ImagePixel(p, y - (KernelY - 1) + i, x - (KernelX - 1) + j)

WindowsOK ==
  ~IsPoint /\ row < call.height + GDelayY /\ col <= call.width + GDelayX =>
    \A p \in Inputs : Shows(winTmp[p], p, row, col - 1)

IInv ==
  TypeOK /\ LoopOK /\ CountOK /\ LinesOK /\ WindowsOK /\ OutputIsFilteredImage

-----------------------------------------------------------------------------
LEMMA CallFacts ==
  ASSUME call \in Call
  PROVE  /\ GDelayX \in Nat /\ KernelX = 2 * GDelayX + 1
         /\ GDelayY \in Nat /\ KernelY = 2 * GDelayY + 1
         /\ MaxWidth \in Nat \ {0} /\ MaxHeight \in Nat \ {0}
         /\ call.width \in 1..MaxWidth /\ call.height \in 1..MaxHeight
         /\ call.padding \in Paddings
         /\ ~IsPoint => call.width >= 2 * GDelayX /\ call.height >= 2 * GDelayY
         /\ IsUp \/ IsDown => GDelayX = GDelayY /\ call.factor = 2
         /\ IsUp \/ IsDown => ~IsPoint
         /\ ~(IsUp /\ IsDown)
  <1>1. PICK m \in Nat, n \in Nat : KernelX = 2 * m + 1 /\ KernelY = 2 * n + 1
    <2>1. /\ KernelX \in Nat /\ KernelX % 2 = 1
          /\ KernelY \in Nat /\ KernelY % 2 = 1
      BY KernelSizeIsOdd DEF KernelX, KernelY
    <2>2. \A k \in Nat : k % 2 = 1 => k \div 2 \in Nat /\ k = 2 * (k \div 2) + 1
      OBVIOUS
    <2> QED
      BY <2>1, <2>2
  <1>2. GDelayX = m /\ GDelayY = n
    BY <1>1 DEF GDelayX, GDelayY
  <1>3. call.width \in 1..MaxWidth /\ call.height \in 1..MaxHeight
    BY ImageFits
  <1>4. ~IsPoint => call.width >= KernelX - 1 /\ call.height >= KernelY - 1
    BY ImageCoversWindow DEF IsPoint, KernelX, KernelY
  <1>5. IsUp \/ IsDown => KernelX = KernelY /\ call.factor = 2
    BY FactorIsTwo, PyramidWindowIsSquare DEF IsUp, IsDown, KernelX, KernelY
  <1>6. (IsUp \/ IsDown => ~IsPoint) /\ ~(IsUp /\ IsDown)
    BY DEF IsUp, IsDown, IsPoint
  <1>7. call.padding \in Paddings
    BY PaddingIsKnown DEF Paddings
  <1>8. MaxWidth \in Nat \ {0} /\ MaxHeight \in Nat \ {0}
    BY SizesArePositive
  <1> QED
    BY <1>1, <1>2, <1>3, <1>4, <1>5, <1>6, <1>7, <1>8

-----------------------------------------------------------------------------
(* The window handed to the filter: rows and columns are exchanged at the   *)
(* same time.                                                              *)
Slot(padding, n, pos, size) ==
  [i \in 0..(2 * n) |-> GetNewCoords(padding, i, 2 * n + 1, n, pos, size)]

LEMMA BorderIsParallel ==
  ASSUME call \in Call, row \in Nat, NEW w \in Window
  PROVE  BorderY(BorderX(w)) =
           [i \in Rows |->
              At([r \in Rows |->
                    [j \in Cols |->
                       At(w[r], Slot(call.padding, GDelayX, col, call.width)[j],
                          Junk)]],
                 Slot(call.padding, GDelayY, row, call.height)[i],
                 [j \in Cols |-> Junk])]
  <1>1. PICK m, n, gx, gy, b, junk :
          /\ m = GDelayX /\ n = GDelayY
          /\ gx = Slot(call.padding, m, col, call.width)
          /\ gy = Slot(call.padding, n, row, call.height)
          /\ b = BorderX(w) /\ junk = [j \in Cols |-> Junk]
    OBVIOUS
  <1>2. /\ m \in Nat /\ KernelX = 2 * m + 1 /\ Cols = 0..(2 * m)
        /\ n \in Nat /\ KernelY = 2 * n + 1 /\ Rows = 0..(2 * n)
        /\ call.height \in Nat /\ call.padding \in Paddings
    BY <1>1, CallFacts DEF Rows, Cols
  <1>3. b = [r \in Rows |-> [j \in Cols |-> At(w[r], gx[j], Junk)]]
    BY <1>1, <1>2 DEF BorderX, Slot
  <1>4. BorderY(b) = RowsInPlace(b, gy, junk)
    BY <1>1, <1>2 DEF BorderY, Slot
  <1>5. ASSUME NEW i \in 0..(2 * n)
        PROVE  /\ gy[i] \in Int
               /\ gy[i] \in 0..(2 * n) /\ gy[i] < i => gy[gy[i]] = gy[i]
    <2>1. gy[i] = GetNewCoords(call.padding, i, 2 * n + 1, n, row, call.height)
      BY <1>1 DEF Slot
    <2>2. /\ gy[i] \in Int
          /\ gy[i] < i =>
               GetNewCoords(call.padding, gy[i], 2 * n + 1, n, row, call.height) = gy[i]
      <3>1. PICK g, size, padding, pos :
              /\ g = gy[i] /\ size = call.height
              /\ padding = call.padding /\ pos = row
        OBVIOUS
      <3>2. g = GetNewCoords(padding, i, 2 * n + 1, n, pos, size)
        BY <2>1, <3>1
      <3>3. size \in Nat /\ padding \in Paddings /\ pos \in Nat /\ n \in Nat
        BY <1>2, <3>1
      <3>4. g \in Int /\ (g < i => GetNewCoords(padding, g, 2 * n + 1, n, pos, size) = g)
        BY <3>2, <3>3, PickedSlotStays
      <3> QED
        BY <3>1, <3>4
    <2>3. \A r \in 0..(2 * n) :
            gy[r] = GetNewCoords(call.padding, r, 2 * n + 1, n, row, call.height)
      BY <1>1 DEF Slot
    <2> QED
      BY <2>2, <2>3
  <1>6. gy \in [0..(2 * n) -> Int]
    BY <1>1, <1>5 DEF Slot
  <1>7. PICK N : N = 2 * n
    OBVIOUS
  <1>8. RowsInPlace(b, gy, junk) = [i \in 0..N |-> At(b, gy[i], junk)]
    <2>1. N \in Nat /\ DOMAIN b = 0..N /\ gy \in [0..N -> Int]
      BY <1>2, <1>3, <1>6, <1>7
    <2>2. \A i \in 0..N :
            gy[i] \in 0..N /\ gy[i] < i => gy[gy[i]] = gy[i]
      BY <1>5, <1>7
    <2> QED
      BY <2>1, <2>2, InPlaceIsParallel
  <1> QED
    BY <1>1, <1>2, <1>3, <1>4, <1>7, <1>8

LEMMA BorderedType ==
  ASSUME call \in Call, row \in Nat, NEW w \in Window
  PROVE  BorderY(BorderX(w)) \in Window
  <1>1. PICK gx, gy, b :
          /\ gx = Slot(call.padding, GDelayX, col, call.width)
          /\ gy = Slot(call.padding, GDelayY, row, call.height)
          /\ b = [r \in Rows |-> [j \in Cols |-> At(w[r], gx[j], Junk)]]
    OBVIOUS
  <1>2. \A r \in Rows : \A j \in Cols : At(w[r], gx[j], Junk) \in Pixel
    BY DEF At, Window, Pixel
  <1>3. b \in Window /\ [j \in Cols |-> Junk] \in [Cols -> Pixel]
    BY <1>1, <1>2 DEF Window, Pixel
  <1>4. \A i \in Rows : At(b, gy[i], [j \in Cols |-> Junk]) \in [Cols -> Pixel]
    BY <1>3 DEF At, Window
  <1>5. BorderY(BorderX(w)) = [i \in Rows |-> At(b, gy[i], [j \in Cols |-> Junk])]
    BY <1>1, BorderIsParallel
  <1> QED
    BY <1>4, <1>5 DEF Window

LEMMA BorderedWindow ==
  ASSUME call \in Call, ~IsPoint, NEW p, NEW w \in Window,
         row \in GDelayY..(call.height + GDelayY - 1),
         col \in GDelayX..(call.width + GDelayX - 1),
         Shows(w, p, row, col)
  PROVE  BorderY(BorderX(w)) = Neighbourhood(p, row - GDelayY, col - GDelayX)
  <1>1. PICK m, n, width, height, padding :
          /\ m = GDelayX /\ n = GDelayY
          /\ width = call.width /\ height = call.height /\ padding = call.padding
    OBVIOUS
  <1>2. /\ m \in Nat /\ KernelX = 2 * m + 1 /\ Cols = 0..(2 * m)
        /\ n \in Nat /\ KernelY = 2 * n + 1 /\ Rows = 0..(2 * n)
        /\ width \in Nat \ {0} /\ width >= 2 * m
        /\ height \in Nat \ {0} /\ height >= 2 * n
        /\ padding \in Paddings
        /\ col \in m..(width + m - 1) /\ row \in n..(height + n - 1)
    <2>1. /\ m \in Nat /\ KernelX = 2 * m + 1
          /\ n \in Nat /\ KernelY = 2 * n + 1
          /\ MaxWidth \in Nat /\ MaxHeight \in Nat
          /\ width \in 1..MaxWidth /\ height \in 1..MaxHeight
          /\ width >= 2 * m /\ height >= 2 * n
          /\ padding \in Paddings
      BY <1>1, CallFacts
    <2>2. Cols = 0..(2 * m) /\ Rows = 0..(2 * n)
      BY <2>1 DEF Cols, Rows
    <2> QED
      BY <1>1, <2>1, <2>2
  <1>3. PICK gx, gy :
          /\ gx = Slot(padding, m, col, width)
          /\ gy = Slot(padding, n, row, height)
    OBVIOUS
  <1>4. ASSUME NEW j \in 0..(2 * m)
        PROVE  /\ gx[j] \in 0..(2 * m)
               /\ col - 2 * m + gx[j] = Pad(padding, col - m + j - m, width)
               /\ col - 2 * m + gx[j] \in 0..(width - 1)
    <2>1. gx[j] = GetNewCoords(padding, j, 2 * m + 1, m, col, width)
      BY <1>3 DEF Slot
    <2> QED
      BY <1>2, <2>1, SlotIsPadded
  <1>5. ASSUME NEW i \in 0..(2 * n)
        PROVE  /\ gy[i] \in 0..(2 * n)
               /\ row - 2 * n + gy[i] = Pad(padding, row - n + i - n, height)
               /\ row - 2 * n + gy[i] \in 0..(height - 1)
    <2>1. gy[i] = GetNewCoords(padding, i, 2 * n + 1, n, row, height)
      BY <1>3 DEF Slot
    <2> QED
      BY <1>2, <2>1, SlotIsPadded
  <1>6. PICK b, f, junk :
          /\ b = [r \in 0..(2 * n) |-> [j \in 0..(2 * m) |-> At(w[r], gx[j], Junk)]]
          /\ f = BorderY(BorderX(w)) /\ junk = [j \in 0..(2 * m) |-> Junk]
    OBVIOUS
  <1>7. b = [i \in 0..(2 * n) |-> [j \in 0..(2 * m) |-> w[i][gx[j]]]]
    <2>1. \A i \in 0..(2 * n) : DOMAIN w[i] = 0..(2 * m)
      BY <1>2 DEF Window
    <2>2. \A i \in 0..(2 * n) : \A j \in 0..(2 * m) :
            At(w[i], gx[j], Junk) = w[i][gx[j]]
      BY <1>4, <2>1 DEF At
    <2> QED
      BY <1>6, <2>2
  <1>8. f = [i \in 0..(2 * n) |-> At(b, gy[i], junk)]
    <2>1. row \in Nat
      BY <1>2
    <2>2. /\ gx = Slot(call.padding, GDelayX, col, call.width)
          /\ gy = Slot(call.padding, GDelayY, row, call.height)
          /\ Rows = 0..(2 * n) /\ Cols = 0..(2 * m)
      BY <1>1, <1>2, <1>3
    <2> QED
      BY <1>6, <2>1, <2>2, BorderIsParallel
  <1>9. f = [i \in 0..(2 * n) |-> [j \in 0..(2 * m) |-> w[gy[i]][gx[j]]]]
    <2>1. \A i \in 0..(2 * n) : At(b, gy[i], junk) = [j \in 0..(2 * m) |-> w[gy[i]][gx[j]]]
      BY <1>5, <1>7 DEF At
    <2> QED
      BY <1>8, <2>1
  <1>10. ASSUME NEW i \in 0..(2 * n), NEW j \in 0..(2 * m)
         PROVE  w[gy[i]][gx[j]] =
                  ImagePixel(p, Pad(padding, row - n + i - n, height),
                                Pad(padding, col - m + j - m, width))
    <2>1. PICK y, x : /\ y = row - (KernelY - 1) + gy[i]
                      /\ x = col - (KernelX - 1) + gx[j]
      OBVIOUS
    <2>2. gy[i] \in Rows /\ gx[j] \in Cols
      BY <1>2, <1>4, <1>5
    <2>3. y = row - 2 * n + gy[i] /\ x = col - 2 * m + gx[j]
      BY <1>2, <2>1, <2>2
    <2>4. InPicture(y, x)
      BY <1>1, <1>4, <1>5, <2>3 DEF InPicture
    <2>5. w[gy[i]][gx[j]] = ImagePixel(p, y, x)
      BY <2>1, <2>2, <2>4 DEF Shows
    <2> QED
      BY <1>4, <1>5, <2>3, <2>5
  <1>11. Neighbourhood(p, row - n, col - m) =
           [i \in 0..(2 * n) |-> [j \in 0..(2 * m) |->
              ImagePixel(p, Pad(padding, row - n + i - n, height),
                            Pad(padding, col - m + j - m, width))]]
    BY <1>1, <1>2 DEF Neighbourhood
  <1>12. f = Neighbourhood(p, row - n, col - m)
    BY <1>9, <1>10, <1>11
  <1> QED
    BY <1>1, <1>6, <1>12

-----------------------------------------------------------------------------
(* One iteration of the shared loop.                                       *)

LEMMA InputType ==
  ASSUME call \in Call
  PROVE  Inputs \subseteq {1, 2, 3}
  BY StreamsOfPoints DEF Inputs

(* The call stays, and with it all that depends on it alone.               *)
LEMMA CallStays ==
  ASSUME call' = call
  PROVE  /\ KernelX' = KernelX /\ KernelY' = KernelY
         /\ GDelayX' = GDelayX /\ GDelayY' = GDelayY
         /\ Rows' = Rows /\ Cols' = Cols
         /\ Inputs' = Inputs /\ Window' = Window
         /\ IsPoint' = IsPoint /\ IsUp' = IsUp /\ IsDown' = IsDown
         /\ \A y, x : InPicture(y, x)' = InPicture(y, x)
         /\ \A p, y, x : ImagePixel(p, y, x)' = ImagePixel(p, y, x)
         /\ \A p, y, x : Neighbourhood(p, y, x)' = Neighbourhood(p, y, x)
  <1> USE DEF KernelX, KernelY, GDelayX, GDelayY, Rows, Cols, Inputs, Window,
              IsPoint, IsUp, IsDown, InPicture, ImagePixel
  <1>1. \A p, y, x : ImagePixel(p, y, x)' = ImagePixel(p, y, x)
    OBVIOUS
  <1>2. \A p, y, x : Neighbourhood(p, y, x)' = Neighbourhood(p, y, x)
    BY DEF Neighbourhood
  <1>3. \A y, x : InPicture(y, x)' = InPicture(y, x)
    OBVIOUS
  <1> QED
    BY <1>1, <1>2, <1>3

(* The window slides over the image by one column.                         *)
LEMMA WindowSlides ==
  ASSUME IInv, ~IsPoint, NEW px \in [Inputs -> Pixel],
         InImage => \A p \in Inputs : px[p] = ImagePixel(p, row, col),
         row < call.height + GDelayY, col < call.width + GDelayX,
         NEW p \in Inputs
  PROVE  Shows(Loaded(Shifted(winTmp[p]), lineBuff[p], px[p]), p, row, col)
  <1>1. PICK m, n, w, h, r, c :
          /\ m = GDelayX /\ n = GDelayY /\ w = call.width /\ h = call.height
          /\ r = row /\ c = col
    OBVIOUS
  <1>2. /\ m \in Nat /\ KernelX = 2 * m + 1 /\ Cols = 0..(2 * m)
        /\ n \in Nat /\ KernelY = 2 * n + 1 /\ Rows = 0..(2 * n)
        /\ w \in Nat \ {0} /\ h \in Nat \ {0}
        /\ r \in Nat /\ c \in Nat /\ r < h + n /\ c < w + m
        /\ MaxWidth \in Nat /\ w <= MaxWidth
    <2>1. call \in Call /\ row \in Nat /\ col \in Nat
      BY CallFacts DEF IInv, TypeOK
    <2> QED
      BY <1>1, <2>1, CallFacts DEF Rows, Cols
  <1>3. PICK old, buff, shifted, new :
          /\ old = winTmp[p] /\ buff = lineBuff[p]
          /\ shifted = Shifted(old) /\ new = Loaded(shifted, buff, px[p])
    OBVIOUS
  <1>4. /\ old \in [Rows -> [Cols -> Pixel]]
        /\ buff \in [0..(2 * n - 1) -> [0..(MaxWidth - 1) -> Pixel]]
    BY <1>2, <1>3 DEF IInv, TypeOK, Window
  <1>5. shifted = [i \in Rows |-> [j \in Cols |-> IF j < 2 * m THEN old[i][j + 1]
                                                            ELSE old[i][j]]]
    BY <1>1, <1>2, <1>3 DEF Shifted
  <1>6. new = IF c < w
              THEN [i \in Rows |-> [shifted[i] EXCEPT ![2 * m] =
                      IF i < 2 * n THEN buff[i][c] ELSE px[p]]]
              ELSE shifted
    <2>1. KernelX - 1 = 2 * m /\ KernelY - 1 = 2 * n
      BY <1>2
    <2>2. Loads <=> c < w
      BY <1>1, <1>2 DEF Loads
    <2>3. new = IF Loads
                THEN [i \in Rows |-> [shifted[i] EXCEPT ![2 * m] =
                        IF i < 2 * n THEN buff[i][c] ELSE px[p]]]
                ELSE shifted
      BY <1>1, <1>3, <2>1 DEF Loaded
    <2> QED
      BY <2>2, <2>3
  <1>7. ASSUME NEW i \in Rows, NEW j \in Cols, NEW y, NEW x,
               y = r - 2 * n + i, x = c - 2 * m + j, InPicture(y, x)
        PROVE  new[i][j] = ImagePixel(p, y, x)
    <2>1. y \in 0..(h - 1) /\ x \in 0..(w - 1)
      BY <1>1, <1>7 DEF InPicture
    <2>2. CASE j < 2 * m
      <3>1. new[i][j] = old[i][j + 1] /\ j + 1 \in Cols
        BY <1>2, <1>5, <1>6, <2>2
      <3>2. Shows(old, p, r, c - 1)
        <4>1. row < call.height + GDelayY /\ col <= call.width + GDelayX
          BY <1>1, <1>2
        <4>2. Shows(winTmp[p], p, row, col - 1)
          BY <4>1 DEF IInv, WindowsOK
        <4> QED
          BY <1>1, <1>3, <4>2
      <3>3. /\ y = r - (KernelY - 1) + i
            /\ x = (c - 1) - (KernelX - 1) + (j + 1)
        BY <1>2, <1>7
      <3>4. old[i][j + 1] = ImagePixel(p, y, x)
        BY <1>7, <3>1, <3>2, <3>3 DEF Shows
      <3> QED
        BY <3>1, <3>4
    <2>3. CASE j = 2 * m /\ i < 2 * n
      <3>1. x = c /\ c < w
        BY <1>2, <1>7, <2>1, <2>3
      <3>2. new[i][j] = buff[i][c]
        BY <1>2, <1>5, <1>6, <2>3, <3>1
      <3>3. i \in 0..(KernelY - 2) /\ c \in 0..(call.width - 1)
        BY <1>1, <1>2, <2>3, <3>1
      <3>4. LineOf(i, c) = y
        BY <1>1, <1>2, <1>7 DEF LineOf
      <3>5. buff[i][c] = ImagePixel(p, y, c)
        <4>1. \A a \in 0..(KernelY - 2) : \A b \in 0..(call.width - 1) :
                InPicture(LineOf(a, b), b) =>
                  lineBuff[p][a][b] = ImagePixel(p, LineOf(a, b), b)
          BY DEF IInv, LinesOK
        <4>2. InPicture(LineOf(i, c), c)
          BY <1>7, <3>1, <3>4
        <4>3. lineBuff[p][i][c] = ImagePixel(p, LineOf(i, c), c)
          BY <3>3, <4>1, <4>2
        <4> QED
          BY <1>3, <3>4, <4>3
      <3> QED
        BY <3>1, <3>2, <3>5
    <2>4. CASE j = 2 * m /\ ~(i < 2 * n)
      <3>1. x = c /\ c < w /\ y = r /\ r < h
        BY <1>2, <1>7, <2>1, <2>4
      <3>2. new[i][j] = px[p]
        BY <1>2, <1>5, <1>6, <2>4, <3>1
      <3>3. InImage
        BY <1>1, <3>1 DEF InImage
      <3> QED
        BY <1>1, <3>1, <3>2, <3>3
    <2> QED
      BY <1>2, <2>2, <2>3, <2>4
  <1>8. ASSUME NEW i \in Rows, NEW j \in Cols,
               InPicture(row - (KernelY - 1) + i, col - (KernelX - 1) + j)
        PROVE  new[i][j] = ImagePixel(p, row - (KernelY - 1) + i,
                                         col - (KernelX - 1) + j)
    <2>1. PICK y, x : y = row - (KernelY - 1) + i /\ x = col - (KernelX - 1) + j
      OBVIOUS
    <2>2. y = r - 2 * n + i /\ x = c - 2 * m + j
      BY <1>1, <1>2, <2>1
    <2>3. InPicture(y, x)
      BY <1>8, <2>1
    <2>4. new[i][j] = ImagePixel(p, y, x)
      BY <1>7, <2>2, <2>3
    <2> QED
      BY <2>1, <2>4
  <1> QED
    BY <1>3, <1>8 DEF Shows

(* The line buffer moves on by one line in one column.                     *)
LEMMA LinesMove ==
  ASSUME IInv, ~IsPoint, NEW px \in [Inputs -> Pixel],
         InImage => \A p \in Inputs : px[p] = ImagePixel(p, row, col),
         row < call.height + GDelayY,
         NEW p \in Inputs, NEW i \in 0..(KernelY - 2),
         NEW x \in 0..(call.width - 1),
         NEW y, y = (IF x <= col THEN row ELSE row - 1) - (KernelY - 2 - i),
         InPicture(y, x)
  PROVE  Pushed(lineBuff[p], px[p])[i][x] = ImagePixel(p, y, x)
  <1>1. PICK n, w, h, r, c :
          /\ n = GDelayY /\ w = call.width /\ h = call.height
          /\ r = row /\ c = col
    OBVIOUS
  <1>2. /\ n \in Nat /\ KernelY = 2 * n + 1
        /\ w \in Nat \ {0} /\ h \in Nat \ {0}
        /\ r \in Nat /\ c \in Nat /\ r < h + n
        /\ MaxWidth \in Nat /\ w <= MaxWidth
    <2>1. call \in Call /\ row \in Nat /\ col \in Nat
      BY CallFacts DEF IInv, TypeOK
    <2> QED
      BY <1>1, <2>1, CallFacts
  <1>3. PICK buff, new : buff = lineBuff[p] /\ new = Pushed(buff, px[p])
    OBVIOUS
  <1>4. buff \in [0..(2 * n - 1) -> [0..(MaxWidth - 1) -> Pixel]]
    BY <1>2, <1>3 DEF IInv, TypeOK
  <1>5. new = IF c < w
              THEN [k \in 0..(2 * n - 1) |-> [buff[k] EXCEPT ![c] =
                      IF k < 2 * n - 1 THEN buff[k + 1][c] ELSE px[p]]]
              ELSE buff
    <2>1. KernelY - 2 = 2 * n - 1 /\ DOMAIN buff = 0..(2 * n - 1)
      BY <1>2, <1>4
    <2>2. Loads <=> c < w
      BY <1>1, <1>2 DEF Loads
    <2>3. new = IF Loads
                THEN [k \in DOMAIN buff |-> [buff[k] EXCEPT ![c] =
                        IF k < 2 * n - 1 THEN buff[k + 1][c] ELSE px[p]]]
                ELSE buff
      BY <1>1, <1>3, <2>1 DEF Pushed
    <2> QED
      BY <2>1, <2>2, <2>3
  <1>6. y \in 0..(h - 1) /\ x \in 0..(w - 1) /\ i \in 0..(2 * n - 1)
    BY <1>1, <1>2 DEF InPicture
  <1>7. \A k \in 0..(2 * n - 1) :
          LineOf(k, x) \in Int /\ InPicture(LineOf(k, x), x) =>
            buff[k][x] = ImagePixel(p, LineOf(k, x), x)
    BY <1>1, <1>2, <1>3, <1>6 DEF IInv, LinesOK
  <1>8. CASE x # c
    <2>1. new[i][x] = buff[i][x]
      BY <1>2, <1>4, <1>5, <1>6, <1>8
    <2>2. LineOf(i, x) = y
      BY <1>1, <1>2, <1>6, <1>8 DEF LineOf
    <2> QED
      BY <1>3, <1>6, <1>7, <2>1, <2>2
  <1>9. CASE x = c /\ i < 2 * n - 1
    <2>1. new[i][x] = buff[i + 1][x]
      BY <1>2, <1>4, <1>5, <1>6, <1>9
    <2>2. LineOf(i + 1, x) = y /\ i + 1 \in 0..(2 * n - 1)
      BY <1>1, <1>2, <1>6, <1>9 DEF LineOf
    <2> QED
      BY <1>3, <1>6, <1>7, <2>1, <2>2
  <1>10. CASE x = c /\ ~(i < 2 * n - 1)
    <2>1. new[i][x] = px[p]
      BY <1>2, <1>4, <1>5, <1>6, <1>10
    <2>2. y = r /\ InImage
      BY <1>1, <1>2, <1>6, <1>10 DEF InImage
    <2> QED
      BY <1>1, <1>3, <1>10, <2>1, <2>2
  <1> QED
    BY <1>8, <1>9, <1>10

LEMMA LoopStep ==
  ASSUME IInv, ~IsPoint,
         NEW take \in BOOLEAN, NEW fill \in [Inputs -> Pixel], NEW write \in BOOLEAN,
         LoopBody(take, fill, write),
         take <=> InImage /\ (IsUp => row % 2 = 1 /\ col % 2 = 1),
         InImage => \A p \in Inputs :
                      NextPixel(take, fill)[p] = ImagePixel(p, row, col),
         FilterRuns => (write <=> (IsDown => /\ (row - GDelayY) % 2 = 0
                                             /\ (col - GDelayX) % 2 = 0))
  PROVE  IInv'
  <1>1. PICK m, n, w, h, r, c, f, up, down, px :
          /\ m = GDelayX /\ n = GDelayY /\ w = call.width /\ h = call.height
          /\ r = row /\ c = col /\ up = IsUp /\ down = IsDown /\ f = Factor
          /\ px = NextPixel(take, fill)
    OBVIOUS
  <1>2. /\ call \in Call
        /\ m \in Nat /\ KernelX = 2 * m + 1 /\ Cols = 0..(2 * m)
        /\ n \in Nat /\ KernelY = 2 * n + 1 /\ Rows = 0..(2 * n)
        /\ MaxWidth \in Nat \ {0} /\ MaxHeight \in Nat \ {0}
        /\ w \in 1..MaxWidth /\ h \in 1..MaxHeight
        /\ w >= 2 * m /\ h >= 2 * n
        /\ w \in Nat \ {0} /\ h \in Nat \ {0} /\ w <= MaxWidth /\ h <= MaxHeight
        /\ r \in Nat /\ c \in Nat
        /\ r \in 0..(MaxHeight + n - 1) /\ c \in 0..(MaxWidth + m - 1)
        /\ up \in BOOLEAN /\ down \in BOOLEAN /\ f \in {1, 2} /\ (f = 2 <=> up)
        /\ (up \/ down => m = n /\ call.factor = 2) /\ ~(up /\ down)
    <2>1. /\ call \in Call /\ row \in Nat /\ col \in 0..(MaxWidth + GDelayX - 1)
          /\ row < MaxHeight + GDelayY
      BY CallFacts DEF IInv, TypeOK, LoopBody, Running
    <2>2. up \in BOOLEAN /\ down \in BOOLEAN /\ f \in {1, 2} /\ (f = 2 <=> up)
      <3>1. up \in BOOLEAN /\ down \in BOOLEAN
        BY <1>1 DEF IsUp, IsDown
      <3>2. f = IF up THEN 2 ELSE 1
        BY <1>1 DEF Factor
      <3> QED
        BY <3>1, <3>2
    <2>3. (up \/ down => m = n /\ call.factor = 2) /\ ~(up /\ down)
      BY <1>1, <2>1, CallFacts
    <2>4. /\ m \in Nat /\ KernelX = 2 * m + 1 /\ n \in Nat /\ KernelY = 2 * n + 1
          /\ MaxWidth \in Nat \ {0} /\ MaxHeight \in Nat \ {0}
          /\ w \in 1..MaxWidth /\ h \in 1..MaxHeight
          /\ w >= 2 * m /\ h >= 2 * n
      BY <1>1, <2>1, CallFacts
    <2>5. Cols = 0..(2 * m) /\ Rows = 0..(2 * n)
      BY <2>4 DEF Cols, Rows
    <2> QED
      BY <1>1, <2>1, <2>2, <2>3, <2>4, <2>5
  <1>3. /\ call' = call
        /\ GDelayX' = m /\ GDelayY' = n /\ KernelX' = KernelX /\ KernelY' = KernelY
        /\ Rows' = Rows /\ Cols' = Cols /\ Inputs' = Inputs /\ Window' = Window
        /\ ~IsPoint' /\ IsUp' = up /\ IsDown' = down /\ Factor' = f
    BY <1>1, CallStays DEF LoopBody, Factor
  <1>4. \/ c < MaxWidth + m - 1 /\ row' = r /\ col' = c + 1
        \/ c = MaxWidth + m - 1 /\ row' = r + 1 /\ col' = 0
    BY <1>1, <1>2 DEF LoopBody, AdvanceLoop
  (* The streams. *)
  <1>5. reads = ReadUpTo(f, w, h, r, c) /\ reads' = ReadUpTo(f, w, h, row', col')
    <2>1. reads = ReadUpTo(f, w, h, r, c)
      BY <1>1 DEF IInv, CountOK
    <2>2. reads' = reads + (IF take THEN 1 ELSE 0) /\ reads \in Nat
      BY DEF LoopBody, IInv, TypeOK
    <2>3. take <=> IsRead(f, w, h, r, c)
      BY <1>1, <1>2 DEF InImage, IsRead
    <2>4. PICK e : e = c + 1
      OBVIOUS
    <2>5. ReadUpTo(f, w, h, r, e) =
            ReadUpTo(f, w, h, r, c) + (IF IsRead(f, w, h, r, c) THEN 1 ELSE 0)
      BY <1>2, <2>4, ReadStep
    <2>6. reads' = ReadUpTo(f, w, h, r, e)
      BY <2>1, <2>2, <2>3, <2>5
    <2>7. c = MaxWidth + m - 1 => e >= w /\ e \in Nat
      BY <1>2, <2>4
    <2>8. ASSUME c = MaxWidth + m - 1
          PROVE  ReadUpTo(f, w, h, r + 1, 0) = ReadUpTo(f, w, h, r, e)
      <3>1. PICK q : q = r + 1
        OBVIOUS
      <3>2. e \in Nat /\ e >= w
        BY <2>7, <2>8
      <3>3. /\ f \in {1, 2} /\ w \in Nat \ {0} /\ h \in Nat \ {0}
            /\ r \in Nat /\ q \in Nat
        BY <1>2, <3>1
      <3>4. e >= w => ReadUpTo(f, w, h, q, 0) = ReadUpTo(f, w, h, r, e)
        BY <3>1, <3>2, <3>3, ReadRow
      <3> QED
        BY <3>1, <3>2, <3>4
    <2> QED
      BY <1>4, <2>1, <2>4, <2>6, <2>8
  <1>6. /\ reads' \in 0..(MaxWidth * MaxHeight)
        /\ take => reads \in 0..(MaxWidth * MaxHeight - 1)
    <2>1. take => IsRead(f, w, h, r, c)
      BY <1>1, <1>2 DEF InImage, IsRead
    <2>2. row' \in Nat /\ col' \in Nat
      BY <1>2, <1>4
    <2>3. ReadUpTo(f, w, h, row', col') \in 0..(MaxWidth * MaxHeight)
      BY <1>2, <2>2, ReadBound
    <2>4. take => /\ ReadUpTo(f, w, h, r, c) \in 0..(MaxWidth * MaxHeight)
                  /\ ReadUpTo(f, w, h, r, c) < MaxWidth * MaxHeight
      BY <1>2, <2>1, ReadBound
    <2>5. MaxWidth * MaxHeight \in Nat
      BY <1>2, Product
    <2> QED
      BY <1>5, <2>3, <2>4, <2>5
  <1>7. /\ writes = WrittenUpTo(down, MaxWidth, r - n, c - m)
        /\ writes' = WrittenUpTo(down, MaxWidth, row' - n, col' - m)
        /\ writes' = writes + (IF FilterRuns /\ write THEN 1 ELSE 0)
    <2>1. writes = WrittenUpTo(down, MaxWidth, r - n, c - m)
      BY <1>1 DEF IInv, CountOK
    <2>2. writes' = writes + (IF FilterRuns /\ write THEN 1 ELSE 0)
      BY DEF LoopBody, IInv, TypeOK
    <2>3. PICK y, x, e : y = r - n /\ x = c - m /\ e = x + 1
      OBVIOUS
    <2>4. y \in Int /\ x \in Int /\ x < MaxWidth
      BY <1>2, <2>3
    <2>5. FilterRuns /\ write <=>
            y >= 0 /\ x >= 0 /\ (down => y % 2 = 0 /\ x % 2 = 0)
      BY <1>1, <1>2, <2>3 DEF FilterRuns
    <2>6. /\ WrittenUpTo(down, MaxWidth, y, e) =
               WrittenUpTo(down, MaxWidth, y, x)
                 + (IF y >= 0 /\ x >= 0 /\ (down => y % 2 = 0 /\ x % 2 = 0)
                    THEN 1 ELSE 0)
          /\ e = MaxWidth => \A z \in Int : z <= 0 =>
               WrittenUpTo(down, MaxWidth, y + 1, z) = WrittenUpTo(down, MaxWidth, y, e)
      BY <1>2, <2>3, <2>4, WriteStep
    <2>7. WrittenUpTo(down, MaxWidth, y, e) = writes'
      BY <2>1, <2>2, <2>3, <2>5, <2>6
    <2>8. CASE c < MaxWidth + m - 1
      <3>1. row' - n = y /\ col' - m = e
        BY <1>2, <1>4, <2>3, <2>8
      <3> QED
        BY <2>1, <2>2, <2>7, <3>1
    <2>9. CASE c = MaxWidth + m - 1
      <3>1. PICK z : z = 0 - m
        OBVIOUS
      <3>2. /\ row' - n = y + 1 /\ col' - m = z /\ z \in Int /\ z <= 0
            /\ e = MaxWidth
        BY <1>2, <1>4, <2>3, <2>9, <3>1
      <3>3. WrittenUpTo(down, MaxWidth, y + 1, z) = WrittenUpTo(down, MaxWidth, y, e)
        BY <2>6, <3>2
      <3> QED
        BY <2>1, <2>2, <2>7, <3>2, <3>3
    <2> QED
      BY <1>4, <2>8, <2>9
  <1>8. writes' \in 0..(MaxWidth * MaxHeight)
    <2>1. PICK y, x : y = row' - n /\ x = col' - m
      OBVIOUS
    <2>2. /\ y \in Int /\ x \in Int /\ x <= MaxWidth
          /\ y < MaxHeight \/ (y = MaxHeight /\ x <= 0)
      BY <1>2, <1>4, <2>1
    <2>3. WrittenUpTo(down, MaxWidth, y, x) \in 0..(MaxWidth * MaxHeight)
      BY <1>2, <2>2, WrittenBound
    <2> QED
      BY <1>7, <2>1, <2>3
  (* The buffers. *)
  <1>9. px \in [Inputs -> Pixel]
    <2>1. ASSUME NEW p \in Inputs, take
          PROVE  <<p, reads>> \in Pixel
      BY <1>2, <1>6, <2>1, InputType DEF Pixel
    <2> QED
      BY <1>1, <2>1 DEF NextPixel
  <1>10. /\ inPixel' = px
         /\ winTmp' = [p \in Inputs |-> Loaded(Shifted(winTmp[p]), lineBuff[p], px[p])]
         /\ lineBuff' = [p \in Inputs |-> Pushed(lineBuff[p], px[p])]
    BY <1>1 DEF LoopBody
  <1>11. ASSUME NEW p \in Inputs
         PROVE  Loaded(Shifted(winTmp[p]), lineBuff[p], px[p]) \in Window
    <2>1. PICK a, b, d, q : /\ a = winTmp[p] /\ b = Shifted(a)
                            /\ d = lineBuff[p] /\ q = px[p]
      OBVIOUS
    <2>2. /\ a \in [0..(2 * n) -> [0..(2 * m) -> Pixel]]
          /\ d \in [0..(2 * n - 1) -> [0..(MaxWidth - 1) -> Pixel]]
          /\ q \in Pixel
      <3>1. KernelY - 2 = 2 * n - 1
        BY <1>2
      <3> QED
        BY <1>2, <1>9, <2>1, <3>1 DEF IInv, TypeOK, Window
    <2>3. b \in [0..(2 * n) -> [0..(2 * m) -> Pixel]]
      <3>1. KernelX - 1 = 2 * m
        BY <1>2
      <3>2. \A j \in 0..(2 * m) : j < 2 * m => j + 1 \in 0..(2 * m)
        BY <1>2
      <3>3. Rows = 0..(2 * n) /\ Cols = 0..(2 * m)
        BY <1>2
      <3>4. \/ b = a
            \/ b = [i \in 0..(2 * n) |-> [j \in 0..(2 * m) |->
                       IF j < 2 * m THEN a[i][j + 1] ELSE a[i][j]]]
        BY <2>1, <3>1, <3>3 DEF Shifted
      <3> DEFINE s == [i \in 0..(2 * n) |-> [j \in 0..(2 * m) |->
                         IF j < 2 * m THEN a[i][j + 1] ELSE a[i][j]]]
      <3>5. \A i \in 0..(2 * n) : \A j \in 0..(2 * m) :
              (IF j < 2 * m THEN a[i][j + 1] ELSE a[i][j]) \in Pixel
        BY <2>2, <3>2
      <3>6. s \in [0..(2 * n) -> [0..(2 * m) -> Pixel]]
        BY <3>5
      <3> QED
        BY <2>2, <3>4, <3>6
    <2>4. ASSUME Loads
          PROVE  [i \in Rows |-> [b[i] EXCEPT ![KernelX - 1] =
                    IF i < KernelY - 1 THEN d[i][col] ELSE q]]
                   \in [0..(2 * n) -> [0..(2 * m) -> Pixel]]
      <3>1. KernelX - 1 = 2 * m /\ KernelY - 1 = 2 * n
        BY <1>2
      <3>2. col \in 0..(MaxWidth - 1)
        BY <1>1, <1>2, <2>4 DEF Loads
      <3>3. ASSUME NEW i \in 0..(2 * n)
            PROVE  (IF i < 2 * n THEN d[i][col] ELSE q) \in Pixel
        <4>1. i < 2 * n => i \in 0..(2 * n - 1)
          BY <1>2
        <4> QED
          BY <2>2, <3>2, <4>1
      <3> QED
        BY <1>2, <2>3, <3>1, <3>3
    <2> QED
      BY <1>2, <2>1, <2>3, <2>4 DEF Loaded, Window
  <1>12. ASSUME NEW p \in Inputs
         PROVE  Pushed(lineBuff[p], px[p]) \in
                  [0..(KernelY - 2) -> [0..(MaxWidth - 1) -> Pixel]]
    <2>1. PICK d, q, k : d = lineBuff[p] /\ q = px[p] /\ k = KernelY - 2
      OBVIOUS
    <2>2. d \in [0..k -> [0..(MaxWidth - 1) -> Pixel]] /\ q \in Pixel /\ k \in Int
      BY <1>2, <1>9, <2>1 DEF IInv, TypeOK
    <2>3. ASSUME NEW i \in 0..k, Loads
          PROVE  [d[i] EXCEPT ![col] = IF i < k THEN d[i + 1][col] ELSE q]
                   \in [0..(MaxWidth - 1) -> Pixel]
      <3>1. col \in 0..(MaxWidth - 1)
        BY <1>1, <1>2, <2>3 DEF Loads
      <3>2. i < k => i + 1 \in 0..k
        BY <2>2
      <3> QED
        BY <2>2, <3>1, <3>2
    <2> QED
      BY <2>1, <2>2, <2>3 DEF Pushed
  <1>13. win' \in [Inputs -> Window]
    <2>1. row \in Nat
      BY <1>1, <1>2
    <2>2. \A p \in Inputs : winTmp'[p] \in Window
      BY <1>10, <1>11
    <2>3. \A p \in Inputs : BorderY(BorderX(winTmp'[p])) \in Window
      BY <1>2, <2>1, <2>2, BorderedType
    <2>4. win \in [Inputs -> Window]
      BY DEF IInv, TypeOK
    <2> QED
      BY <2>3, <2>4 DEF LoopBody
  <1>14. TypeOK'
    <2>1. row' \in 0..(MaxHeight + n) /\ col' \in 0..(MaxWidth + m - 1)
      BY <1>2, <1>4
    <2>2. /\ winTmp' \in [Inputs -> Window]
          /\ lineBuff' \in [Inputs -> [0..(KernelY - 2) -> [0..(MaxWidth - 1) -> Pixel]]]
      BY <1>10, <1>11, <1>12
    <2> QED
      BY <1>2, <1>3, <1>6, <1>8, <1>9, <1>10, <1>13, <2>1, <2>2 DEF TypeOK
  <1>15. LoopOK'
    BY <1>2, <1>3, <1>4 DEF LoopOK, Running
  <1>16. CountOK'
    BY <1>1, <1>3, <1>5, <1>7 DEF CountOK
  <1>17. LinesOK'
    <2>1. ASSUME row' < h + n, NEW p \in Inputs, NEW i \in 0..(KernelY - 2),
                 NEW x \in 0..(w - 1), NEW y,
                 y = (IF x < col' THEN row' ELSE row' - 1) - (KernelY - 2 - i),
                 InPicture(y, x)
          PROVE  lineBuff'[p][i][x] = ImagePixel(p, y, x)
      <3>1. y = (IF x <= col THEN row ELSE row - 1) - (KernelY - 2 - i)
        <4>1. (IF x < col' THEN row' ELSE row' - 1) = IF x <= c THEN r ELSE r - 1
          BY <1>2, <1>4, <2>1
        <4> QED
          BY <1>1, <2>1, <4>1
      <3>2. row < call.height + GDelayY
        BY <1>1, <1>2, <1>4, <2>1
      <3>3. x \in 0..(call.width - 1)
        BY <1>1, <2>1
      <3>4. \A q \in Inputs : InImage => px[q] = ImagePixel(q, row, col)
        BY <1>1
      <3>5. Pushed(lineBuff[p], px[p])[i][x] = ImagePixel(p, y, x)
        BY <1>9, <2>1, <3>1, <3>2, <3>3, <3>4, LinesMove
      <3> QED
        BY <1>10, <3>5
    <2>2. ASSUME row' < h + n, NEW p \in Inputs, NEW i \in 0..(KernelY - 2),
                 NEW x \in 0..(w - 1), InPicture(LineOf(i, x)', x)
          PROVE  lineBuff'[p][i][x] = ImagePixel(p, LineOf(i, x)', x)
      <3>1. LineOf(i, x)' = (IF x < col' THEN row' ELSE row' - 1) - (KernelY - 2 - i)
        BY <1>3 DEF LineOf
      <3> QED
        BY <2>1, <2>2, <3>1
    <2> QED
      BY <1>1, <1>3, <2>2 DEF LinesOK, InPicture, ImagePixel
  <1>18. ASSUME row < h + n, col < w + m, NEW p \in Inputs
         PROVE  Shows(winTmp'[p], p, row, col)
    <2>1. \A q \in Inputs : InImage => px[q] = ImagePixel(q, row, col)
      BY <1>1
    <2>2. Shows(Loaded(Shifted(winTmp[p]), lineBuff[p], px[p]), p, row, col)
      BY <1>1, <1>9, <1>18, <2>1, WindowSlides
    <2> QED
      BY <1>10, <2>2
  <1>19. WindowsOK'
    <2>1. ASSUME row' < h + n, col' <= w + m, NEW p \in Inputs,
                 NEW i \in Rows, NEW j \in Cols, NEW y, NEW x,
                 y = row' - (KernelY - 1) + i, x = (col' - 1) - (KernelX - 1) + j,
                 InPicture(y, x)
          PROVE  winTmp'[p][i][j] = ImagePixel(p, y, x)
      <3>1. CASE col' = 0
        <4>1. x < 0
          BY <1>2, <2>1, <3>1
        <4> QED
          BY <2>1, <4>1 DEF InPicture
      <3>2. CASE row' = r /\ col' = c + 1
        <4>1. row < h + n /\ col < w + m
          BY <1>1, <1>2, <2>1, <3>2
        <4>2. y = row - (KernelY - 1) + i /\ x = col - (KernelX - 1) + j
          BY <1>1, <1>2, <2>1, <3>2
        <4> QED
          BY <1>18, <2>1, <4>1, <4>2 DEF Shows
      <3> QED
        BY <1>4, <3>1, <3>2
    <2> QED
      BY <1>1, <1>3, <2>1 DEF WindowsOK, Shows, InPicture, ImagePixel
  <1>20. OutputIsFilteredImage'
    <2>1. PICK y, x, s, v : y = AtY' /\ x = AtX' /\ s = Step /\ v = OutWidth
      OBVIOUS
    <2>2. /\ s = IF down THEN 2 ELSE 1
          /\ v = (MaxWidth + s - 1) \div s
          /\ y = s * ((writes' - 1) \div v) /\ x = s * ((writes' - 1) % v)
      <3>1. Step' = s /\ OutWidth' = v
        BY <1>3, <2>1 DEF Step, OutWidth
      <3>2. s = IF down THEN 2 ELSE 1
        BY <1>1, <1>2, <2>1 DEF Step, IsDown
      <3> QED
        BY <2>1, <3>1, <3>2 DEF AtY, AtX, OutWidth
    <2>3. CASE FilterRuns /\ write
      <3>1. PICK k, l : k = r - n /\ l = c - m
        OBVIOUS
      <3>2. /\ k \in Nat /\ l \in 0..(MaxWidth - 1)
            /\ down => k % 2 = 0 /\ l % 2 = 0
        BY <1>1, <1>2, <2>3, <3>1 DEF FilterRuns
      <3>3. writes = WrittenUpTo(down, MaxWidth, k, l) /\ writes' = writes + 1
            /\ writes \in Nat
        BY <1>7, <2>3, <3>1 DEF IInv, TypeOK
      <3>4. s * (writes \div v) = k /\ s * (writes % v) = l
        <4>1. /\ s \in Nat /\ s = IF down THEN 2 ELSE 1
              /\ v \in Nat /\ v = IF down THEN (MaxWidth + 1) \div 2 ELSE MaxWidth
          BY <1>2, <2>2
        <4>2. down \in BOOLEAN /\ MaxWidth \in Nat \ {0}
          BY <1>2
        <4> QED
          BY <3>2, <3>3, <4>1, <4>2, WrittenIs
      <3>5. y = k /\ x = l
        BY <2>2, <3>3, <3>4
      <3>6. ASSUME y < h, x < w, NEW p \in Inputs
            PROVE  win'[p] = Neighbourhood(p, y, x)
        <4>1. Shows(winTmp'[p], p, row, col)
          BY <1>1, <1>2, <1>18, <3>1, <3>5, <3>6
        <4>2. winTmp'[p] \in Window
          BY <1>10, <1>11
        <4>3. /\ row \in GDelayY..(call.height + GDelayY - 1)
              /\ col \in GDelayX..(call.width + GDelayX - 1)
          BY <1>1, <1>2, <3>1, <3>2, <3>5, <3>6
        <4>4. win'[p] = BorderY(BorderX(winTmp'[p]))
          BY <2>3 DEF LoopBody
        <4>5. BorderY(BorderX(winTmp'[p])) =
                Neighbourhood(p, row - GDelayY, col - GDelayX)
          BY <1>2, <4>1, <4>2, <4>3, BorderedWindow
        <4> QED
          BY <1>1, <3>1, <3>5, <4>4, <4>5
      <3>7. \A p : Neighbourhood(p, AtY, AtX)' = Neighbourhood(p, y, x)
        BY <1>1, <1>3, <2>1 DEF Neighbourhood, ImagePixel
      <3> QED
        BY <1>1, <1>3, <2>1, <3>6, <3>7 DEF OutputIsFilteredImage
    <2>4. CASE ~(FilterRuns /\ write)
      <3>1. win' = win /\ writes' = writes
        BY <2>4 DEF LoopBody
      <3>2. AtY' = AtY /\ AtX' = AtX
        BY <1>3, <3>1 DEF AtY, AtX, Step, OutWidth
      <3>3. \A p : Neighbourhood(p, AtY, AtX)' = Neighbourhood(p, AtY, AtX)
        BY <1>1, <1>3, <3>2 DEF Neighbourhood, ImagePixel
      <3> QED
        BY <1>3, <3>1, <3>2, <3>3 DEF IInv, OutputIsFilteredImage
    <2> QED
      BY <2>3, <2>4
  <1> QED
    BY <1>14, <1>15, <1>16, <1>17, <1>19, <1>20 DEF IInv

-----------------------------------------------------------------------------
(* The operators.                                                          *)

(* The pixel that is read is the one of the loop's position.               *)
LEMMA PixelRead ==
  ASSUME call \in Call, NEW p,
         reads = ReadUpTo(Factor, call.width, call.height, row, col),
         row \in Nat, col \in Nat, InImage, IsUp => row % 2 = 1 /\ col % 2 = 1
  PROVE  ImagePixel(p, row, col) = <<p, reads>>
  <1>1. PICK w, h, r, c : w = call.width /\ h = call.height /\ r = row /\ c = col
    OBVIOUS
  <1>2. /\ w \in Nat /\ h \in Nat /\ r \in Nat /\ c \in Nat
        /\ r < h /\ c < w
    <2>1. w \in 1..MaxWidth /\ h \in 1..MaxHeight /\ MaxWidth \in Nat /\ MaxHeight \in Nat
      BY <1>1, CallFacts
    <2> QED
      BY <1>1, <2>1 DEF InImage
  <1>3. CASE ~IsUp
    <2>1. ReadUpTo(1, w, h, r, c) = r * w + c
      BY <1>2 DEF ReadUpTo, Min2
    <2>2. reads = r * w + c
      BY <1>1, <1>3, <2>1 DEF Factor
    <2>3. ImagePixel(p, row, col) = <<p, r * w + c>>
      BY <1>1, <1>3 DEF ImagePixel, IsUp
    <2> QED
      BY <2>2, <2>3
  <1>4. CASE IsUp
    <2>1. r % 2 = 1 /\ c % 2 = 1 /\ call.factor = 2
      BY <1>1, <1>4, CallFacts
    <2>2. ReadUpTo(2, w, h, r, c) = (r \div 2) * (w \div 2) + (c \div 2)
      BY <1>2, <2>1 DEF ReadUpTo, Min2
    <2>3. reads = (r \div 2) * (w \div 2) + (c \div 2)
      BY <1>1, <1>4, <2>2 DEF Factor
    <2>4. ImagePixel(p, row, col) = <<p, (r \div 2) * (w \div 2) + (c \div 2)>>
      BY <1>1, <1>4, <2>1 DEF ImagePixel, IsUp
    <2> QED
      BY <2>3, <2>4
  <1> QED
    BY <1>3, <1>4

LEMMA LocalStep ==
  ASSUME IInv, call.op \in {"process", "processSIMO", "processMISO"},
         LoopBody(InImage, inPixel, TRUE)
  PROVE  IInv'
  <1>1. ~IsPoint /\ ~IsUp /\ ~IsDown
    BY DEF IsPoint, IsUp, IsDown
  <1>2. /\ call \in Call /\ row \in Nat /\ col \in Nat
        /\ inPixel \in [Inputs -> Pixel]
        /\ reads = ReadUpTo(Factor, call.width, call.height, row, col)
    BY CallFacts DEF IInv, TypeOK, CountOK, Factor
  <1>3. InImage => \A p \in Inputs :
                     NextPixel(InImage, inPixel)[p] = ImagePixel(p, row, col)
    BY <1>1, <1>2, PixelRead DEF NextPixel
  <1>4. InImage \in BOOLEAN
    BY DEF InImage
  <1> QED
    BY <1>1, <1>2, <1>3, <1>4, LoopStep

LEMMA DownsampleStep ==
  ASSUME IInv, Downsample
  PROVE  IInv'
  <1>1. PICK write : write = (/\ row % call.factor = GDelayY % 2
                              /\ col % call.factor = GDelayY % 2)
    OBVIOUS
  <1>2. LoopBody(InImage, inPixel, write) /\ ~IsPoint /\ ~IsUp /\ IsDown
    BY <1>1 DEF Downsample, IsPoint, IsUp, IsDown
  <1>3. /\ call \in Call /\ row \in Nat /\ col \in Nat
        /\ inPixel \in [Inputs -> Pixel]
        /\ reads = ReadUpTo(Factor, call.width, call.height, row, col)
    BY CallFacts DEF IInv, TypeOK, CountOK, Factor
  <1>4. InImage => \A p \in Inputs :
                     NextPixel(InImage, inPixel)[p] = ImagePixel(p, row, col)
    BY <1>2, <1>3, PixelRead DEF NextPixel
  <1>5. InImage \in BOOLEAN /\ write \in BOOLEAN
    BY <1>1 DEF InImage
  <1>6. write <=> (row - GDelayY) % 2 = 0 /\ (col - GDelayX) % 2 = 0
    <2>1. call.factor = 2 /\ GDelayX = GDelayY /\ GDelayY \in Nat
      BY <1>2, <1>3, CallFacts
    <2>2. PICK n : n = GDelayY
      OBVIOUS
    <2>3. \A k \in Nat : k % 2 = n % 2 <=> (k - n) % 2 = 0
      BY <2>1, <2>2
    <2>4. write <=> row % 2 = n % 2 /\ col % 2 = n % 2
      BY <1>1, <2>1, <2>2
    <2> QED
      BY <1>3, <2>1, <2>2, <2>3, <2>4
  <1> QED
    BY <1>2, <1>3, <1>4, <1>5, <1>6, LoopStep

LEMMA UpsampleStep ==
  ASSUME IInv, Upsample
  PROVE  IInv'
  <1>1. PICK take, fill :
          /\ take = (InImage /\ (col % 2 = 1 /\ row % 2 = 1))
          /\ fill = [p \in Inputs |-> IF InImage THEN Zero ELSE inPixel[p]]
    OBVIOUS
  <1>2. ~IsPoint /\ IsUp /\ ~IsDown
    BY DEF Upsample, IsPoint, IsUp, IsDown
  <1>3. /\ call \in Call /\ row \in Nat /\ col \in Nat
        /\ inPixel \in [Inputs -> Pixel]
        /\ reads = ReadUpTo(Factor, call.width, call.height, row, col)
    BY CallFacts DEF IInv, TypeOK, CountOK, Factor
  <1>4. call.factor = 2
    BY <1>2, <1>3, CallFacts
  <1>5. LoopBody(take, fill, TRUE)
    <2>1. call.factor - 1 = 1
      BY <1>4
    <2> QED
      BY <1>1, <1>4, <2>1 DEF Upsample
  <1>6. take \in BOOLEAN /\ fill \in [Inputs -> Pixel]
    BY <1>1, <1>3 DEF InImage, Pixel
  <1>7. take <=> InImage /\ (IsUp => row % 2 = 1 /\ col % 2 = 1)
    BY <1>1, <1>2
  <1>8. ASSUME InImage, NEW p \in Inputs
        PROVE  NextPixel(take, fill)[p] = ImagePixel(p, row, col)
    <2>1. CASE take
      <3>1. NextPixel(take, fill)[p] = <<p, reads>>
        BY <1>8, <2>1 DEF NextPixel
      <3> QED
        BY <1>3, <1>7, <1>8, <2>1, <3>1, PixelRead
    <2>2. CASE ~take
      <3>1. NextPixel(take, fill)[p] = Zero
        BY <1>1, <1>8, <2>2 DEF NextPixel
      <3>2. ~(row % call.factor = call.factor - 1 /\ col % call.factor = call.factor - 1)
        <4>1. ~(row % 2 = 1 /\ col % 2 = 1)
          BY <1>2, <1>7, <1>8, <2>2
        <4> QED
          BY <1>4, <4>1
      <3> QED
        BY <1>2, <3>1, <3>2 DEF ImagePixel, IsUp
    <2> QED
      BY <1>6, <2>1, <2>2
  <1> QED
    BY <1>2, <1>5, <1>6, <1>7, <1>8, LoopStep

(* The point operators: pixel x of row y is the next one.                  *)
LEMMA PointStep ==
  ASSUME IInv, IsPoint, PointBody
  PROVE  IInv'
  <1>1. PICK m, n, w, h, r, c :
          /\ m = GDelayX /\ n = GDelayY /\ w = call.width /\ h = call.height
          /\ r = row /\ c = col
    OBVIOUS
  <1>2. /\ call \in Call /\ m \in Nat /\ n \in Nat
        /\ MaxWidth \in Nat \ {0} /\ MaxHeight \in Nat \ {0}
        /\ w \in Nat \ {0} /\ h \in Nat \ {0} /\ w <= MaxWidth /\ h <= MaxHeight
        /\ r \in Nat /\ c \in Nat /\ r < h /\ c < w + m
        /\ ~IsUp /\ ~IsDown
    <2>1. call \in Call /\ row \in Nat /\ col \in Nat /\ row < h /\ col < w + m
      BY <1>1, CallFacts DEF IInv, TypeOK, LoopOK, PointBody, Running
    <2>2. /\ m \in Nat /\ n \in Nat
          /\ MaxWidth \in Nat \ {0} /\ MaxHeight \in Nat \ {0}
          /\ w \in 1..MaxWidth /\ h \in 1..MaxHeight
      BY <1>1, <2>1, CallFacts
    <2> QED
      BY <1>1, <2>1, <2>2 DEF IsPoint, IsUp, IsDown
  <1>3. /\ call' = call
        /\ GDelayX' = m /\ GDelayY' = n /\ KernelX' = KernelX /\ KernelY' = KernelY
        /\ Rows' = Rows /\ Cols' = Cols /\ Inputs' = Inputs /\ Window' = Window
        /\ IsPoint' /\ ~IsUp' /\ ~IsDown' /\ Factor' = 1
    BY <1>1, <1>2, CallStays DEF PointBody, Factor
  <1>4. \/ c < w + m - 1 /\ row' = r /\ col' = c + 1
        \/ c = w + m - 1 /\ row' = r + 1 /\ col' = 0
    <2>1. IF c < w + m - 1 THEN col' = c + 1 /\ row' = r
                            ELSE col' = 0 /\ row' = r + 1
      BY <1>1 DEF PointBody, AdvanceLoop
    <2> QED
      BY <1>2, <2>1
  <1>5. reads = ReadUpTo(1, w, h, r, c) /\ writes = reads /\ reads \in Nat
    BY <1>1, <1>2 DEF IInv, TypeOK, CountOK, Factor
  <1>6. reads' = reads + (IF c < w THEN 1 ELSE 0) /\ writes' = reads'
    BY <1>1, <1>5 DEF PointBody
  <1>7. reads' = ReadUpTo(1, w, h, row', col')
    <2>1. PICK e, q : e = c + 1 /\ q = r + 1
      OBVIOUS
    <2>2. e \in Nat /\ q \in Nat /\ 1 \in {1, 2}
      BY <1>2, <2>1
    <2>3. ReadUpTo(1, w, h, r, e) =
            ReadUpTo(1, w, h, r, c) + (IF IsRead(1, w, h, r, c) THEN 1 ELSE 0)
      BY <1>2, <2>1, <2>2, ReadStep
    <2>4. IsRead(1, w, h, r, c) <=> c < w
      BY <1>2 DEF IsRead
    <2>5. reads' = ReadUpTo(1, w, h, r, e)
      BY <1>5, <1>6, <2>3, <2>4
    <2>6. e >= w => ReadUpTo(1, w, h, q, 0) = ReadUpTo(1, w, h, r, e)
      BY <1>2, <2>1, <2>2, ReadRow
    <2>7. c = w + m - 1 => e >= w
      BY <1>2, <2>1
    <2> QED
      BY <1>4, <2>1, <2>5, <2>6, <2>7
  <1>8. /\ reads' \in 0..(MaxWidth * MaxHeight)
        /\ c < w => reads \in 0..(MaxWidth * MaxHeight - 1)
    <2>1. row' \in Nat /\ col' \in Nat /\ 1 \in {1, 2}
      BY <1>2, <1>4
    <2>2. ReadUpTo(1, w, h, row', col') \in 0..(MaxWidth * MaxHeight)
      BY <1>2, <2>1, ReadBound
    <2>3. c < w => IsRead(1, w, h, r, c)
      BY <1>2 DEF IsRead
    <2>4. c < w => /\ ReadUpTo(1, w, h, r, c) \in 0..(MaxWidth * MaxHeight)
                   /\ ReadUpTo(1, w, h, r, c) < MaxWidth * MaxHeight
      BY <1>2, <2>1, <2>3, ReadBound
    <2>5. MaxWidth * MaxHeight \in Nat
      BY <1>2, Product
    <2> QED
      BY <1>5, <1>7, <2>2, <2>4, <2>5
  <1>9. TypeOK'
    <2>1. row' \in 0..(MaxHeight + n) /\ col' \in 0..(MaxWidth + m - 1)
      BY <1>2, <1>4
    <2>2. ASSUME NEW p \in Inputs, c < w
          PROVE  <<p, reads>> \in Pixel
      BY <1>2, <1>8, <2>2, InputType DEF Pixel
    <2>3. inPixel' \in [Inputs -> Pixel] /\ win' \in [Inputs -> Window]
      <3>1. CASE c < w
        <4>1. inPixel' = [p \in Inputs |-> <<p, reads>>]
          BY <1>1, <3>1 DEF PointBody
        <4>2. inPixel' \in [Inputs -> Pixel]
          BY <2>2, <3>1, <4>1
        <4>3. win' = [p \in Inputs |-> [i \in Rows |-> [j \in Cols |-> inPixel'[p]]]]
          BY <1>1, <3>1 DEF PointBody
        <4> QED
          BY <4>2, <4>3 DEF Window
      <3>2. CASE ~(c < w)
        BY <1>1, <3>2 DEF PointBody, IInv, TypeOK
      <3> QED
        BY <3>1, <3>2
    <2>4. /\ winTmp' \in [Inputs -> Window]
          /\ lineBuff' \in [Inputs -> [0..(KernelY - 2) -> [0..(MaxWidth - 1) -> Pixel]]]
      BY DEF PointBody, IInv, TypeOK
    <2> QED
      BY <1>2, <1>3, <1>6, <1>8, <2>1, <2>3, <2>4 DEF TypeOK
  <1>10. LoopOK'
    BY <1>1, <1>2, <1>3, <1>4 DEF LoopOK, Running
  <1>11. CountOK'
    BY <1>1, <1>3, <1>6, <1>7 DEF CountOK
  <1>12. LinesOK' /\ WindowsOK'
    BY <1>3 DEF LinesOK, WindowsOK
  <1>13. OutputIsFilteredImage'
    <2>1. Step' = 1 /\ Step = 1 /\ OutWidth' = w /\ OutWidth = w
      BY <1>1, <1>2, <1>3 DEF Step, OutWidth, IsDown
    <2>2. CASE c < w
      <3>1. reads = r * w + c
        BY <1>2, <1>5, <2>2 DEF ReadUpTo, Min2
      <3>2. writes' - 1 = r * w + c
        BY <1>5, <1>6, <2>2, <3>1
      <3>3. (r * w + c) \div w = r /\ (r * w + c) % w = c
        <4>1. w \in Nat \ {0} /\ r \in Nat /\ c \in 0..(w - 1)
          BY <1>2, <2>2
        <4> QED
          BY <4>1, DivMod
      <3>4. AtY' = r /\ AtX' = c
        BY <1>2, <2>1, <3>2, <3>3 DEF AtY, AtX
      <3>5. \A p \in Inputs : win'[p] = [i \in Rows |-> [j \in Cols |-> <<p, reads>>]]
        BY <1>1, <2>2 DEF PointBody
      <3>6. \A p : ImagePixel(p, AtY, AtX)' = <<p, reads>>
        BY <1>1, <1>2, <1>3, <3>1, <3>4 DEF ImagePixel, IsUp
      <3>7. \A p : Neighbourhood(p, AtY, AtX)' =
                     [i \in Rows |-> [j \in Cols |-> <<p, reads>>]]
        BY <1>3, <3>6 DEF Neighbourhood
      <3> QED
        BY <1>3, <3>5, <3>7 DEF OutputIsFilteredImage
    <2>3. CASE ~(c < w)
      <3>1. win' = win /\ writes' = writes
        BY <1>1, <2>3 DEF PointBody
      <3>2. AtY' = AtY /\ AtX' = AtX
        BY <2>1, <3>1 DEF AtY, AtX
      <3>3. \A p : ImagePixel(p, AtY, AtX)' = ImagePixel(p, AtY, AtX)
        BY <1>3, <3>2 DEF ImagePixel
      <3>4. \A p : Neighbourhood(p, AtY, AtX)' = Neighbourhood(p, AtY, AtX)
        BY <1>3, <3>3 DEF Neighbourhood
      <3> QED
        BY <1>3, <3>1, <3>2, <3>4 DEF IInv, OutputIsFilteredImage
    <2> QED
      BY <2>2, <2>3
  <1> QED
    BY <1>9, <1>10, <1>11, <1>12, <1>13 DEF IInv

-----------------------------------------------------------------------------
(* The invariant holds.                                                    *)
LEMMA InitOK ==
  ASSUME Init
  PROVE  IInv
  <1>1. PICK m, n, w, h :
          /\ m = GDelayX /\ n = GDelayY /\ w = call.width /\ h = call.height
    OBVIOUS
  <1>2. /\ call \in Call
        /\ m \in Nat /\ KernelX = 2 * m + 1 /\ Cols = 0..(2 * m)
        /\ n \in Nat /\ KernelY = 2 * n + 1 /\ Rows = 0..(2 * n)
        /\ MaxWidth \in Nat \ {0} /\ MaxHeight \in Nat \ {0}
        /\ w \in Nat \ {0} /\ h \in Nat \ {0}
    <2>1. call \in Call
      BY DEF Init
    <2>2. /\ m \in Nat /\ KernelX = 2 * m + 1
          /\ n \in Nat /\ KernelY = 2 * n + 1
          /\ MaxWidth \in Nat \ {0} /\ MaxHeight \in Nat \ {0}
          /\ w \in 1..MaxWidth /\ h \in 1..MaxHeight
      BY <1>1, <2>1, CallFacts
    <2> QED
      BY <2>1, <2>2 DEF Rows, Cols
  <1>3. row = 0 /\ col = 0 /\ reads = 0 /\ writes = 0
    BY DEF Init
  <1>4. TypeOK
    <2>1. Junk \in Pixel
      BY DEF Pixel
    <2>2. JunkWindow \in Window
      BY <2>1 DEF JunkWindow, Window
    <2>3. /\ inPixel \in [Inputs -> Pixel]
          /\ lineBuff \in [Inputs -> [0..(KernelY - 2) -> [0..(MaxWidth - 1) -> Pixel]]]
          /\ winTmp \in [Inputs -> Window] /\ win \in [Inputs -> Window]
      BY <2>1, <2>2 DEF Init
    <2>4. /\ row \in 0..(MaxHeight + n) /\ col \in 0..(MaxWidth + m - 1)
          /\ 0 \in 0..(MaxWidth * MaxHeight)
      <3>1. MaxWidth * MaxHeight \in Nat
        BY <1>2, Product
      <3> QED
        BY <1>2, <1>3, <3>1
    <2> QED
      BY <1>1, <1>2, <1>3, <2>3, <2>4 DEF TypeOK
  <1>5. LoopOK
    BY <1>1, <1>2, <1>3 DEF LoopOK, Running
  <1>6. CountOK
    <2>1. \A f \in {1, 2} : ReadUpTo(f, w, h, 0, 0) = 0
      BY <1>2 DEF ReadUpTo, Min2
    <2>2. Factor \in {1, 2}
      BY DEF Factor
    <2>3. WrittenUpTo(IsDown, MaxWidth, 0 - n, 0 - m) = 0
      <3>1. CASE n = 0
        <4>1. Max2(0 - m, 0) = 0 /\ 0 - n = 0
          BY <1>2, <3>1 DEF Max2
        <4> QED
          BY <1>2, <4>1 DEF WrittenUpTo
      <3>2. CASE n # 0
        BY <1>2, <3>2 DEF WrittenUpTo
      <3> QED
        BY <3>1, <3>2
    <2> QED
      BY <1>1, <1>3, <2>1, <2>2, <2>3 DEF CountOK
  <1>7. LinesOK
    <2>1. ASSUME NEW i \in 0..(KernelY - 2), NEW c \in 0..(call.width - 1)
          PROVE  ~InPicture(LineOf(i, c), c)
      BY <1>2, <1>3 DEF InPicture, LineOf
    <2> QED
      BY <2>1 DEF LinesOK
  <1>8. WindowsOK
    <2>1. ASSUME NEW i \in Rows, NEW j \in Cols
          PROVE  ~InPicture(row - (KernelY - 1) + i, (col - 1) - (KernelX - 1) + j)
      BY <1>2, <1>3 DEF InPicture
    <2> QED
      BY <2>1 DEF WindowsOK, Shows
  <1>9. OutputIsFilteredImage
    BY <1>3 DEF OutputIsFilteredImage
  <1> QED
    BY <1>4, <1>5, <1>6, <1>7, <1>8, <1>9 DEF IInv

LEMMA StepOK ==
  ASSUME IInv, [Next]_vars
  PROVE  IInv'
  <1>1. CASE Process \/ ProcessSIMO \/ ProcessMISO
    BY <1>1, LocalStep DEF Process, ProcessSIMO, ProcessMISO
  <1>2. CASE Downsample
    BY <1>2, DownsampleStep
  <1>3. CASE Upsample
    BY <1>3, UpsampleStep
  <1>4. CASE \/ ProcessPixels \/ ProcessPixels2 \/ ProcessPixels3
             \/ SplitStream \/ SplitStream3 \/ SplitStream4
    <2>1. IsPoint /\ PointBody
      BY <1>4 DEF IsPoint, ProcessPixels, ProcessPixels2, ProcessPixels3,
                  SplitStream, SplitStream3, SplitStream4
    <2> QED
      BY <2>1, PointStep
  <1>5. CASE UNCHANGED vars
    <2> USE <1>5 DEF vars
    <2>1. TypeOK'
      BY DEF IInv, TypeOK, Inputs, Window, Rows, Cols, GDelayX, GDelayY, KernelX,
             KernelY
    <2>2. LoopOK'
      BY DEF IInv, LoopOK, IsPoint, Running, GDelayX, GDelayY, KernelX, KernelY
    <2>3. CountOK'
      BY DEF IInv, CountOK, IsPoint, IsDown, Factor, IsUp, GDelayX, GDelayY,
             KernelX, KernelY
    <2>4. LinesOK'
      BY DEF IInv, LinesOK, IsPoint, LineOf, InPicture, ImagePixel, Inputs,
             GDelayY, KernelY
    <2>5. WindowsOK'
      BY DEF IInv, WindowsOK, Shows, IsPoint, InPicture, ImagePixel, Inputs, Rows,
             Cols, GDelayX, GDelayY, KernelX, KernelY
    <2>6. OutputIsFilteredImage'
      <3>1. call' = call /\ win' = win /\ writes' = writes
        OBVIOUS
      <3>2. AtY' = AtY /\ AtX' = AtX
        BY <3>1 DEF AtY, AtX, Step, OutWidth, IsPoint
      <3>3. \A p : Neighbourhood(p, AtY, AtX)' = Neighbourhood(p, AtY, AtX)
        BY <3>1, <3>2, CallStays DEF Neighbourhood, ImagePixel
      <3>4. Inputs' = Inputs
        BY <3>1, CallStays
      <3> QED
        BY <3>1, <3>2, <3>3, <3>4 DEF IInv, OutputIsFilteredImage
    <2> QED
      BY <2>1, <2>2, <2>3, <2>4, <2>5, <2>6 DEF IInv
  <1> QED
    BY <1>1, <1>2, <1>3, <1>4, <1>5 DEF Next

LEMMA ReadsAtTheEnd ==
  ASSUME IInv
  PROVE  ConsumesImage
  <1>1. SUFFICES ASSUME ~Running
                 PROVE  reads = IF call.op = "upsample"
                                THEN (call.width \div call.factor) *
                                     (call.height \div call.factor)
                                ELSE call.width * call.height
    BY DEF ConsumesImage
  <1>2. PICK w, h, r : w = call.width /\ h = call.height /\ r = row
    OBVIOUS
  <1>3. /\ call \in Call /\ w \in Nat /\ h \in Nat /\ r \in Nat /\ r >= h /\ col = 0
    <2>1. call \in Call
      BY DEF IInv, TypeOK
    <2>2. /\ w \in 1..MaxWidth /\ h \in 1..MaxHeight
          /\ MaxWidth \in Nat /\ MaxHeight \in Nat /\ GDelayY \in Nat
      BY <1>2, <2>1, CallFacts
    <2>3. col = 0 /\ row = IF IsPoint THEN call.height ELSE MaxHeight + GDelayY
      BY <1>1 DEF IInv, LoopOK
    <2> QED
      BY <1>2, <2>1, <2>2, <2>3
  <1>4. reads = ReadUpTo(Factor, w, h, r, 0)
    BY <1>2, <1>3 DEF IInv, CountOK
  <1>5. CASE ~IsUp
    <2>1. ReadUpTo(1, w, h, r, 0) = h * w
      BY <1>3 DEF ReadUpTo, Min2
    <2> QED
      BY <1>2, <1>3, <1>4, <1>5, <2>1 DEF Factor, IsUp
  <1>6. CASE IsUp
    <2>1. ReadUpTo(2, w, h, r, 0) = (h \div 2) * (w \div 2)
      BY <1>3 DEF ReadUpTo, Min2
    <2>2. call.factor = 2
      BY <1>3, <1>6, CallFacts
    <2>3. (h \div 2) * (w \div 2) = (w \div 2) * (h \div 2)
      BY <1>3
    <2> QED
      BY <1>2, <1>4, <1>6, <2>1, <2>2, <2>3 DEF Factor, IsUp
  <1> QED
    BY <1>5, <1>6

(* Loop variables, streams and buffers stay in their ranges, whatever the  *)
(* sizes of the window, of the image and of the largest image: the loops   *)
(* read no more pixels than the largest image has and write no more.       *)
THEOREM TypeCorrect == Spec => []TypeOK
  <1>1. IInv => TypeOK
    BY DEF IInv
  <1> QED
    BY InitOK, StepOK, <1>1, PTL DEF Spec

(* Every operator writes the filtered image: the k-th pixel was computed   *)
(* from the neighbourhood of the k-th (retained) pixel, padded at the      *)
(* border (process, processSIMO, processMISO, downsample, upsample,        *)
(* processPixels and splitStream).                                         *)
THEOREM FiltersImage == Spec => []OutputIsFilteredImage
  <1>1. IInv => OutputIsFilteredImage
    BY DEF IInv
  <1> QED
    BY InitOK, StepOK, <1>1, PTL DEF Spec

(* An operator that has ended has read exactly the pixels of its image:    *)
(* it neither starves nor leaves pixels behind.                            *)
THEOREM LeavesNothing == Spec => []ConsumesImage
  BY InitOK, StepOK, ReadsAtTheEnd, PTL DEF Spec

=============================================================================
