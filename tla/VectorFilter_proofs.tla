------------------------ MODULE VectorFilter_proofs ------------------------
(***************************************************************************)
(* Theorems about VectorFilter, for words of any number of pixels, windows *)
(* and images of any size: the streams balance, and each lane away from    *)
(* the left and right border is computed from its own neighbourhood; by    *)
(* the wide operators the others are, too.                                 *)
(***************************************************************************)
EXTENDS VectorFilter, TLAPS

Paddings == {"CLAMP", "MIRROR", "MIRROR_101"}

-----------------------------------------------------------------------------
(* Arithmetic.                                                             *)
LEMMA DivMod ==
  ASSUME NEW w \in Nat \ {0}, NEW q \in Nat, NEW r \in 0..(w - 1)
  PROVE  (q * w + r) \div w = q /\ (q * w + r) % w = r
  OBVIOUS

LEMMA OneMore ==
  ASSUME NEW q \in Nat, NEW w \in Nat
  PROVE  /\ q * w \in Nat
         /\ (q + 1) * w = q * w + w
  OBVIOUS

LEMMA Product ==
  ASSUME NEW a \in Nat, NEW A \in Nat, a <= A, NEW b \in Nat, NEW B \in Nat,
         b <= B
  PROVE  a * b \in Nat /\ A * B \in Nat /\ a * b <= A * B
  OBVIOUS

(* Pixel l of word q, if it is one of the first N words.                   *)
LEMMA WordOfPixel ==
  ASSUME NEW V \in Nat \ {0}, NEW N \in Nat, NEW q \in Int,
         NEW l \in 0..(V - 1), NEW n \in 0..(N * V - 1), n = q * V + l
  PROVE  q \in 0..(N - 1) /\ n \div V = q /\ n % V = l
  <1>1. q >= 0
    <2>1. SUFFICES ASSUME q < 0 PROVE FALSE
      OBVIOUS
    <2>2. PICK d \in Nat : q = -(d + 1)
      <3>1. -(q + 1) \in Nat /\ q = -((-(q + 1)) + 1)
        BY <2>1
      <3> QED
        BY <3>1
    <2>3. q * V = -((d + 1) * V) /\ (d + 1) * V = d * V + V /\ d * V \in Nat
      BY <2>2, OneMore
    <2> QED
      BY <2>3
  <1>2. q < N
    <2>1. SUFFICES ASSUME q >= N PROVE FALSE
      BY <1>1
    <2>2. N * V <= q * V /\ q * V \in Nat /\ N * V \in Nat
      BY <1>1, <2>1, Product
    <2> QED
      BY <2>2
  <1>3. n \div V = q /\ n % V = l
    BY <1>1, DivMod
  <1> QED
    BY <1>1, <1>2, <1>3

LEMMA Quotient ==
  ASSUME NEW V \in Nat \ {0}, NEW n \in Int
  PROVE  n \div V \in Int /\ n % V \in 0..(V - 1) /\ n = (n \div V) * V + (n % V)
  OBVIOUS

(* Rounding up.                                                            *)
LEMMA RoundUp ==
  ASSUME NEW k \in Nat \ {0}, NEW a \in Nat, NEW q, q = DivUp(a, k)
  PROVE  /\ q \in Nat /\ a <= q * k
         /\ \A j \in Nat : j < q <=> k * j < a
         /\ a > 0 => q > 0
  <1>1. PICK n \in Int, r \in 0..(k - 1) : n = q /\ a + k - 1 = n * k + r
    <2>1. q = (a + k - 1) \div k
      BY DEF DivUp
    <2> QED
      BY <2>1, Quotient
  <1>2. n \in Nat
    <2>1. SUFFICES ASSUME n < 0 PROVE FALSE
      OBVIOUS
    <2>2. PICK d \in Nat : n = -(d + 1)
      <3>1. -(n + 1) \in Nat /\ n = -((-(n + 1)) + 1)
        BY <2>1
      <3> QED
        BY <3>1
    <2>3. n * k = -((d + 1) * k) /\ (d + 1) * k = d * k + k /\ d * k \in Nat
      BY <2>2, OneMore
    <2> QED
      BY <1>1, <2>3
  <1>3. n * k \in Nat
    BY <1>2, OneMore
  <1>4. a <= n * k /\ n * k < a + k
    BY <1>1, <1>3
  <1>5. ASSUME NEW j \in Nat
        PROVE  j < n <=> k * j < a
    <2>1. k * j = j * k /\ j * k \in Nat
      BY OneMore
    <2>2. CASE j < n
      <3>1. (j + 1) * k <= n * k /\ (j + 1) * k = j * k + k
        BY <1>2, <2>2, Product, OneMore
      <3> QED
        BY <1>3, <1>4, <2>1, <2>2, <3>1
    <2>3. CASE ~(j < n)
      <3>1. n * k <= j * k
        BY <1>2, <2>3, Product
      <3> QED
        BY <1>3, <1>4, <2>1, <2>3, <3>1
    <2> QED
      BY <2>2, <2>3
  <1>6. a > 0 => n > 0
    BY <1>2, <1>4
  <1> QED
    BY <1>1, <1>2, <1>4, <1>5, <1>6

-----------------------------------------------------------------------------
(* Counting.                                                               *)

Even(n) == n % 2 = 0

(* The words read before column c of row r of w by h words; if the image   *)
(* is upsampled, those at even rows and columns.                           *)
IsRead(up, w, h, r, c) == r < h /\ c < w /\ (up => Even(r) /\ Even(c))

ReadUpTo(up, w, h, r, c) ==
  LET rows == Min2(r, h)
      cols == IF r < h THEN Min2(c, w) ELSE 0
  IN IF up THEN DivUp(rows, 2) * DivUp(w, 2)
                  + (IF Even(rows) THEN DivUp(cols, 2) ELSE 0)
     ELSE rows * w + cols

(* The words of the loop's rows of w words before column x of row y.       *)
WrittenUpTo(w, y, x) == IF y < 0 THEN 0 ELSE y * w + Max2(x, 0)

LEMMA HalfUp ==
  ASSUME NEW n \in Nat
  PROVE  /\ DivUp(n, 2) \in Nat /\ DivUp(n, 2) <= n
         /\ DivUp(n + 1, 2) = IF Even(n) THEN DivUp(n, 2) + 1 ELSE DivUp(n, 2)
         /\ Even(n + 1) <=> ~Even(n)
  BY DEF DivUp, Even

LEMMA ReadStep ==
  ASSUME NEW up \in BOOLEAN, NEW w \in Nat \ {0}, NEW h \in Nat \ {0},
         NEW r \in Nat, NEW c \in Nat, NEW e, e = c + 1
  PROVE  ReadUpTo(up, w, h, r, e) =
           ReadUpTo(up, w, h, r, c) + (IF IsRead(up, w, h, r, c) THEN 1 ELSE 0)
  <1>1. CASE ~up
    <2>1. r * w \in Nat /\ (r + 1) * w = r * w + w
      BY OneMore
    <2> QED
      BY <1>1, <2>1 DEF ReadUpTo, Min2, IsRead
  <1>2. CASE up
    <2>1. CASE r < h /\ Even(r) /\ c < w
      <3>1. Min2(r, h) = r /\ Min2(c, w) = c /\ Min2(e, w) = e
        BY <2>1 DEF Min2
      <3>2. PICK m : m = DivUp(r, 2) * DivUp(w, 2)
        OBVIOUS
      <3>3. m \in Nat
        BY <3>2, HalfUp, OneMore
      <3>4. /\ ReadUpTo(up, w, h, r, c) = m + DivUp(c, 2)
            /\ ReadUpTo(up, w, h, r, e) = m + DivUp(e, 2)
        BY <1>2, <2>1, <3>1, <3>2 DEF ReadUpTo
      <3>5. /\ DivUp(c, 2) \in Nat
            /\ DivUp(e, 2) = IF Even(c) THEN DivUp(c, 2) + 1 ELSE DivUp(c, 2)
        BY HalfUp
      <3>6. IsRead(up, w, h, r, c) <=> Even(c)
        BY <1>2, <2>1 DEF IsRead
      <3> QED
        BY <3>3, <3>4, <3>5, <3>6
    <2>2. CASE ~(r < h /\ Even(r) /\ c < w)
      <3>1. ~IsRead(up, w, h, r, c)
        BY <1>2, <2>2 DEF IsRead
      <3>2. ReadUpTo(up, w, h, r, e) = ReadUpTo(up, w, h, r, c)
        <4>1. CASE c < w
          <5>1. CASE r < h
            <6>1. ~Even(r) /\ Min2(r, h) = r
              BY <2>2, <4>1, <5>1 DEF Min2
            <6> QED
              BY <1>2, <5>1, <6>1 DEF ReadUpTo
          <5>2. CASE ~(r < h)
            BY <5>2 DEF ReadUpTo
          <5> QED
            BY <5>1, <5>2
        <4>2. CASE ~(c < w)
          <5>1. Min2(c, w) = w /\ Min2(e, w) = w
            BY <4>2 DEF Min2
          <5> QED
            BY <5>1 DEF ReadUpTo
        <4> QED
          BY <4>1, <4>2
      <3>3. ReadUpTo(up, w, h, r, c) \in Int
        <4>1. PICK m, n : m = Min2(r, h) /\ n = IF r < h THEN Min2(c, w) ELSE 0
          OBVIOUS
        <4>2. m \in Nat /\ n \in Nat
          BY <4>1 DEF Min2
        <4>3. DivUp(m, 2) \in Nat /\ DivUp(w, 2) \in Nat /\ DivUp(n, 2) \in Nat
          BY <4>2, HalfUp
        <4>4. DivUp(m, 2) * DivUp(w, 2) \in Nat
          BY <4>3, OneMore
        <4>5. ReadUpTo(up, w, h, r, c) =
                DivUp(m, 2) * DivUp(w, 2) + (IF Even(m) THEN DivUp(n, 2) ELSE 0)
          BY <1>2, <4>1 DEF ReadUpTo
        <4> QED
          BY <4>3, <4>4, <4>5
      <3> QED
        BY <3>1, <3>2, <3>3
    <2> QED
      BY <2>1, <2>2
  <1> QED
    BY <1>1, <1>2

LEMMA ReadRow ==
  ASSUME NEW up \in BOOLEAN, NEW w \in Nat \ {0}, NEW h \in Nat \ {0},
         NEW r \in Nat, NEW c \in Nat, c >= w, NEW q \in Nat, q = r + 1
  PROVE  ReadUpTo(up, w, h, q, 0) = ReadUpTo(up, w, h, r, c)
  <1>1. CASE ~up
    <2>1. r * w \in Nat /\ (r + 1) * w = r * w + w
      BY OneMore
    <2> QED
      BY <1>1, <2>1 DEF ReadUpTo, Min2
  <1>2. CASE up
    <2>1. Min2(0, w) = 0 /\ Min2(c, w) = w /\ DivUp(0, 2) = 0
      BY DEF Min2, DivUp
    <2>2. PICK a, b : a = DivUp(r, 2) /\ b = DivUp(w, 2)
      OBVIOUS
    <2>3. /\ a \in Nat /\ b \in Nat /\ a * b \in Nat /\ (a + 1) * b = a * b + b
          /\ DivUp(q, 2) = IF Even(r) THEN a + 1 ELSE a
          /\ (Even(q) <=> ~Even(r))
      BY <2>2, HalfUp, OneMore
    <2>4. CASE r < h
      <3>1. Min2(r, h) = r /\ Min2(q, h) = q
        BY <2>4 DEF Min2
      <3>2. /\ ReadUpTo(up, w, h, r, c) = a * b + (IF Even(r) THEN b ELSE 0)
            /\ ReadUpTo(up, w, h, q, 0) = DivUp(q, 2) * b + 0
        BY <1>2, <2>1, <2>2, <2>4, <3>1 DEF ReadUpTo
      <3>3. CASE Even(r)
        BY <2>3, <3>2, <3>3
      <3>4. CASE ~Even(r)
        BY <2>3, <3>2, <3>4
      <3> QED
        BY <3>3, <3>4
    <2>5. CASE ~(r < h)
      <3>1. Min2(r, h) = h /\ Min2(q, h) = h /\ ~(q < h)
        BY <2>5 DEF Min2
      <3> QED
        BY <1>2, <2>5, <3>1 DEF ReadUpTo
    <2> QED
      BY <2>4, <2>5
  <1> QED
    BY <1>1, <1>2

(* No more words than the largest image has pixels.                        *)
LEMMA ReadBound ==
  ASSUME NEW up \in BOOLEAN, NEW w \in Nat \ {0}, NEW h \in Nat \ {0},
         NEW r \in Nat, NEW c \in Nat
  PROVE  /\ ReadUpTo(up, w, h, r, c) \in 0..(w * h)
         /\ IsRead(up, w, h, r, c) => ReadUpTo(up, w, h, r, c) < w * h
  <1>1. w * h \in Nat /\ h * w = w * h
    BY OneMore
  <1>2. CASE ~up
    <2>1. r < h => (r + 1) * w \in Nat /\ (r + 1) * w = r * w + w
                   /\ r * w \in Nat /\ (r + 1) * w <= h * w
      BY OneMore, Product
    <2> QED
      BY <1>1, <1>2, <2>1 DEF ReadUpTo, Min2, IsRead
  <1>3. CASE up
    <2>1. PICK m, n, a, b, d : /\ m = Min2(r, h)
                               /\ n = (IF r < h THEN Min2(c, w) ELSE 0)
                               /\ a = DivUp(m, 2) /\ b = DivUp(w, 2) /\ d = DivUp(n, 2)
      OBVIOUS
    <2>2. m \in 0..h /\ n \in 0..w /\ (m = h => n = 0)
      BY <2>1 DEF Min2
    <2>3. a \in Nat /\ a <= m /\ b \in Nat /\ b <= w /\ d \in Nat /\ d <= b
      BY <2>1, <2>2 DEF DivUp
    <2>4. a * b \in Nat /\ (a + 1) * b = a * b + b
      BY <2>3, OneMore
    <2>5. ReadUpTo(up, w, h, r, c) = a * b + (IF Even(m) THEN d ELSE 0)
      BY <1>3, <2>1 DEF ReadUpTo
    <2>6. a * b <= h * w
      BY <2>2, <2>3, Product
    <2>7. CASE m = h
      <3>1. d = 0
        BY <2>1, <2>2, <2>7 DEF DivUp
      <3>2. ~IsRead(up, w, h, r, c)
        BY <2>1, <2>7 DEF IsRead, Min2
      <3> QED
        BY <1>1, <2>4, <2>5, <2>6, <3>1, <3>2
    <2>8. CASE m < h
      <3>1. a + 1 <= h
        BY <2>2, <2>3, <2>8
      <3>2. (a + 1) * b <= h * w
        BY <2>3, <3>1, Product
      <3>3. IsRead(up, w, h, r, c) => d < b
        <4>1. SUFFICES ASSUME IsRead(up, w, h, r, c) PROVE d < b
          OBVIOUS
        <4>2. n = c /\ c < w /\ Even(c)
          BY <1>3, <2>1, <4>1 DEF IsRead, Min2
        <4> QED
          BY <2>1, <4>2 DEF DivUp, Even
      <3>4. b > 0
        BY <2>1 DEF DivUp
      <3>5. IsRead(up, w, h, r, c) => a * b + (IF Even(m) THEN d ELSE 0) < a * b + b
        BY <2>3, <2>4, <3>3, <3>4
      <3> QED
        BY <1>1, <2>3, <2>4, <2>5, <3>2, <3>5
    <2> QED
      BY <2>2, <2>7, <2>8
  <1> QED
    BY <1>2, <1>3

LEMMA WriteStep ==
  ASSUME NEW w \in Nat \ {0}, NEW y \in Int, NEW x \in Int, x < w, NEW e, e = x + 1
  PROVE  /\ WrittenUpTo(w, y, e) =
              WrittenUpTo(w, y, x) + (IF y >= 0 /\ x >= 0 THEN 1 ELSE 0)
         /\ e = w => \A z \in Int : z <= 0 =>
              WrittenUpTo(w, y + 1, z) = WrittenUpTo(w, y, e)
  <1>1. CASE y < 0
    BY <1>1 DEF WrittenUpTo, Max2
  <1>2. CASE y >= 0
    <2>1. y * w \in Nat /\ (y + 1) * w = y * w + w
      BY <1>2, OneMore
    <2> QED
      BY <1>2, <2>1 DEF WrittenUpTo, Max2
  <1> QED
    BY <1>1, <1>2

-----------------------------------------------------------------------------
(* The inductive invariant.                                                *)

Window == [Rows -> [Words -> Word]]
Lines  == [0..(call.kernelY - 2) -> [0..(MaxWidth \div ColsPerWord - 1) -> Word]]
Answer == [OutRows -> [OutCols -> Pixel]]

TypeOK ==
  /\ call \in Call
  /\ row \in Nat /\ col \in Nat /\ writes \in Nat
  /\ reads \in 0..(MaxWidth * MaxHeight)
  /\ inWord \in [Inputs -> Word]
  /\ lineBuff \in [Inputs -> Lines]
  /\ winTmp \in [Inputs -> Window]
  /\ winVect \in [Inputs -> Answer]
  /\ out \in [Inputs -> Answer]

IsUp      == call.op = "upsampleVECT"
IsPyramid == call.op \in Pyramid

(* The words a loop waits, and the rows it has.                            *)
Delay == DivUp(DelayCols, ColsPerWord)
LastRow == IF IsLocal THEN LoopHeight + GDelayY
           ELSE IF IsPyramid THEN MaxHeight + GDelayY ELSE call.height

(* A loop runs over whole words and whole rows.                            *)
LoopOK ==
  /\ WordCol \in Nat /\ col = ColsPerWord * WordCol
  /\ IsLocal => WordCol < OutWordsPerRow + Delay
  /\ row < LastRow \/ (row = LastRow /\ col = 0)

(* The streams are where the loop is.                                      *)
CountOK ==
  /\ reads = ReadUpTo(IsUp, WordsPerRow, call.height, row, WordCol)
  /\ IsLocal =>
       writes = WrittenUpTo(OutWordsPerRow, row - GDelayY, WordCol - Delay)
  /\ ~IsLocal /\ call.op # "downsampleVECT" =>
       writes = ReadUpTo(FALSE, WordsPerRow, call.height, row, WordCol)

InPicture(y, c) == y \in 0..(call.height - 1) /\ c \in 0..(WordsPerRow - 1)
WordAt(p, y, c) == <<p, y * WordsPerRow + c>>

(* The line buffer holds the newest lines of the image.                    *)
LineOf(i, c) == (IF c < WordCol THEN row ELSE row - 1) - (call.kernelY - 2 - i)

LinesOK ==
  IsLocal /\ row < call.height + GDelayY =>
    \A p \in Inputs : \A i \in 0..(call.kernelY - 2) : \A c \in 0..(WordsPerRow - 1) :
      InPicture(LineOf(i, c), c) => lineBuff[p][i][c] = WordAt(p, LineOf(i, c), c)

(* A window that has just taken in word c of line y, or the place where    *)
(* that would be, shows the image around.                                  *)
Shows(w, p, y, c) ==
  \A i \in Rows : \A j \in Words :
    InPicture(y - (call.kernelY - 1) + i, c - (KernelXV - 1) + j) =>
      w[i][j] = WordAt(p, y - (call.kernelY - 1) + i, c - (KernelXV - 1) + j)

(* The wide operators show it behind the end of a row, too.                *)
WindowsOK ==
  /\ IsLocal /\ row < call.height + GDelayY
  /\ WordCol <= WordsPerRow + (IF call.op \in Wide THEN Delay ELSE 0)
  => \A p \in Inputs : Shows(winTmp[p], p, row, WordCol - 1)

IInv == /\ TypeOK /\ LoopOK /\ CountOK /\ LinesOK /\ WindowsOK
        /\ InnerPixelsAreFiltered /\ BorderPixelsAreFiltered

-----------------------------------------------------------------------------
LEMMA Odd ==
  ASSUME NEW k \in Nat, k % 2 = 1
  PROVE  k \div 2 \in Nat /\ k = 2 * (k \div 2) + 1
  OBVIOUS

LEMMA CallFacts ==
  ASSUME call \in Call
  PROVE  /\ Vect \in Nat \ {0}
         /\ ColsPerWord \in Nat \ {0} /\ ColsPerWord = IF IsWord THEN 1 ELSE Vect
         /\ GDelayX \in Nat /\ call.kernelX = 2 * GDelayX + 1
         /\ GDelayY \in Nat /\ call.kernelY = 2 * GDelayY + 1
         /\ GDelayXV \in Nat /\ KernelXV = 2 * GDelayXV + 1
         /\ GDelayXV = IF GDelayX > Vect THEN DivUp(GDelayX, Vect) ELSE GDelayX
         /\ DelayCols \in Nat /\ DelayCols = IF IsWord THEN GDelayXV ELSE GDelayX
         /\ MaxWidth \in Nat \ {0} /\ MaxHeight \in Nat \ {0}
         /\ call.width \in 1..MaxWidth /\ call.height \in 1..MaxHeight
         /\ call.padding \in Paddings
         /\ IsLocal => call.height >= 2 * GDelayY
         /\ Inputs \subseteq {1, 2, 3}
  <1>1. /\ call.vect \in Nat \ {0}
        /\ call.kernelX \in Nat /\ call.kernelX % 2 = 1
        /\ call.kernelY \in Nat /\ call.kernelY % 2 = 1
        /\ call.width \in 1..MaxWidth /\ call.height \in 1..MaxHeight
        /\ call.op # "splitStreamVECT" => call.streams \in 1..3
        /\ call.padding \in Paddings
    BY VectorCallsAreLegal DEF Paddings
  <1>2. /\ GDelayX \in Nat /\ call.kernelX = 2 * GDelayX + 1
        /\ GDelayY \in Nat /\ call.kernelY = 2 * GDelayY + 1
    BY <1>1, Odd DEF GDelayX, GDelayY
  <1>3. Vect \in Nat \ {0}
    BY <1>1 DEF Vect
  <1>4. /\ GDelayXV \in Nat /\ KernelXV = 2 * GDelayXV + 1
        /\ GDelayXV = IF GDelayX > Vect THEN DivUp(GDelayX, Vect) ELSE GDelayX
    <2>1. PICK d : d = DivUp(GDelayX, Vect)
      OBVIOUS
    <2>2. d \in Nat
      BY <1>2, <1>3, <2>1, RoundUp
    <2>3. KernelXV = IF GDelayX > Vect THEN 2 * d + 1 ELSE 2 * GDelayX + 1
      BY <1>2, <2>1 DEF KernelXV
    <2>4. \A n \in Nat : (2 * n + 1) \div 2 = n
      OBVIOUS
    <2>5. GDelayXV = IF GDelayX > Vect THEN d ELSE GDelayX
      BY <1>2, <2>2, <2>3, <2>4 DEF GDelayXV
    <2> QED
      BY <1>2, <2>1, <2>2, <2>3, <2>5
  <1>5. /\ ColsPerWord \in Nat \ {0} /\ ColsPerWord = IF IsWord THEN 1 ELSE Vect
        /\ DelayCols \in Nat /\ DelayCols = IF IsWord THEN GDelayXV ELSE GDelayX
    BY <1>2, <1>3, <1>4 DEF ColsPerWord, DelayCols
  <1>6. MaxWidth \in Nat \ {0} /\ MaxHeight \in Nat \ {0}
    BY VectorSizesArePositive
  <1>7. IsLocal => call.height >= 2 * GDelayY
    BY <1>2, ImageCoversRows DEF IsLocal
  <1>8. Inputs \subseteq {1, 2, 3}
    <2>1. \A s \in 1..3 : 1..s \subseteq {1, 2, 3}
      OBVIOUS
    <2>2. call.op # "splitStreamVECT" => 1..call.streams \subseteq {1, 2, 3}
      BY <1>1, <2>1
    <2>3. \/ Inputs = {1, 2} \/ Inputs = {1}
          \/ call.op # "splitStreamVECT" /\ Inputs = 1..call.streams
      BY DEF Inputs
    <2> QED
      BY <2>2, <2>3
  <1> QED
    BY <1>1, <1>2, <1>3, <1>4, <1>5, <1>6, <1>7, <1>8

(* The call stays, and with it all that depends on it alone.               *)
LEMMA CallStays ==
  ASSUME call' = call
  PROVE  /\ Vect' = Vect /\ ColsPerWord' = ColsPerWord
         /\ IsLocal' = IsLocal /\ IsWord' = IsWord /\ IsUp' = IsUp
         /\ IsPyramid' = IsPyramid
         /\ GDelayX' = GDelayX /\ GDelayY' = GDelayY
         /\ GDelayXV' = GDelayXV /\ KernelXV' = KernelXV /\ DelayCols' = DelayCols
         /\ Delay' = Delay /\ LastRow' = LastRow
         /\ LoopWidth' = LoopWidth /\ LoopHeight' = LoopHeight
         /\ WordsPerRow' = WordsPerRow /\ OutWordsPerRow' = OutWordsPerRow
         /\ Rows' = Rows /\ Words' = Words /\ Lanes' = Lanes /\ Cols' = Cols
         /\ Inputs' = Inputs /\ Window' = Window /\ Lines' = Lines
         /\ Pixel' = Pixel /\ Answer' = Answer
         /\ \A y, x : InPicture(y, x)' = InPicture(y, x)
         /\ \A p, y, x : WordAt(p, y, x)' = WordAt(p, y, x)
  <1> USE DEF Vect, ColsPerWord, IsLocal, IsWord, IsUp, IsPyramid, GDelayX, GDelayY,
              GDelayXV, KernelXV, DelayCols, Delay, LastRow, LoopWidth, LoopHeight,
              WordsPerRow, OutWordsPerRow, Rows, Words, Lanes, Cols, Inputs
  <1>1. /\ Vect' = Vect /\ ColsPerWord' = ColsPerWord
        /\ IsLocal' = IsLocal /\ IsWord' = IsWord /\ IsUp' = IsUp
        /\ IsPyramid' = IsPyramid
        /\ GDelayX' = GDelayX /\ GDelayY' = GDelayY
        /\ GDelayXV' = GDelayXV /\ KernelXV' = KernelXV /\ DelayCols' = DelayCols
        /\ Delay' = Delay /\ LastRow' = LastRow
        /\ LoopWidth' = LoopWidth /\ LoopHeight' = LoopHeight
        /\ WordsPerRow' = WordsPerRow /\ OutWordsPerRow' = OutWordsPerRow
    OBVIOUS
  <1>2. /\ Rows' = Rows /\ Words' = Words /\ Lanes' = Lanes /\ Cols' = Cols
        /\ Inputs' = Inputs
    OBVIOUS
  <1> HIDE DEF Vect, ColsPerWord, IsLocal, IsWord, GDelayX, GDelayY,
               GDelayXV, KernelXV, DelayCols, Delay, LastRow, LoopWidth, LoopHeight,
               WordsPerRow, OutWordsPerRow, Rows, Words, Lanes, Cols, Inputs
  <1>3. /\ Window' = Window /\ Lines' = Lines /\ Pixel' = Pixel
        /\ OutRows' = OutRows /\ OutCols' = OutCols
    BY <1>1, <1>2 DEF Window, Lines, Pixel, OutRows, OutCols
  <1>4. Answer' = Answer
    BY <1>3 DEF Answer
  <1>5. \A y, x : InPicture(y, x)' = InPicture(y, x)
    BY <1>1 DEF InPicture
  <1>6. \A p, y, x : WordAt(p, y, x)' = WordAt(p, y, x)
    BY <1>1 DEF WordAt
  <1> QED
    BY <1>1, <1>2, <1>3, <1>4, <1>5, <1>6

(* Columns, which the loops count in words or in pixels, counted in words. *)
LEMMA InWords ==
  ASSUME call \in Call, NEW j \in Nat, col = ColsPerWord * j
  PROVE  /\ WordCol = j
         /\ WordsPerRow \in Nat \ {0} /\ WordsPerRow <= MaxWidth
         /\ col < call.width <=> j < WordsPerRow
         /\ Delay \in Nat /\ (col >= DelayCols <=> j >= Delay)
         /\ call.width <= WordsPerRow * ColsPerWord
  <1>1. PICK k, d, w : k = ColsPerWord /\ d = DelayCols /\ w = call.width
    OBVIOUS
  <1>2. k \in Nat \ {0} /\ d \in Nat /\ w \in Nat \ {0} /\ w <= MaxWidth
        /\ MaxWidth \in Nat
    <2>1. w \in 1..MaxWidth /\ MaxWidth \in Nat
      BY <1>1, CallFacts
    <2> QED
      BY <1>1, <2>1, CallFacts
  <1>3. PICK a, e : a = WordsPerRow /\ e = Delay
    OBVIOUS
  <1>4. a \in Nat /\ w <= a * k /\ a > 0 /\ (j < a <=> k * j < w)
    <2>1. a = DivUp(w, k) /\ w \in Nat
      BY <1>1, <1>2, <1>3 DEF WordsPerRow
    <2>2. /\ a \in Nat /\ w <= a * k
          /\ \A i \in Nat : i < a <=> k * i < w
          /\ w > 0 => a > 0
      BY <1>2, <2>1, RoundUp
    <2>3. w > 0
      BY <1>2
    <2> QED
      BY <2>2, <2>3
  <1>5. e \in Nat /\ (j < e <=> k * j < d)
    <2>1. e = DivUp(d, k)
      BY <1>1, <1>3 DEF Delay
    <2> QED
      BY <1>2, <2>1, RoundUp
  <1>6. a <= MaxWidth
    <2>1. a = DivUp(w, k)
      BY <1>1, <1>3 DEF WordsPerRow
    <2>2. \A i \in Nat : i < a <=> k * i < w
      BY <1>2, <2>1, RoundUp
    <2>3. ~(w < a)
      <3>1. k * w >= w
        BY <1>2, Product
      <3> QED
        BY <1>2, <2>2, <3>1
    <2> QED
      BY <1>2, <1>4, <2>3
  <1>7. k * j \in Nat /\ (k * j) \div k = j
    <2>1. k * j = j * k + 0 /\ j * k \in Nat
      BY <1>2, OneMore
    <2>2. 0 \in 0..(k - 1)
      BY <1>2
    <2>3. (j * k + 0) \div k = j
      BY <1>2, <2>2, DivMod
    <2> QED
      BY <2>1, <2>3
  <1> QED
    BY <1>1, <1>2, <1>3, <1>4, <1>5, <1>6, <1>7 DEF WordCol

(* The loop of a local operator covers the image, and the words it waits.  *)
LEMMA LocalInWords ==
  ASSUME call \in Call, IsLocal, NEW j \in Nat, col = ColsPerWord * j
  PROVE  /\ OutWordsPerRow \in Nat \ {0} /\ WordsPerRow <= OutWordsPerRow
         /\ col + ColsPerWord < LoopWidth + DelayCols <=> j + 1 < OutWordsPerRow + Delay
         /\ LoopHeight \in Nat /\ call.height <= LoopHeight /\ LoopHeight <= MaxHeight
         /\ WordsPerRow <= MaxWidth \div ColsPerWord
         /\ Lag = Delay
  <1>1. PICK k, d, w, W : k = ColsPerWord /\ d = DelayCols /\ w = call.width
                          /\ W = OutWordsPerRow
    OBVIOUS
  <1>2. k \in Nat \ {0} /\ d \in Nat /\ w \in Nat \ {0} /\ w <= MaxWidth
        /\ MaxWidth \in Nat \ {0} /\ MaxHeight \in Nat \ {0}
        /\ call.height \in 1..MaxHeight
    <2>1. w \in 1..MaxWidth /\ MaxWidth \in Nat \ {0} /\ MaxHeight \in Nat \ {0}
          /\ call.height \in 1..MaxHeight
      BY <1>1, CallFacts
    <2> QED
      BY <1>1, <2>1, CallFacts
  <1>3. LoopWidth = W * k /\ W \in Nat \ {0} /\ w <= W * k /\ W <= MaxWidth \div k
    <2>1. W = LoopWidth \div k
      BY <1>1 DEF OutWordsPerRow
    <2>2. CASE IsWord
      <3>1. k = 1
        BY <1>1, <2>2, CallFacts
      <3>2. LoopWidth \in Nat \ {0} /\ w <= LoopWidth /\ LoopWidth <= MaxWidth
        BY <1>1, <1>2 DEF LoopWidth
      <3>3. \A n \in Nat : n \div 1 = n /\ n * 1 = n
        OBVIOUS
      <3> QED
        BY <1>2, <2>1, <3>1, <3>2, <3>3
    <2>3. CASE ~IsWord
      <3>1. k = Vect /\ call.op \notin WordOps
        BY <1>1, <2>3, CallFacts DEF IsWord
      <3>2. MaxWidth % k = 0
        BY <3>1, MaxWidthIsPadded DEF Vect
      <3>3. LoopWidth = MaxWidth
        BY <3>1 DEF LoopWidth, WordOps, WordLocal, LeftAligned
      <3>4. MaxWidth = (MaxWidth \div k) * k + (MaxWidth % k) /\ MaxWidth \div k \in Int
        BY <1>2, Quotient
      <3>5. MaxWidth = W * k /\ W \in Int
        BY <1>2, <2>1, <3>2, <3>3, <3>4
      <3>6. W \in Nat
        BY <1>2, <2>1, <3>3
      <3>7. W # 0
        BY <1>2, <3>5
      <3> QED
        BY <1>2, <2>1, <3>3, <3>5, <3>6, <3>7
    <2> QED
      BY <2>2, <2>3
  <1>4. PICK a, e : a = WordsPerRow /\ e = Delay
    OBVIOUS
  <1>5. a \in Nat /\ (\A i \in Nat : i < a <=> k * i < w)
    <2>1. a = DivUp(w, k)
      BY <1>1, <1>4 DEF WordsPerRow
    <2> QED
      BY <1>2, <2>1, RoundUp
  <1>6. e \in Nat /\ (\A i \in Nat : i < e <=> k * i < d)
    <2>1. e = DivUp(d, k)
      BY <1>1, <1>4 DEF Delay
    <2> QED
      BY <1>2, <2>1, RoundUp
  <1>7. a <= W
    <2>1. ~(W < a)
      <3>1. k * W = W * k
        BY <1>2, <1>3
      <3>2. W < a => k * W < w
        BY <1>3, <1>5
      <3>3. W * k \in Nat
        BY <1>2, <1>3, OneMore
      <3> QED
        BY <1>2, <1>3, <3>1, <3>2, <3>3
    <2> QED
      BY <1>3, <1>5, <2>1
  <1>8. k * j + k < W * k + d <=> j + 1 < W + e
    <2>1. CASE j + 1 < W
      <3>1. (j + 1) * k <= W * k /\ (j + 1) * k = j * k + k /\ j * k = k * j
        BY <1>2, <1>3, <2>1, Product, OneMore
      <3>2. (j + 2) * k <= W * k /\ (j + 2) * k = (j + 1) * k + k
        <4>1. j + 1 \in Nat /\ j + 2 \in Nat /\ (j + 1) + 1 = j + 2 /\ j + 2 <= W
          BY <1>3, <2>1
        <4>2. (j + 2) * k <= W * k
          BY <1>2, <1>3, <4>1, Product
        <4>3. ((j + 1) + 1) * k = (j + 1) * k + k
          BY <1>2, <4>1, OneMore
        <4> QED
          BY <4>1, <4>2, <4>3
      <3>3. j * k \in Nat /\ W * k \in Nat
        BY <1>2, <1>3, OneMore
      <3> QED
        BY <1>2, <1>3, <1>6, <2>1, <3>1, <3>2, <3>3
    <2>2. CASE ~(j + 1 < W)
      <3>1. PICK i \in Nat : j + 1 = W + i
        <4>1. j + 1 - W \in Nat /\ j + 1 = W + (j + 1 - W)
          BY <1>3, <2>2
        <4> QED
          BY <4>1
      <3>2. (j + 1) * k = j * k + k /\ (W + i) * k = W * k + i * k
        BY <1>2, <1>3, <3>1
      <3>3. k * j + k = W * k + k * i
        <4>1. j * k = k * j /\ i * k = k * i
          BY <1>2
        <4> QED
          BY <3>1, <3>2, <4>1
      <3>4. W * k \in Nat /\ k * i \in Nat
        BY <1>2, <1>3, OneMore
      <3>5. i < e <=> k * i < d
        BY <1>6
      <3> QED
        BY <1>2, <1>3, <1>6, <3>1, <3>3, <3>4, <3>5
    <2> QED
      BY <2>1, <2>2
  <1>9. LoopHeight \in Nat /\ call.height <= LoopHeight /\ LoopHeight <= MaxHeight
    BY <1>2 DEF LoopHeight
  <1>10. a <= MaxWidth \div k
    BY <1>2, <1>3, <1>5, <1>7
  <1>11. Lag = Delay
    BY DEF Lag, Delay
  <1>12. a > 0
    <2>1. 0 < a <=> k * 0 < w
      BY <1>5
    <2> QED
      BY <1>2, <2>1
  <1> QED
    BY <1>1, <1>3, <1>4, <1>7, <1>8, <1>9, <1>10, <1>11

LEMMA LoopAdvances ==
  ASSUME call \in Call, call' = call, NEW j \in Nat, WordCol = j,
         col = ColsPerWord * j, NEW n, AdvanceLoop(n)
  PROVE  \/ /\ col + ColsPerWord < n /\ row' = row
            /\ WordCol' = j + 1 /\ col' = ColsPerWord * (j + 1)
         \/ /\ ~(col + ColsPerWord < n) /\ row' = row + 1
            /\ WordCol' = 0 /\ col' = 0
  <1>1. PICK k : k = ColsPerWord
    OBVIOUS
  <1>2. k \in Nat \ {0} /\ ColsPerWord' = k
    BY <1>1, CallFacts, CallStays
  <1>3. ASSUME NEW i \in Nat
        PROVE  k * i \in Nat /\ k * (i + 1) = k * i + k /\ (k * i) \div k = i
    <2>1. k * i = i * k + 0 /\ i * k \in Nat /\ (i + 1) * k = i * k + k
          /\ k * (i + 1) = (i + 1) * k
      BY <1>2, OneMore
    <2>2. (i * k + 0) \div k = i
      <3>1. 0 \in 0..(k - 1)
        BY <1>2
      <3> QED
        BY <1>2, <3>1, DivMod
    <2> QED
      BY <2>1, <2>2
  <1>4. CASE col + k < n
    <2>1. col' = col + k /\ row' = row
      BY <1>1, <1>4 DEF AdvanceLoop
    <2>2. col' = k * (j + 1)
      BY <1>1, <1>3, <2>1
    <2>3. j + 1 \in Nat /\ WordCol' = col' \div k
      BY <1>2 DEF WordCol
    <2>4. WordCol' = j + 1
      BY <1>3, <2>2, <2>3
    <2> QED
      BY <1>1, <1>4, <2>1, <2>2, <2>4
  <1>5. CASE ~(col + k < n)
    <2>1. col' = 0 /\ row' = row + 1
      BY <1>1, <1>5 DEF AdvanceLoop
    <2>2. WordCol' = 0 \div k
      BY <1>2, <2>1 DEF WordCol
    <2>3. k * 0 = 0 /\ (k * 0) \div k = 0
      BY <1>2, <1>3
    <2> QED
      BY <1>1, <1>5, <2>1, <2>2, <2>3
  <1> QED
    BY <1>4, <1>5

-----------------------------------------------------------------------------
(* Border handling.  The row getNewCoords picks for row i of a window lies *)
(* in the window and shows the line the padding asks for.                  *)
LEMMA SlotIsPadded ==
  ASSUME NEW n \in Nat, NEW size \in Nat \ {0}, size >= 2 * n,
         NEW padding \in Paddings,
         NEW pos \in n..(size + n - 1), NEW i \in 0..(2 * n)
  PROVE  LET g == GetNewCoords(padding, i, 2 * n + 1, n, pos, size) IN
         /\ g \in 0..(2 * n)
         /\ pos - 2 * n + g = Pad(padding, pos - n + i - n, size)
         /\ pos - 2 * n + g \in 0..(size - 1)
  BY DEF GetNewCoords, Pad, Paddings, Min2, Max2

(* A row that is picked for a later one keeps its contents, ...            *)
LEMMA PickedSlotStays ==
  ASSUME NEW n \in Nat, NEW size \in Nat, NEW padding \in Paddings,
         NEW pos \in Nat, NEW i \in 0..(2 * n),
         NEW g, g = GetNewCoords(padding, i, 2 * n + 1, n, pos, size)
  PROVE  /\ g \in Int
         /\ g < i => GetNewCoords(padding, g, 2 * n + 1, n, pos, size) = g
  BY DEF GetNewCoords, Paddings

(* ... so the rows can be exchanged in place.                              *)
LEMMA InPlaceIsParallel ==
  ASSUME NEW N \in Nat, NEW w, DOMAIN w = 0..N,
         NEW from \in [0..N -> Int],
         \A i \in 0..N :
           from[i] \in 0..N /\ from[i] < i => from[from[i]] = from[i],
         NEW junk
  PROVE  RowsInPlace(w, from, junk) = [i \in 0..N |-> At(w, from[i], junk)]
  <1> DEFINE F(d) == [i \in DOMAIN w |->
                 IF from[i] \in DOMAIN w /\ from[i] < i THEN d[from[i]]
                                               ELSE At(w, from[i], junk)]
             g == [i \in 0..N |-> At(w, from[i], junk)]
             d == RowsInPlace(w, from, junk)
  <1>1. g = F(g)
    OBVIOUS
  <1>2. d = CHOOSE e : e = F(e)
    BY DEF RowsInPlace
  <1>3. d = F(d)
    BY <1>1, <1>2
  <1> HIDE DEF d
  <1>4. ASSUME NEW i \in 0..N, ~(from[i] \in 0..N /\ from[i] < i)
        PROVE  d[i] = At(w, from[i], junk)
    BY <1>3, <1>4
  <1>5. ASSUME NEW i \in 0..N, from[i] \in 0..N, from[i] < i
        PROVE  d[i] = At(w, from[i], junk)
    <2>1. from[from[i]] = from[i] /\ ~(from[from[i]] < from[i])
      BY <1>5
    <2>2. d[from[i]] = At(w, from[i], junk)
      BY <1>4, <1>5, <2>1
    <2>3. d[i] = d[from[i]]
      BY <1>3, <1>5
    <2> QED
      BY <2>2, <2>3
  <1>6. \A i \in 0..N : d[i] = At(w, from[i], junk)
    BY <1>4, <1>5
  <1>7. d = [i \in 0..N |-> d[i]]
    BY <1>3
  <1>8. d = [i \in 0..N |-> At(w, from[i], junk)]
    BY <1>6, <1>7
  <1> QED
    BY <1>8 DEF d

(* The words and rows that stand in for those of a window.                 *)
RowFor(i)  == GetNewCoords(call.padding, i, call.kernelY, GDelayY, row, call.height)
WordFor(c) == GetNewCoords(call.padding, c, KernelXV, DelayCols, col, call.width)
NoWords == [j \in Words |-> Junk]

LEMMA RowsAreExchanged ==
  ASSUME call \in Call, row \in Nat, NEW b, DOMAIN b = Rows
  PROVE  BorderY(b) = [i \in Rows |-> At(b, RowFor(i), NoWords)]
  <1>1. PICK n, N, from, junk :
          /\ n = GDelayY /\ N = 2 * n /\ from = [i \in Rows |-> RowFor(i)]
          /\ junk = NoWords
    OBVIOUS
  <1>2. /\ n \in Nat /\ call.kernelY = 2 * n + 1 /\ Rows = 0..N /\ N \in Nat
        /\ call.height \in Nat /\ call.padding \in Paddings
    <2>1. /\ n \in Nat /\ call.kernelY = 2 * n + 1 /\ call.padding \in Paddings
          /\ call.height \in 1..MaxHeight /\ MaxHeight \in Nat \ {0}
      BY <1>1, CallFacts
    <2>2. call.kernelY - 1 = N /\ N \in Nat /\ call.height \in Nat
      BY <1>1, <2>1
    <2> QED
      BY <2>1, <2>2 DEF Rows
  <1>3. BorderY(b) = RowsInPlace(b, from, junk)
    BY <1>1 DEF BorderY, RowFor, NoWords
  <1>4. ASSUME NEW i \in 0..N
        PROVE  /\ RowFor(i) \in Int
               /\ RowFor(i) < i => RowFor(RowFor(i)) = RowFor(i)
    <2>1. PICK g, size, padding, pos :
            g = RowFor(i) /\ size = call.height /\ padding = call.padding /\ pos = row
      OBVIOUS
    <2>2. g = GetNewCoords(padding, i, 2 * n + 1, n, pos, size)
      BY <1>1, <1>2, <2>1 DEF RowFor
    <2>3. /\ size \in Nat /\ padding \in Paddings /\ pos \in Nat /\ n \in Nat
          /\ i \in 0..(2 * n)
      BY <1>1, <1>2, <2>1
    <2>4. g \in Int /\ (g < i => GetNewCoords(padding, g, 2 * n + 1, n, pos, size) = g)
      BY <2>2, <2>3, PickedSlotStays
    <2>5. RowFor(g) = GetNewCoords(padding, g, 2 * n + 1, n, pos, size)
      BY <1>1, <1>2, <2>1 DEF RowFor
    <2> QED
      BY <2>1, <2>4, <2>5
  <1>5. from = [i \in 0..N |-> RowFor(i)]
    BY <1>1, <1>2
  <1> HIDE DEF RowFor
  <1>6. from \in [0..N -> Int]
    BY <1>4, <1>5
  <1>7. \A i \in 0..N : from[i] \in 0..N /\ from[i] < i => from[from[i]] = from[i]
    BY <1>4, <1>5
  <1>8. RowsInPlace(b, from, junk) = [i \in 0..N |-> At(b, from[i], junk)]
    <2>1. N \in Nat /\ DOMAIN b = 0..N
      BY <1>2
    <2> QED
      BY <1>6, <1>7, <2>1, InPlaceIsParallel
  <1> QED
    BY <1>1, <1>2, <1>3, <1>5, <1>8

LEMMA BorderedType ==
  ASSUME call \in Call, row \in Nat, NEW w \in Window
  PROVE  BorderY(BorderX(w)) \in Window
  <1>1. PICK b : b = BorderX(w)
    OBVIOUS
  <1>2. \A i \in Rows : \A j \in Words : At(w[i], WordFor(j), Junk) \in Word
    BY DEF At, Window, Word
  <1>3. b = [i \in Rows |-> [j \in Words |-> At(w[i], WordFor(j), Junk)]]
    BY <1>1 DEF BorderX, WordFor
  <1>4. b \in Window /\ DOMAIN b = Rows
    BY <1>2, <1>3 DEF Window
  <1>5. NoWords \in [Words -> Word]
    BY DEF NoWords, Word
  <1>6. \A i \in Rows : At(b, RowFor(i), NoWords) \in [Words -> Word]
    BY <1>4, <1>5 DEF At, Window
  <1>7. BorderY(b) = [i \in Rows |-> At(b, RowFor(i), NoWords)]
    BY <1>4, RowsAreExchanged
  <1> QED
    BY <1>1, <1>6, <1>7 DEF Window

(* A word of the window that the border handling leaves alone, in the row  *)
(* the padding asks for.                                                   *)
LEMMA BorderedWord ==
  ASSUME call \in Call, IsLocal, NEW p, NEW w \in Window,
         row \in GDelayY..(call.height + GDelayY - 1),
         NEW j \in Nat, Shows(w, p, row, j),
         NEW i \in Rows, NEW c \in Words, WordFor(c) = c,
         NEW x, x = j - 2 * GDelayXV + c, x \in 0..(WordsPerRow - 1)
  PROVE  BorderY(BorderX(w))[i][c] =
           WordAt(p, Pad(call.padding, (row - GDelayY) + i - GDelayY, call.height), x)
  <1>1. PICK n, e, h, padding : n = GDelayY /\ e = GDelayXV /\ h = call.height
                                /\ padding = call.padding
    OBVIOUS
  <1>2. /\ n \in Nat /\ call.kernelY = 2 * n + 1 /\ Rows = 0..(2 * n)
        /\ e \in Nat /\ KernelXV = 2 * e + 1 /\ Words = 0..(2 * e)
        /\ h \in Nat \ {0} /\ h >= 2 * n /\ padding \in Paddings
        /\ row \in n..(h + n - 1)
    <2>1. /\ n \in Nat /\ call.kernelY = 2 * n + 1
          /\ e \in Nat /\ KernelXV = 2 * e + 1
          /\ h \in 1..MaxHeight /\ MaxHeight \in Nat
          /\ h >= 2 * n /\ padding \in Paddings
      BY <1>1, CallFacts
    <2> QED
      BY <1>1, <2>1 DEF Rows, Words
  <1>3. PICK b : b = BorderX(w)
    OBVIOUS
  <1>4. b = [r \in Rows |-> [k \in Words |-> At(w[r], WordFor(k), Junk)]]
    BY <1>3 DEF BorderX, WordFor
  <1>5. BorderY(b) = [r \in Rows |-> At(b, RowFor(r), NoWords)]
    <2>1. row \in Nat /\ DOMAIN b = Rows
      BY <1>2, <1>4
    <2> QED
      BY <2>1, RowsAreExchanged
  <1>6. PICK g : g = RowFor(i)
    OBVIOUS
  <1>7. /\ g \in 0..(2 * n)
        /\ row - 2 * n + g = Pad(padding, row - n + i - n, h)
        /\ row - 2 * n + g \in 0..(h - 1)
    <2>1. g = GetNewCoords(padding, i, 2 * n + 1, n, row, h)
      BY <1>1, <1>2, <1>6 DEF RowFor
    <2>2. i \in 0..(2 * n)
      BY <1>2
    <2> QED
      BY <1>2, <2>1, <2>2, SlotIsPadded
  <1>8. BorderY(b)[i] = b[g] /\ g \in Rows
    BY <1>2, <1>4, <1>5, <1>6, <1>7 DEF At
  <1>9. b[g][c] = w[g][c]
    BY <1>4, <1>8 DEF At, Window
  <1>10. PICK y : y = row - 2 * n + g
    OBVIOUS
  <1>11. /\ y = row - (call.kernelY - 1) + g /\ x = j - (KernelXV - 1) + c
         /\ InPicture(y, x)
    BY <1>1, <1>2, <1>7, <1>10 DEF InPicture
  <1>12. w[g][c] = WordAt(p, y, x)
    BY <1>8, <1>11 DEF Shows
  <1> QED
    BY <1>1, <1>3, <1>7, <1>8, <1>9, <1>10, <1>12

-----------------------------------------------------------------------------
(* The selection of a pixel within a word.                                 *)

LEMMA UpByOne ==
  ASSUME NEW n \in Nat
  PROVE  DivUp(n, 1) = n
  BY DEF DivUp

(* A window that is centred is as many words behind as its radius.         *)
LEMMA CentredDelay ==
  ASSUME call \in Call, IsLocal, NEW v, Centred(v)
  PROVE  /\ Delay = GDelayXV
         /\ GDelayX <= GDelayXV * Vect
         /\ IsWord \/ Vect = 1 => DelayCols = GDelayXV
         /\ Vect >= 2 => 2 * GDelayXV <= Vect * GDelayXV
  <1>1. PICK g, e, k : g = GDelayX /\ e = GDelayXV /\ k = Vect
    OBVIOUS
  <1>2. /\ g \in Nat /\ e \in Nat /\ k \in Nat \ {0}
        /\ e = IF g > k THEN DivUp(g, k) ELSE g
        /\ ColsPerWord = IF IsWord THEN 1 ELSE k
        /\ DelayCols = IF IsWord THEN e ELSE g
    BY <1>1, CallFacts
  <1>3. Delay = e
    <2>1. CASE IsWord
      BY <1>2, <2>1, UpByOne DEF Delay
    <2>2. CASE ~IsWord
      BY <1>1, <1>2, <2>2 DEF Delay, Centred
    <2> QED
      BY <2>1, <2>2
  <1>4. g <= e * k
    <2>1. CASE g > k
      BY <1>2, <2>1, RoundUp
    <2>2. CASE ~(g > k)
      <3>1. g * 1 <= g * k
        <4>1. 1 \in Nat /\ k \in Nat /\ 1 <= k /\ g <= g
          BY <1>2
        <4> QED
          BY <1>2, <4>1, Product
      <3> QED
        BY <1>2, <2>2, <3>1
    <2> QED
      BY <2>1, <2>2
  <1>5. k = 1 => e = g
    BY <1>2, UpByOne
  <1>6. k >= 2 => 2 * e <= k * e
    <2>1. 2 \in Nat /\ k \in Nat /\ e <= e
      BY <1>2
    <2> QED
      BY <1>2, <2>1, Product
  <1> QED
    BY <1>1, <1>2, <1>3, <1>4, <1>5, <1>6

(* Pixel n of a window of words whose newest word is word j of a line, and *)
(* the pixel of the line it shows.                                         *)
LanePlace(k, g, e, a, j, A, v, jj, at, n) ==
  /\ k \in Nat \ {0} /\ g \in Nat /\ e \in Nat /\ g <= e * k
  /\ a \in Nat /\ j = a + e /\ A \in Nat \ {0}
  /\ v \in 0..(k - 1) /\ jj \in 0..(2 * g)
  /\ at = a * k + v + jj - g /\ at \in 0..(A * k - 1)
  /\ n = e * k - g + v + jj

LaneSource(k, e, j, A, at, n, X, l, c) ==
  /\ X \in 0..(A - 1) /\ l \in 0..(k - 1) /\ at = X * k + l
  /\ c \in 0..(2 * e) /\ n \div k = c /\ n % k = l
  /\ X = j - 2 * e + c

LEMMA LaneArithmetic ==
  ASSUME NEW k, NEW g, NEW e, NEW a, NEW j, NEW A, NEW v, NEW jj, NEW at, NEW n,
         LanePlace(k, g, e, a, j, A, v, jj, at, n)
  PROVE  LaneSource(k, e, j, A, at, n, at \div k, at % k, (at \div k) + e - a)
  <1> DEFINE X == at \div k
             l == at % k
             c == X + e - a
  <1>1. /\ k \in Nat \ {0} /\ g \in Nat /\ e \in Nat /\ g <= e * k
        /\ a \in Nat /\ j = a + e /\ A \in Nat \ {0}
        /\ v \in 0..(k - 1) /\ jj \in 0..(2 * g)
        /\ at = a * k + v + jj - g /\ at \in 0..(A * k - 1)
        /\ n = e * k - g + v + jj
    BY DEF LanePlace
  <1>2. A * k \in Nat /\ a * k \in Nat /\ e * k \in Nat
    BY <1>1, OneMore
  <1>3. X \in 0..(A - 1) /\ l \in 0..(k - 1) /\ at = X * k + l
    <2>1. k \in Nat \ {0} /\ at \in Int /\ A \in Nat /\ at \in 0..(A * k - 1)
      BY <1>1, <1>2
    <2>2. X \in Int /\ l \in 0..(k - 1) /\ at = X * k + l
      BY <2>1, Quotient, Zenon
    <2> QED
      BY <2>1, <2>2, WordOfPixel, Zenon
  <1> HIDE DEF X, l
  <1>4. c \in Int /\ X = j - 2 * e + c /\ X = c + a - e
    BY <1>1, <1>3
  <1> HIDE DEF c
  <1>5. PICK N : N = 2 * e + 1
    OBVIOUS
  <1>6. N \in Nat /\ N * k = e * k + e * k + k
    <2>1. PICK q : q = 2 * e
      OBVIOUS
    <2>2. q \in Nat /\ (q + 1) * k = q * k + k
      BY <1>1, <2>1, OneMore
    <2>3. q * k = e * k + e * k
      BY <1>1, <2>1
    <2> QED
      BY <1>5, <2>1, <2>2, <2>3
  <1>7. n \in 0..(N * k - 1)
    BY <1>1, <1>2, <1>6
  <1>8. n = c * k + l
    <2>1. X * k = c * k + a * k - e * k
      <3>1. (c + a - e) * k = c * k + a * k - e * k
        BY <1>1, <1>4
      <3> QED
        BY <1>4, <3>1
    <2>2. c * k \in Int /\ X * k \in Int
      BY <1>1, <1>3, <1>4
    <2> QED
      BY <1>1, <1>2, <1>3, <2>1, <2>2
  <1>9. c \in 0..(N - 1) /\ n \div k = c /\ n % k = l
    <2>1. k \in Nat \ {0} /\ N \in Nat /\ c \in Int /\ l \in 0..(k - 1)
      BY <1>1, <1>3, <1>4, <1>6
    <2>2. \A q \in Int : \A r \in 0..(k - 1) :
            n = q * k + r => q \in 0..(N - 1) /\ n \div k = q /\ n % k = r
      BY <1>7, <2>1, WordOfPixel
    <2> QED
      BY <1>8, <2>1, <2>2, Zenon
  <1>10. c \in 0..(2 * e)
    BY <1>1, <1>5, <1>9
  <1>11. LaneSource(k, e, j, A, at, n, X, l, c)
    BY <1>3, <1>4, <1>9, <1>10 DEF LaneSource
  <1> QED
    BY <1>11 DEF X, l, c

(* getWinCoords finds pixel x of a line, for pixel n of a window whose     *)
(* newest word is word j of that line, in a word that stays where it is.   *)
Found(n, offset, j, x) ==
  LET at == GetWinCoords(n, offset)
      word == j - 2 * GDelayXV + at[1]
  IN /\ at[1] \in Words /\ at[2] \in Lanes /\ WordFor(at[1]) = at[1]
     /\ word \in 0..(WordsPerRow - 1)
     /\ word * Vect + at[2] = x

LEMMA InnerLane ==
  ASSUME call \in Call, IsLocal,
         NEW j \in Nat, col = ColsPerWord * j, j < WordsPerRow,
         NEW v \in Lanes, Centred(v), NEW jj \in 0..(2 * GDelayX),
         NEW a \in Nat, j = a + Delay,
         NEW x, x = a * Vect + v,
         GDelayX <= x, x + GDelayX < PixelWidth,
         IsWord /\ GDelayX > Vect => Delay <= a,
         NEW n, n = GDelayXV * Vect - GDelayX + v + jj,
         NEW at, at = x + jj - GDelayX, NEW offset
  PROVE  Found(n, offset, j, at) /\ at \in 0..(PixelWidth - 1)
  <1>1. PICK g, e, k, A, W, d, w :
          /\ g = GDelayX /\ e = GDelayXV /\ k = Vect /\ A = WordsPerRow
          /\ W = PixelWidth /\ d = DelayCols /\ w = call.width
    OBVIOUS
  <1>2. /\ g \in Nat /\ e \in Nat /\ k \in Nat \ {0} /\ A \in Nat \ {0}
        /\ KernelXV = 2 * e + 1 /\ Words = 0..(2 * e) /\ Lanes = 0..(k - 1)
        /\ call.kernelX = 2 * g + 1
        /\ d \in Nat /\ d = IF IsWord THEN e ELSE g
        /\ g <= k => e = g
        /\ w \in Nat \ {0} /\ j = a + e /\ g <= e * k
        /\ v \in 0..(k - 1) /\ jj \in 0..(2 * g)
    <2>1. /\ g \in Nat /\ e \in Nat /\ k \in Nat \ {0} /\ A \in Nat \ {0}
          /\ KernelXV = 2 * e + 1 /\ call.kernelX = 2 * g + 1
          /\ d \in Nat /\ d = IF IsWord THEN e ELSE g
          /\ g <= k => e = g
          /\ w \in 1..MaxWidth /\ MaxWidth \in Nat
      BY <1>1, CallFacts, InWords
    <2>2. Words = 0..(2 * e) /\ Lanes = 0..(k - 1)
      BY <1>1, <2>1 DEF Words, Lanes
    <2>3. j = a + e /\ g <= e * k
      BY <1>1, CentredDelay
    <2> QED
      BY <1>1, <2>1, <2>2, <2>3
  <1>3. W \in Nat /\ W <= A * k /\ A * k \in Nat
    <2>1. A * k \in Nat
      BY <1>2, OneMore
    <2>2. CASE IsWord
      <3>1. ColsPerWord = 1
        BY <2>2, CallFacts
      <3>2. A = w
        BY <1>1, <1>2, <3>1, UpByOne DEF WordsPerRow
      <3> QED
        BY <1>1, <1>2, <2>1, <2>2, <3>2 DEF PixelWidth
    <2>3. CASE ~IsWord
      <3>1. ColsPerWord = k
        BY <1>1, <2>3, CallFacts
      <3>2. w <= A * k
        BY <1>1, <3>1, InWords
      <3> QED
        BY <1>1, <1>2, <2>1, <2>3, <3>2 DEF PixelWidth
    <2> QED
      BY <2>2, <2>3
  <1>4. x = a * k + v /\ a * k \in Nat
    BY <1>1, <1>2, OneMore
  <1>5. at \in 0..(W - 1) /\ at \in 0..(A * k - 1)
    BY <1>1, <1>2, <1>3, <1>4
  <1>6. PICK X, l, c : X = at \div k /\ l = at % k /\ c = (at \div k) + e - a
    OBVIOUS
  <1>7. /\ X \in 0..(A - 1) /\ l \in 0..(k - 1) /\ at = X * k + l
        /\ c \in 0..(2 * e) /\ n \div k = c /\ n % k = l
        /\ X = j - 2 * e + c
    <2>1. at = a * k + v + jj - g /\ n = e * k - g + v + jj
      BY <1>1, <1>2, <1>4
    <2>2. LanePlace(k, g, e, a, j, A, v, jj, at, n)
      BY <1>2, <1>5, <2>1 DEF LanePlace
    <2>3. LaneSource(k, e, j, A, at, n, X, l, c)
      BY <1>6, <2>2, LaneArithmetic
    <2> QED
      BY <2>3 DEF LaneSource
  <1>8. col < w
    BY <1>1, InWords
  <1>9. ~(col < 2 * e) \/ (IsWord /\ g <= k /\ col = j)
    <2>1. CASE IsWord
      <3>1. col = j
        <4>1. ColsPerWord = 1
          BY <2>1, CallFacts
        <4> QED
          BY <4>1
      <3>2. g > k => e <= a
        BY <1>1, <2>1, CentredDelay
      <3> QED
        BY <1>2, <2>1, <3>1, <3>2
    <2>2. CASE ~IsWord
      <3>1. col = k * j /\ k * j = k * a + k * e /\ k * a = a * k /\ k * e = e * k
        <4>1. col = k * j
          BY <1>1, <2>2, CallFacts
        <4>2. k * (a + e) = k * a + k * e /\ k * a = a * k /\ k * e = e * k
          BY <1>2
        <4> QED
          BY <1>2, <4>1, <4>2
      <3>2. CASE k >= 2
        <4>1. 2 * e <= k * e /\ k * a \in Nat
          BY <1>1, <1>2, <3>2, CentredDelay, OneMore
        <4>2. k * e \in Nat /\ 2 * e \in Nat
          BY <1>2, OneMore
        <4> QED
          BY <3>1, <4>1, <4>2
      <3>3. CASE k = 1
        <4>1. d = e
          BY <1>1, <3>3, CentredDelay
        <4>2. e = g
          BY <1>2, <2>2, <4>1
        <4>3. g <= a
          BY <1>1, <1>2, <3>3
        <4> QED
          BY <1>2, <3>1, <3>3, <4>2, <4>3
      <3> QED
        BY <1>2, <3>2, <3>3
    <2> QED
      BY <2>1, <2>2
  <1>10. col \in Nat
    <2>1. ColsPerWord \in Nat \ {0}
      BY CallFacts
    <2> QED
      BY <2>1
  <1>11. ~(col < 2 * e /\ c < 2 * g - col) /\ (col < 2 * e => c >= 2 * e - col)
    <2>1. SUFFICES ASSUME col < 2 * e
                   PROVE  ~(c < 2 * g - col) /\ c >= 2 * e - col
      OBVIOUS
    <2>2. g <= k /\ col = j
      BY <1>9, <2>1
    <2>3. e = g /\ X \in Nat /\ j \in Nat /\ e \in Nat
      BY <1>2, <1>7, <2>2
    <2>4. X = j - 2 * e + c /\ c \in 0..(2 * e)
      BY <1>7, Zenon
    <2> QED
      BY <2>2, <2>3, <2>4
  <1>12. GetWinCoords(n, offset) = <<c, l>>
    <2>1. call.kernelX - 1 - col = 2 * g - col
      BY <1>2, <1>10
    <2>2. KernelXV - 1 = 2 * e
      BY <1>2
    <2>3. ~(col >= call.width)
      BY <1>1, <1>2, <1>8, <1>10
    <2> QED
      BY <1>1, <1>7, <1>11, <2>1, <2>2, <2>3 DEF GetWinCoords
  <1>13. WordFor(c) = c
    <2>1. KernelXV - 1 = 2 * e /\ KernelXV - 1 - col = 2 * e - col
      BY <1>2, <1>10
    <2>2. ~(col >= call.width)
      BY <1>1, <1>2, <1>8, <1>10
    <2> QED
      BY <1>11, <2>1, <2>2 DEF WordFor, GetNewCoords
  <1> HIDE DEF WordFor
  <1>14. Found(n, offset, j, at)
    <2>1. c \in Words /\ l \in Lanes
      BY <1>2, <1>7
    <2>2. <<c, l>>[1] = c /\ <<c, l>>[2] = l
      OBVIOUS
    <2> QED
      BY <1>1, <1>7, <1>12, <1>13, <2>1, <2>2 DEF Found
  <1> QED
    BY <1>1, <1>5, <1>14

LEMMA RemOfWord ==
  ASSUME NEW w \in Nat \ {0}, NEW q \in Nat, NEW r \in 0..(w - 1), NEW n,
         n = q * w + r
  PROVE  Rem(n, w) = r
  <1>1. n >= 0 /\ n % w = r
    BY DivMod, OneMore
  <1> QED
    BY <1>1 DEF Rem

(* The lane that stands in for the pixel t left of the image, and for the  *)
(* one t + 1 right of it.                                                  *)
LaneLeft(padding, t) ==
  CASE padding = "CLAMP" -> 0
    [] padding = "MIRROR" -> t - 1
    [] padding = "MIRROR_101" -> t

LaneRight(padding, k, t) ==
  CASE padding = "CLAMP" -> k - 1
    [] padding = "MIRROR" -> k - 1 - t
    [] padding = "MIRROR_101" -> k - 2 - t

LEMMA LaneLeftIsPadded ==
  ASSUME NEW k \in Nat, NEW t \in 1..(k - 1), NEW s \in Nat, k <= s,
         NEW padding \in Paddings
  PROVE  /\ LaneLeft(padding, t) \in 0..(k - 1)
         /\ LaneLeft(padding, t) = Pad(padding, -t, s)
  BY DEF LaneLeft, Paddings, Pad, Min2, Max2

LEMMA LaneRightIsPadded ==
  ASSUME NEW k \in Nat, NEW t \in 0..(k - 2), NEW r \in Nat,
         NEW padding \in Paddings
  PROVE  /\ LaneRight(padding, k, t) \in 0..(k - 1)
         /\ r + LaneRight(padding, k, t) = Pad(padding, (r + k) + t, r + k)
  BY DEF LaneRight, Paddings, Pad, Min2, Max2

LEMMA MovedRight ==
  ASSUME NEW n, NEW offset,
         NEW r, r = KernelXV - (col - (call.width - 1)) - 1,
         ~(col >= offset /\ col < KernelXV - 1), col >= call.width,
         n \div Vect > r, NEW m, m = (r + 1) * Vect - 1
  PROVE  GetWinCoords(n, offset) =
            <<(n \div Vect) - 1,
              CASE call.padding = "CLAMP" -> Rem(m, Vect)
                [] call.padding = "MIRROR" -> Rem(m - (n - m) + 1, Vect)
                [] call.padding = "MIRROR_101" -> Rem(m - (n - m), Vect)>>
  BY Zenon DEF GetWinCoords

(* The wide operators replace what lies beyond the left border ...         *)
LEMMA LeftLane ==
  ASSUME NEW g \in Nat, NEW k \in Nat, 0 < g, g < k, NEW t \in 1..g,
         NEW A \in Nat \ {0},
         GDelayX = g, GDelayXV = g, Vect = k, call.kernelX = 2 * g + 1,
         KernelXV = 2 * g + 1, DelayCols = g, col = g, call.width = A,
         call.padding \in Paddings, WordsPerRow = A, Words = 0..(2 * g),
         Lanes = 0..(k - 1)
  PROVE  Found(g * k - t, g, g, Pad(call.padding, -t, A * k))
  <1>1. PICK n : n = g * k - t
    OBVIOUS
  <1>2. g * k \in Nat /\ k <= g * k
    <2>1. 1 \in Nat /\ 1 <= g /\ k <= k
      OBVIOUS
    <2>2. 1 * k <= g * k /\ g * k \in Nat
      BY <2>1, Product
    <2> QED
      BY <2>2
  <1>3. n \div k < g /\ n \div k \in Int
    <2>1. k \in Nat \ {0} /\ n \in Int /\ n \in 0..(g * k - 1)
      BY <1>1, <1>2
    <2>2. PICK q, l : q = n \div k /\ l = n % k
      OBVIOUS
    <2>3. q \in Int /\ l \in 0..(k - 1) /\ n = q * k + l
      BY <2>1, <2>2, Quotient
    <2>4. q \in 0..(g - 1)
      BY <2>1, <2>3, WordOfPixel
    <2> QED
      BY <2>2, <2>3, <2>4
  <1>4. PICK l, s : l = LaneLeft(call.padding, t) /\ s = A * k
    OBVIOUS
  <1>5. s \in Nat /\ k <= s
    <2>1. 1 \in Nat /\ 1 <= A /\ k <= k
      OBVIOUS
    <2>2. 1 * k <= A * k /\ A * k \in Nat
      BY <2>1, Product
    <2> QED
      BY <1>4, <2>2
  <1>6. l \in 0..(k - 1) /\ l = Pad(call.padding, -t, s)
    <2>1. k \in Nat /\ t \in 1..(k - 1) /\ call.padding \in Paddings
      OBVIOUS
    <2>2. /\ LaneLeft(call.padding, t) \in 0..(k - 1)
          /\ LaneLeft(call.padding, t) = Pad(call.padding, -t, s)
      BY <1>5, <2>1, LaneLeftIsPadded, Zenon
    <2> QED
      BY <1>4, <2>2, Zenon
  <1>7. GetWinCoords(n, g) = <<g, l>>
    <2>1. /\ call.kernelX - 1 - col = g /\ KernelXV - 1 = 2 * g
          /\ col >= g /\ col < 2 * g
      OBVIOUS
    <2>2. PICK m : m = g * k
      OBVIOUS
    <2>3. m - n = t /\ g + (m - n) \div k = g
      <3>1. m - n = t
        BY <1>1, <1>2, <2>2
      <3>2. t \div k = 0
        OBVIOUS
      <3> QED
        BY <3>1, <3>2
    <2>4. Rem(m, k) = 0 /\ Rem(m + t - 1, k) = t - 1 /\ Rem(m + t, k) = t
      <3>1. k \in Nat \ {0} /\ {0, t - 1, t} \subseteq 0..(k - 1)
        OBVIOUS
      <3>2. /\ m = g * k + 0 /\ m + t - 1 = g * k + (t - 1) /\ m + t = g * k + t
        BY <1>2, <2>2
      <3> QED
        BY <3>1, <3>2, RemOfWord
    <2>5. GetWinCoords(n, g) =
            <<g + (m - n) \div k,
              CASE call.padding = "CLAMP" -> Rem(m, k)
                [] call.padding = "MIRROR" -> Rem(m + (m - n) - 1, k)
                [] call.padding = "MIRROR_101" -> Rem(m + (m - n), k)>>
      BY <1>3, <2>1, <2>2 DEF GetWinCoords
    <2> QED
      BY <1>2, <1>4, <2>2, <2>3, <2>4, <2>5 DEF LaneLeft, Paddings
  <1>8. WordFor(g) = g
    BY DEF WordFor, GetNewCoords
  <1> HIDE DEF WordFor
  <1>9. <<g, l>>[1] = g /\ <<g, l>>[2] = l
    OBVIOUS
  <1>10. g - 2 * g + g = 0 /\ 0 * k + l = l
    BY <1>6
  <1>11. g \in Words /\ l \in Lanes /\ 0 \in 0..(WordsPerRow - 1)
    BY <1>6
  <1> QED
    BY <1>1, <1>4, <1>7, <1>8, <1>6, <1>9, <1>10, <1>11 DEF Found

(* ... and the right border.                                               *)
LEMMA RightLane ==
  ASSUME NEW g \in Nat, NEW k \in Nat, 0 < g, g < k, NEW t \in 0..(g - 1),
         NEW A \in Nat \ {0}, A >= 2 * g, NEW j, j = A - 1 + g,
         GDelayX = g, GDelayXV = g, Vect = k, call.kernelX = 2 * g + 1,
         KernelXV = 2 * g + 1, DelayCols = g, col = j, call.width = A,
         call.padding \in Paddings, WordsPerRow = A, Words = 0..(2 * g),
         Lanes = 0..(k - 1)
  PROVE  Found((g + 1) * k + t, g, j, Pad(call.padding, A * k + t, A * k))
  <1>1. PICK n : n = (g + 1) * k + t
    OBVIOUS
  <1>2. (g + 1) * k \in Nat /\ n \div k = g + 1
    <2>1. g + 1 \in Nat /\ t \in 0..(k - 1) /\ k \in Nat \ {0}
      OBVIOUS
    <2> QED
      BY <1>1, <2>1, DivMod, OneMore
  <1>3. PICK l, s, r : l = LaneRight(call.padding, k, t) /\ s = A * k /\ r = (A - 1) * k
    OBVIOUS
  <1>4. s = r + k /\ r \in Nat
    <2>1. A - 1 \in Nat /\ (A - 1) + 1 = A
      OBVIOUS
    <2>2. ((A - 1) + 1) * k = (A - 1) * k + k /\ (A - 1) * k \in Nat
      BY <2>1, OneMore
    <2> QED
      BY <1>3, <2>1, <2>2
  <1>5. l \in 0..(k - 1) /\ r + l = Pad(call.padding, s + t, s)
    <2>1. k \in Nat /\ t \in 0..(k - 2) /\ call.padding \in Paddings /\ r \in Nat
      BY <1>4
    <2>2. \A P \in Paddings :
            /\ LaneRight(P, k, t) \in 0..(k - 1)
            /\ r + LaneRight(P, k, t) = Pad(P, (r + k) + t, r + k)
      BY <2>1, LaneRightIsPadded
    <2> QED
      BY <1>3, <1>4, <2>1, <2>2, Zenon
  <1>6. GetWinCoords(n, g) = <<g, l>>
    <2>1. /\ KernelXV - 1 = 2 * g /\ ~(col < 2 * g) /\ col >= call.width
          /\ KernelXV - (col - (call.width - 1)) - 1 = g
      OBVIOUS
    <2>2. PICK m : m = (g + 1) * k - 1
      OBVIOUS
    <2>3. n - m = t + 1 /\ m \in Nat
      BY <1>1, <1>2, <2>2
    <2>4. /\ Rem(m, k) = k - 1 /\ Rem(m - (t + 1) + 1, k) = k - 1 - t
          /\ Rem(m - (t + 1), k) = k - 2 - t
      <3>1. k \in Nat \ {0} /\ {k - 1, k - 1 - t, k - 2 - t} \subseteq 0..(k - 1)
        OBVIOUS
      <3>2. (g + 1) * k = g * k + k /\ g * k \in Nat
        BY OneMore
      <3>3. /\ m = g * k + (k - 1) /\ m - (t + 1) + 1 = g * k + (k - 1 - t)
            /\ m - (t + 1) = g * k + (k - 2 - t)
        BY <2>2, <3>2
      <3> QED
        BY <3>1, <3>3, RemOfWord
    <2>5. GetWinCoords(n, g) =
            <<(g + 1) - 1,
              CASE call.padding = "CLAMP" -> Rem(m, k)
                [] call.padding = "MIRROR" -> Rem(m - (n - m) + 1, k)
                [] call.padding = "MIRROR_101" -> Rem(m - (n - m), k)>>
      <3>1. g = KernelXV - (col - (call.width - 1)) - 1
        BY <2>1
      <3>2. n \div Vect > g
        BY <1>2
      <3>3. ~(col >= g /\ col < KernelXV - 1)
        BY <2>1
      <3>4. m = (g + 1) * Vect - 1 /\ col >= call.width
        BY <2>1, <2>2
      <3>5. GetWinCoords(n, g) =
            <<(n \div Vect) - 1,
              CASE call.padding = "CLAMP" -> Rem(m, Vect)
                [] call.padding = "MIRROR" -> Rem(m - (n - m) + 1, Vect)
                [] call.padding = "MIRROR_101" -> Rem(m - (n - m), Vect)>>
        BY <3>1, <3>2, <3>3, <3>4, MovedRight, Zenon
      <3> QED
        BY <1>2, <3>5, Zenon
    <2>6. (g + 1) - 1 = g
      OBVIOUS
    <2>7. CASE call.padding = "CLAMP"
      BY <1>3, <2>4, <2>5, <2>6, <2>7 DEF LaneRight
    <2>8. CASE call.padding = "MIRROR"
      BY <1>3, <2>3, <2>4, <2>5, <2>6, <2>8 DEF LaneRight
    <2>9. CASE call.padding = "MIRROR_101"
      BY <1>3, <2>3, <2>4, <2>5, <2>6, <2>9 DEF LaneRight
    <2> QED
      BY <2>7, <2>8, <2>9 DEF Paddings
  <1>7. WordFor(g) = g
    BY DEF WordFor, GetNewCoords
  <1> HIDE DEF WordFor
  <1>8. <<g, l>>[1] = g /\ <<g, l>>[2] = l
    OBVIOUS
  <1>9. j - 2 * g + g = A - 1 /\ A - 1 \in 0..(WordsPerRow - 1)
    OBVIOUS
  <1>10. g \in Words /\ l \in Lanes
    BY <1>5
  <1> QED
    BY <1>1, <1>3, <1>6, <1>7, <1>5, <1>8, <1>9, <1>10 DEF Found

(* A pixel of the window of pixel v of word a, beyond the first or the     *)
(* last of A words: p, q and r are the pixels of a, A and g words.         *)
BorderPlace(g, k, A, a, v, jj, p, q, r, at, n) ==
  /\ {g, k, A, a, p, q, r} \subseteq Nat /\ g < k /\ a < A
  /\ v \in 0..(k - 1) /\ jj \in 0..(2 * g)
  /\ IF a = 0 THEN p = 0 ELSE k <= p
  /\ IF a + 1 = A THEN q = p + k ELSE p + k + k <= q
  /\ at = p + v + jj - g /\ n = r - g + v + jj

BorderCases(g, k, A, a, q, r, at, n) ==
  /\ at \in Int
  /\ at < 0 => 0 < g /\ a = 0 /\ -at \in 1..g /\ n = r - (-at)
  /\ at >= q => 0 < g /\ a = A - 1 /\ at - q \in 0..(g - 1) /\ n = (r + k) + (at - q)
                /\ at = q + (at - q)

LEMMA BorderArithmetic ==
  ASSUME NEW g, NEW k, NEW A, NEW a, NEW v, NEW jj, NEW p, NEW q, NEW r, NEW at,
         NEW n, BorderPlace(g, k, A, a, v, jj, p, q, r, at, n)
  PROVE  BorderCases(g, k, A, a, q, r, at, n)
  BY DEF BorderPlace, BorderCases

LEMMA PadInside ==
  ASSUME NEW padding \in Paddings, NEW size \in Nat, NEW x \in 0..(size - 1)
  PROVE  Pad(padding, x, size) = x
  BY DEF Pad, Paddings, Min2, Max2

(* The wide operators find all pixels, if the window reaches less than a   *)
(* word far.                                                               *)
LEMMA BorderLane ==
  ASSUME call \in Call, call.op \in Wide, 2 * GDelayX <= call.width,
         NEW j \in Nat, col = j,
         NEW v, Centred(v), NEW jj, NEW a, j = a + Delay,
         NEW at, NEW n,
         BorderPlace(GDelayX, Vect, WordsPerRow, a, v, jj, a * Vect,
                     WordsPerRow * Vect, GDelayX * Vect, at, n)
  PROVE  Found(n, GDelayX, j, Pad(call.padding, at, PixelWidth))
  <1>1. PICK g, k, A, q, r :
          g = GDelayX /\ k = Vect /\ A = WordsPerRow /\ q = WordsPerRow * Vect
          /\ r = GDelayX * Vect
    OBVIOUS
  <1>2. /\ g \in Nat /\ k \in Nat \ {0} /\ A \in Nat \ {0} /\ a \in Nat
        /\ g < k /\ a < A /\ v \in 0..(k - 1) /\ jj \in 0..(2 * g)
        /\ at = a * k + v + jj - g /\ n = r - g + v + jj /\ q \in Nat
    BY <1>1, CallFacts, InWords DEF BorderPlace
  <1>3. BorderCases(g, k, A, a, q, r, at, n)
    BY <1>1, BorderArithmetic
  <1>4. /\ GDelayXV = g /\ KernelXV = 2 * g + 1 /\ Words = 0..(2 * g)
        /\ Lanes = 0..(k - 1) /\ call.kernelX = 2 * g + 1
        /\ DelayCols = g /\ j = a + g
        /\ call.width = A /\ PixelWidth = A * k
        /\ call.padding \in Paddings
    <2>1. IsWord /\ IsLocal
      BY DEF IsWord, IsLocal, WordOps, WordLocal
    <2>2. /\ KernelXV = 2 * GDelayXV + 1
          /\ call.kernelX = 2 * g + 1 /\ GDelayXV = g /\ DelayCols = g
          /\ call.padding \in Paddings /\ ColsPerWord = 1
          /\ call.width \in 1..MaxWidth /\ MaxWidth \in Nat
      BY <1>1, <1>2, <2>1, CallFacts
    <2>3. A = call.width
      <3>1. call.width \in Nat
        BY <2>2
      <3> QED
        BY <1>1, <2>2, <3>1, UpByOne DEF WordsPerRow
    <2>4. Words = 0..(2 * g) /\ Lanes = 0..(k - 1)
      BY <1>1, <1>2, <2>2 DEF Words, Lanes
    <2>5. j = a + g
      BY <2>1, <2>2, CentredDelay
    <2>6. PixelWidth = A * k
      BY <1>1, <2>1, <2>3 DEF PixelWidth
    <2> QED
      BY <1>1, <2>2, <2>3, <2>4, <2>5, <2>6
  <1>5. A >= 2 * g /\ q = A * k /\ r = g * k
    BY <1>1, <1>4
  <1>6. CASE at \in 0..(q - 1)
    <2>1. PICK X, l, c : X = at \div k /\ l = at % k /\ c = (at \div k) + g - a
      OBVIOUS
    <2>2. /\ X \in 0..(A - 1) /\ l \in 0..(k - 1) /\ at = X * k + l
          /\ c \in 0..(2 * g) /\ n \div k = c /\ n % k = l
          /\ X = j - 2 * g + c
      <3>1. g <= g * k
        <4>1. 1 \in Nat /\ k \in Nat /\ 1 <= k /\ g <= g
          BY <1>2
        <4>2. g * 1 <= g * k
          BY <1>2, <4>1, Product
        <4> QED
          BY <1>2, <4>2
      <3>2. LanePlace(k, g, g, a, j, A, v, jj, at, n)
        BY <1>2, <1>4, <1>5, <1>6, <3>1 DEF LanePlace
      <3>3. LaneSource(k, g, j, A, at, n, X, l, c)
        BY <2>1, <3>2, LaneArithmetic
      <3> QED
        BY <3>3 DEF LaneSource
    <2>3. X \in 0..(A - 1) /\ c \in 0..(2 * g) /\ X = j - 2 * g + c
      BY <2>2, Zenon
    <2>4. g \in Nat /\ A \in Nat
      BY <1>2
    <2>5. n \div Vect = c /\ n % Vect = l
      BY <1>1, <2>2
    <2>6. GetWinCoords(n, GDelayX) = <<c, l>>
      <3>1. /\ call.kernelX - 1 - col = 2 * g - j
            /\ KernelXV - (col - (call.width - 1)) - 1 = 2 * g - (j - (A - 1))
        BY <1>4, <2>4
      <3>2. ~(c < 2 * g - j) /\ ~(c > 2 * g - (j - (A - 1)))
        BY <2>3, <2>4
      <3> QED
        BY <2>5, <3>1, <3>2 DEF GetWinCoords
    <2>7. WordFor(c) = c
      <3>1. /\ KernelXV - 1 - col = 2 * g - j
            /\ KernelXV - (col - (call.width - 1)) - 1 = 2 * g - (j - (A - 1))
        BY <1>4, <2>4
      <3>2. c >= 2 * g - j /\ c <= 2 * g - (j - (A - 1))
        BY <2>3, <2>4
      <3> QED
        BY <3>1, <3>2 DEF WordFor, GetNewCoords
    <2>8. Pad(call.padding, at, q) = at
      BY <1>2, <1>4, <1>6, PadInside
    <2>9. c \in Words /\ l \in Lanes /\ <<c, l>>[1] = c /\ <<c, l>>[2] = l
      BY <1>4, <2>2
    <2> HIDE DEF WordFor
    <2>10. Found(n, GDelayX, j, at)
      BY <1>1, <1>4, <2>2, <2>6, <2>7, <2>9 DEF Found
    <2> QED
      BY <1>4, <1>5, <2>8, <2>10
  <1>7. CASE at < 0
    <2>1. PICK t : t = -at
      OBVIOUS
    <2>2. 0 < g /\ a = 0 /\ t \in 1..g /\ n = r - t /\ at = -t
      BY <1>3, <1>7, <2>1 DEF BorderCases
    <2>3. col = g /\ j = g
      BY <1>2, <1>4, <2>2
    <2>4. g \in Nat /\ k \in Nat /\ A \in Nat \ {0} /\ g < k
      BY <1>2
    <2>5. Found(g * k - t, g, g, Pad(call.padding, -t, A * k))
      BY <1>1, <1>4, <2>2, <2>3, <2>4, LeftLane
    <2> QED
      BY <1>1, <1>4, <1>5, <2>2, <2>3, <2>5
  <1>8. CASE at >= q
    <2>1. PICK t : t = at - q
      OBVIOUS
    <2>2. 0 < g /\ a = A - 1 /\ t \in 0..(g - 1) /\ n = (r + k) + t /\ at = q + t
      BY <1>3, <1>8, <2>1 DEF BorderCases
    <2>3. col = j /\ j = A - 1 + g
      BY <1>2, <1>4, <2>2
    <2>4. g \in Nat /\ k \in Nat /\ A \in Nat \ {0} /\ g < k /\ A >= 2 * g
      BY <1>2, <1>5
    <2>5. Found((g + 1) * k + t, g, j, Pad(call.padding, A * k + t, A * k))
      BY <1>1, <1>4, <2>2, <2>3, <2>4, RightLane
    <2>6. (g + 1) * k + t = n
      <3>1. (g + 1) * k = g * k + k
        BY <1>2, OneMore
      <3> QED
        BY <1>5, <2>2, <3>1
    <2> QED
      BY <1>1, <1>4, <1>5, <2>2, <2>5, <2>6
  <1>9. at \in Int
    BY <1>3 DEF BorderCases
  <1> QED
    BY <1>2, <1>6, <1>7, <1>8, <1>9

-----------------------------------------------------------------------------
(* The window of a lane.                                                   *)

LaneOffsetOf(v) == IF IsWord THEN LaneOffset(v) ELSE DelayCols
Wanted(v, m) == GDelayXV * Vect - GDelayX + v + m

(* The window of lane v among those of all lanes.                          *)
ShownIn(w, v) ==
  [i \in Rows |-> [m \in 0..(2 * GDelayX) |->
     w[i][IF IsWord THEN v * call.kernelX + m ELSE m + v]]]

LEMMA LaneSlot ==
  ASSUME call \in Call, IsLocal, NEW w, NEW v \in Lanes, Centred(v),
         NEW i \in Rows, NEW m \in 0..(2 * GDelayX)
  PROVE  ShownIn(PixelWindow(w), v)[i][m] =
           PixelAt(w, i, Wanted(v, m), LaneOffsetOf(v))
  <1>1. PICK g, k, s : g = GDelayX /\ k = Vect
                       /\ s = IF IsWord THEN v * call.kernelX + m ELSE m + v
    OBVIOUS
  <1>2. /\ g \in Nat /\ k \in Nat \ {0} /\ call.kernelX = 2 * g + 1
        /\ v \in 0..(k - 1) /\ m \in 0..(2 * g)
    <2>1. g \in Nat /\ k \in Nat \ {0} /\ call.kernelX = 2 * g + 1
      BY <1>1, CallFacts
    <2> QED
      BY <1>1, <2>1 DEF Lanes
  <1>3. PICK z : z = call.kernelX
    OBVIOUS
  <1>4. z \in Nat \ {0} /\ m \in 0..(z - 1) /\ v \in Nat
    BY <1>2, <1>3
  <1>5. CASE IsWord
    <2>1. s = v * z + m /\ s \div z = v /\ s % z = m
      BY <1>1, <1>3, <1>4, <1>5, DivMod
    <2>2. s \in Cols
      <3>1. v + 1 \in Nat /\ v + 1 <= k /\ k \in Nat /\ z <= z /\ z \in Nat
        BY <1>2, <1>4
      <3>2. (v + 1) * z <= k * z /\ (v + 1) * z = v * z + z /\ v * z \in Nat
            /\ k * z \in Nat
        BY <1>4, <3>1, Product, OneMore
      <3>3. k * z = z * k
        BY <1>2, <1>4
      <3>4. s \in 0..(z * k - 1)
        BY <1>4, <2>1, <3>2, <3>3
      <3> QED
        BY <1>1, <1>3, <1>5, <3>4 DEF Cols
    <2>3. FirstPixelOf(v) + m = Wanted(v, m)
      BY <1>5 DEF Centred, FirstPixel, Wanted
    <2>4. PixelWindow(w)[i][s] =
            PixelAt(w, i, FirstPixelOf(s \div z) + (s % z), LaneOffset(s \div z))
      BY <1>3, <1>5, <2>2 DEF PixelWindow
    <2>5. PixelWindow(w)[i][s] = PixelAt(w, i, Wanted(v, m), LaneOffset(v))
      BY <2>1, <2>3, <2>4
    <2> QED
      BY <1>1, <1>5, <2>5 DEF ShownIn, LaneOffsetOf
  <1>6. CASE ~IsWord
    <2>1. s = m + v /\ s \in Cols
      BY <1>1, <1>2, <1>6 DEF Cols
    <2>2. PixelWindow(w)[i][s] = PixelAt(w, i, FirstPixel(s), DelayCols)
      BY <1>6, <2>1 DEF PixelWindow
    <2>3. FirstPixel(s) = Wanted(v, m)
      <3>1. PICK f : f = GDelayXV * Vect - GDelayX
        OBVIOUS
      <3>2. f \in Int
        <4>1. GDelayXV * Vect \in Nat
          BY CallFacts, OneMore
        <4> QED
          BY <1>1, <1>2, <3>1, <4>1
      <3>3. f + s = f + v + m
        BY <1>2, <2>1, <3>2
      <3> QED
        BY <3>1, <3>3 DEF FirstPixel, Wanted
    <2> QED
      BY <1>1, <1>6, <2>2, <2>3 DEF ShownIn, LaneOffsetOf
  <1> QED
    BY <1>5, <1>6

(* Lane v of word a of a line, while the window takes in word j: what the  *)
(* two properties ask for.                                                 *)
Inner(v, a, j) ==
  /\ Centred(v) /\ j < WordsPerRow
  /\ GDelayX <= a * Vect + v /\ (a * Vect + v) + GDelayX < PixelWidth
  /\ IsWord /\ GDelayX > Vect => Delay <= a
Bordered(v, a) ==
  /\ Centred(v) /\ call.op \in Wide /\ GDelayX < Vect /\ 2 * GDelayX <= call.width
  /\ a * Vect + v < PixelWidth

LEMMA LaneFound ==
  ASSUME call \in Call, IsLocal,
         NEW j \in Nat, col = ColsPerWord * j,
         NEW v \in Lanes, NEW a \in Nat, j = a + Delay,
         Inner(v, a, j) \/ Bordered(v, a), NEW m \in 0..(2 * GDelayX)
  PROVE  Found(Wanted(v, m), LaneOffsetOf(v), j,
               Pad(call.padding, (a * Vect + v) + m - GDelayX, PixelWidth))
  <1>1. PICK n, offset, x, at :
          /\ n = Wanted(v, m) /\ offset = LaneOffsetOf(v)
          /\ x = a * Vect + v /\ at = x + m - GDelayX
    OBVIOUS
  <1>2. n = GDelayXV * Vect - GDelayX + v + m
    BY <1>1 DEF Wanted
  <1>3. CASE Inner(v, a, j)
    <2>1. /\ Centred(v) /\ j < WordsPerRow
          /\ GDelayX <= x /\ x + GDelayX < PixelWidth
          /\ IsWord /\ GDelayX > Vect => Delay <= a
      BY <1>1, <1>3 DEF Inner
    <2>2. Found(n, offset, j, at) /\ at \in 0..(PixelWidth - 1)
      BY <1>1, <1>2, <2>1, InnerLane
    <2>3. PixelWidth \in Nat /\ call.padding \in Paddings
      <3>1. /\ call.padding \in Paddings /\ Vect \in Nat
            /\ call.width \in 1..MaxWidth /\ MaxWidth \in Nat
        BY CallFacts
      <3>2. call.width \in Nat
        BY <3>1
      <3> QED
        BY <3>1, <3>2, OneMore DEF PixelWidth
    <2>4. Pad(call.padding, at, PixelWidth) = at
      BY <2>2, <2>3, PadInside
    <2> QED
      BY <1>1, <2>2, <2>4
  <1>4. CASE Bordered(v, a)
    <2>1. /\ Centred(v) /\ call.op \in Wide /\ GDelayX < Vect
          /\ 2 * GDelayX <= call.width /\ x < PixelWidth
      BY <1>1, <1>4 DEF Bordered
    <2>2. IsWord
      BY <2>1 DEF IsWord, WordOps, WordLocal
    <2>3. PICK g, k, A, p, q, r : /\ g = GDelayX /\ k = Vect /\ A = WordsPerRow
                                  /\ p = a * Vect /\ q = WordsPerRow * Vect
                                  /\ r = GDelayX * Vect
      OBVIOUS
    <2>4. /\ g \in Nat /\ k \in Nat \ {0} /\ A \in Nat \ {0} /\ GDelayXV = g
          /\ DelayCols = g /\ ColsPerWord = 1 /\ Lanes = 0..(k - 1) /\ g < k
          /\ PixelWidth = q
      <3>1. /\ g \in Nat /\ k \in Nat \ {0} /\ A \in Nat \ {0} /\ g < k
            /\ GDelayXV = g /\ DelayCols = g /\ ColsPerWord = 1
            /\ call.width \in 1..MaxWidth /\ MaxWidth \in Nat
        BY <2>1, <2>2, <2>3, CallFacts, InWords
      <3>2. A = call.width
        <4>1. call.width \in Nat
          BY <3>1
        <4> QED
          BY <2>3, <3>1, <4>1, UpByOne DEF WordsPerRow
      <3> QED
        BY <2>2, <2>3, <3>1, <3>2 DEF Lanes, PixelWidth
    <2>5. col = j
      BY <2>4
    <2>6. offset = GDelayX
      BY <1>1, <2>2, <2>3, <2>4 DEF LaneOffsetOf, LaneOffset
    <2>7. p \in Nat /\ q \in Nat /\ r \in Nat /\ x = p + v
      BY <1>1, <2>3, <2>4, OneMore
    <2>8. a < A
      <3>1. ~(A <= a)
        <4>1. A <= a => q <= p
          <5>1. A \in Nat /\ k \in Nat /\ k <= k
            BY <2>4
          <5> QED
            BY <2>3, <5>1, Product
        <4>2. p + v < q /\ v \in Nat
          BY <2>1, <2>4, <2>7
        <4> QED
          BY <2>7, <4>1, <4>2
      <3> QED
        BY <2>4, <3>1
    <2>9. IF a = 0 THEN p = 0 ELSE k <= p
      <3>1. a # 0 => 1 * k <= a * k
        <4>1. 1 \in Nat /\ k \in Nat /\ k <= k /\ (a # 0 => 1 <= a)
          BY <2>4
        <4> QED
          BY <4>1, Product
      <3>2. 1 * k = k /\ 0 * k = 0
        BY <2>4
      <3> QED
        BY <2>3, <3>1, <3>2
    <2>10. IF a + 1 = A THEN q = p + k ELSE p + k + k <= q
      <3>1. (a + 1) * k = p + k /\ (a + 2) * k = p + k + k
        <4>1. a + 1 \in Nat /\ (a + 1) + 1 = a + 2 /\ k \in Nat
          BY <2>4
        <4>2. (a + 1) * k = a * k + k /\ ((a + 1) + 1) * k = (a + 1) * k + k
          BY <4>1, OneMore
        <4> QED
          BY <2>3, <4>1, <4>2
      <3>2. a + 1 # A => (a + 2) * k <= A * k
        <4>1. a + 2 \in Nat /\ A \in Nat /\ k \in Nat /\ k <= k /\ (a + 1 # A => a + 2 <= A)
          BY <2>4, <2>8
        <4> QED
          BY <4>1, Product
      <3> QED
        BY <2>3, <3>1, <3>2
    <2>11. at = p + v + m - g /\ n = r - g + v + m
      BY <1>1, <1>2, <2>3, <2>4, <2>7
    <2>12. BorderPlace(g, k, A, a, v, m, p, q, r, at, n)
      <3>1. {g, k, A, a, p, q, r} \subseteq Nat
        BY <2>4, <2>7
      <3>2. v \in 0..(k - 1) /\ m \in 0..(2 * g)
        BY <2>3, <2>4
      <3> QED
        BY <2>4, <2>8, <2>9, <2>10, <2>11, <3>1, <3>2 DEF BorderPlace
    <2>13. Found(n, GDelayX, j, Pad(call.padding, at, PixelWidth))
      BY <2>1, <2>3, <2>5, <2>12, BorderLane
    <2> QED
      BY <1>1, <2>6, <2>13
  <1> QED
    BY <1>3, <1>4

LEMMA WindowIsNeighbourhood ==
  ASSUME call \in Call, IsLocal, NEW p, NEW w \in Window,
         row \in GDelayY..(call.height + GDelayY - 1),
         NEW j \in Nat, col = ColsPerWord * j, Shows(w, p, row, j),
         NEW a \in Nat, j = a + Delay, NEW v \in Lanes,
         Inner(v, a, j) \/ Bordered(v, a)
  PROVE  ShownIn(PixelWindow(BorderY(BorderX(w))), v) =
           Neighbourhood(p, row - GDelayY, a * Vect + v)
  <1>1. PICK b, x, y : b = BorderY(BorderX(w)) /\ x = a * Vect + v /\ y = row - GDelayY
    OBVIOUS
  <1>2. /\ DelayX = GDelayX /\ DelayY = GDelayY /\ Rows = 0..(2 * GDelayY)
        /\ Vect \in Nat \ {0} /\ Lanes = 0..(Vect - 1)
    <2>1. GDelayY \in Nat /\ call.kernelY = 2 * GDelayY + 1 /\ Vect \in Nat \ {0}
      BY CallFacts
    <2>2. Rows = 0..(2 * GDelayY)
      BY <2>1 DEF Rows
    <2> QED
      BY <2>1, <2>2 DEF DelayX, DelayY, Lanes
  <1>3. Centred(v)
    BY DEF Inner, Bordered
  <1>4. ASSUME NEW i \in Rows, NEW m \in 0..(2 * GDelayX)
        PROVE  ShownIn(PixelWindow(b), v)[i][m] =
                 PixelOf(p, Pad(call.padding, y + i - GDelayY, call.height),
                            Pad(call.padding, x + m - GDelayX, PixelWidth))
    <2>1. PICK n, offset, z, yy :
            /\ n = Wanted(v, m) /\ offset = LaneOffsetOf(v)
            /\ z = Pad(call.padding, x + m - GDelayX, PixelWidth)
            /\ yy = Pad(call.padding, y + i - GDelayY, call.height)
      OBVIOUS
    <2>2. Found(n, offset, j, z)
      BY <1>1, <2>1, LaneFound
    <2>3. PICK c, l, X : /\ c = GetWinCoords(n, offset)[1]
                         /\ l = GetWinCoords(n, offset)[2]
                         /\ X = j - 2 * GDelayXV + c
      OBVIOUS
    <2>4. /\ c \in Words /\ l \in Lanes /\ WordFor(c) = c
          /\ X \in 0..(WordsPerRow - 1) /\ X * Vect + l = z
      BY <2>2, <2>3 DEF Found
    <2>5. z \div Vect = X /\ z % Vect = l
      <3>1. X \in Nat /\ l \in 0..(Vect - 1)
        BY <1>2, <2>4
      <3> QED
        BY <1>2, <2>4, <3>1, DivMod
    <2>6. b[i][c] = WordAt(p, yy, X)
      BY <1>1, <2>1, <2>3, <2>4, BorderedWord
    <2>7. PixelAt(b, i, n, offset) = <<b[i][c], l>>
      BY <2>3, <2>4 DEF PixelAt
    <2>8. ShownIn(PixelWindow(b), v)[i][m] = PixelAt(b, i, n, offset)
      BY <1>3, <2>1, LaneSlot
    <2>9. PixelOf(p, yy, z) = <<WordAt(p, yy, X), l>>
      BY <2>5 DEF PixelOf, WordAt
    <2> QED
      BY <2>1, <2>6, <2>7, <2>8, <2>9
  <1>5. ShownIn(PixelWindow(b), v) =
          [i \in Rows |-> [m \in 0..(2 * GDelayX) |->
             ShownIn(PixelWindow(b), v)[i][m]]]
    BY DEF ShownIn
  <1>6. Neighbourhood(p, y, x) =
          [i \in Rows |-> [m \in 0..(2 * GDelayX) |->
             PixelOf(p, Pad(call.padding, y + i - GDelayY, call.height),
                        Pad(call.padding, x + m - GDelayX, PixelWidth))]]
    BY <1>2 DEF Neighbourhood
  <1>7. ShownIn(PixelWindow(b), v) = Neighbourhood(p, y, x)
    BY <1>4, <1>5, <1>6
  <1> QED
    BY <1>1, <1>7

-----------------------------------------------------------------------------
(* The window of words and the line buffer move on.                        *)

(* The word that is read is the one of the loop's position.                *)
Read(px) == InImage => \A p \in Inputs : px[p] = WordAt(p, row, WordCol)

(* The loop's position: word j of row r.                                   *)
LEMMA LoopFacts ==
  ASSUME TypeOK, LoopOK, NEW j, j = WordCol
  PROVE  /\ call \in Call /\ j \in Nat /\ row \in Nat /\ col = ColsPerWord * j
         /\ GDelayY \in Nat /\ call.kernelY = 2 * GDelayY + 1
         /\ Rows = 0..(2 * GDelayY)
         /\ GDelayXV \in Nat /\ KernelXV = 2 * GDelayXV + 1
         /\ Words = 0..(2 * GDelayXV)
         /\ ColsPerWord \in Nat \ {0} /\ WordsPerRow \in Nat \ {0}
         /\ call.height \in Nat \ {0} /\ call.height <= MaxHeight
         /\ WordsPerRow <= MaxWidth /\ Delay \in Nat
         /\ MaxWidth \in Nat \ {0} /\ MaxHeight \in Nat \ {0}
         /\ (col < call.width <=> j < WordsPerRow)
         /\ (col >= DelayCols <=> j >= Delay)
  <1>1. call \in Call /\ j \in Nat /\ row \in Nat /\ col = ColsPerWord * j
    BY DEF TypeOK, LoopOK
  <1>2. /\ GDelayY \in Nat /\ call.kernelY = 2 * GDelayY + 1
        /\ GDelayXV \in Nat /\ KernelXV = 2 * GDelayXV + 1
        /\ ColsPerWord \in Nat \ {0}
        /\ MaxWidth \in Nat \ {0} /\ MaxHeight \in Nat \ {0}
        /\ call.height \in 1..MaxHeight
    BY <1>1, CallFacts
  <1>3. Rows = 0..(2 * GDelayY) /\ Words = 0..(2 * GDelayXV)
    BY <1>2 DEF Rows, Words
  <1>4. /\ WordsPerRow \in Nat \ {0} /\ WordsPerRow <= MaxWidth /\ Delay \in Nat
        /\ (col < call.width <=> j < WordsPerRow)
        /\ (col >= DelayCols <=> j >= Delay)
    BY <1>1, InWords
  <1>5. call.height \in Nat \ {0} /\ call.height <= MaxHeight
    BY <1>2
  <1> QED
    BY <1>1, <1>2, <1>3, <1>4, <1>5

(* A wide operator shifts as long as a pixel of the row is to be written.  *)
LEMMA ShiftsWhile ==
  ASSUME TypeOK, LoopOK, IsLocal, NEW j, j = WordCol
  PROVE  Shifts <=> /\ row < call.height + GDelayY
                    /\ j < WordsPerRow + (IF call.op \in Wide THEN Delay ELSE 0)
  <1>1. /\ j \in Nat /\ col = ColsPerWord * j /\ Delay \in Nat
        /\ WordsPerRow \in Nat /\ (col < call.width <=> j < WordsPerRow)
        /\ call \in Call
    BY LoopFacts
  <1>2. CASE call.op \in Wide
    <2>1. IsWord
      BY <1>2 DEF IsWord, WordOps, WordLocal
    <2>2. /\ ColsPerWord = 1 /\ DelayCols \in Nat /\ call.width \in 1..MaxWidth
          /\ MaxWidth \in Nat
      BY <1>1, <2>1, CallFacts
    <2>3. call.width \in Nat
      BY <2>2
    <2>4. Delay = DelayCols /\ WordsPerRow = call.width /\ col = j
      BY <1>1, <2>2, <2>3, UpByOne DEF Delay, WordsPerRow
    <2> QED
      BY <1>2, <2>4 DEF Shifts
  <1>3. CASE call.op \notin Wide
    BY <1>1, <1>3 DEF Shifts, Loads
  <1> QED
    BY <1>2, <1>3

LEMMA WindowSlides ==
  ASSUME TypeOK, LoopOK, LinesOK, WindowsOK, IsLocal, Shifts,
         NEW px, Read(px), NEW p \in Inputs
  PROVE  Shows(ShiftedIn(winTmp[p], lineBuff[p], px[p]), p, row, WordCol)
  <1>1. PICK e, n, A, h, r, j :
          /\ e = GDelayXV /\ n = GDelayY /\ A = WordsPerRow /\ h = call.height
          /\ r = row /\ j = WordCol
    OBVIOUS
  <1>2. /\ call \in Call /\ e \in Nat /\ KernelXV = 2 * e + 1 /\ Words = 0..(2 * e)
        /\ n \in Nat /\ call.kernelY = 2 * n + 1 /\ Rows = 0..(2 * n)
        /\ A \in Nat \ {0} /\ h \in Nat \ {0} /\ r \in Nat /\ j \in Nat
        /\ Delay \in Nat /\ (col < call.width <=> j < A)
    BY <1>1, LoopFacts
  <1>3. r < h + n /\ j < A + (IF call.op \in Wide THEN Delay ELSE 0)
    BY <1>1, ShiftsWhile
  <1>4. PICK old, buff, new :
          /\ old = winTmp[p] /\ buff = lineBuff[p]
          /\ new = ShiftedIn(old, buff, px[p])
    OBVIOUS
  <1>5. Loads <=> j < A
    BY <1>1, <1>2, <1>3 DEF Loads
  <1>6. new = [i \in Rows |-> [k \in Words |->
                 IF k < 2 * e THEN old[i][k + 1]
                 ELSE IF ~Loads THEN old[i][k]
                 ELSE IF i < 2 * n THEN buff[i][j] ELSE px[p]]]
    <2>1. KernelXV - 1 = 2 * e /\ call.kernelY - 1 = 2 * n
      BY <1>2
    <2> QED
      BY <1>1, <1>4, <2>1 DEF ShiftedIn
  <1>7. ASSUME NEW i \in Rows, NEW k \in Words, NEW y, NEW x,
               y = r - 2 * n + i, x = j - 2 * e + k, InPicture(y, x)
        PROVE  new[i][k] = WordAt(p, y, x)
    <2>1. y \in 0..(h - 1) /\ x \in 0..(A - 1) /\ i \in 0..(2 * n) /\ k \in 0..(2 * e)
      BY <1>1, <1>2, <1>7 DEF InPicture
    <2>2. CASE k < 2 * e
      <3>1. new[i][k] = old[i][k + 1] /\ k + 1 \in Words
        BY <1>2, <1>6, <2>1, <2>2
      <3>2. Shows(old, p, r, j - 1)
        BY <1>1, <1>2, <1>3, <1>4 DEF WindowsOK
      <3>3. /\ y = r - (call.kernelY - 1) + i
            /\ x = (j - 1) - (KernelXV - 1) + (k + 1)
        BY <1>2, <1>7, <2>1
      <3>4. old[i][k + 1] = WordAt(p, y, x)
        BY <1>7, <3>1, <3>2, <3>3 DEF Shows
      <3> QED
        BY <3>1, <3>4
    <2>3. CASE k = 2 * e /\ i < 2 * n
      <3>1. x = j /\ j < A /\ ~(k < 2 * e)
        BY <1>2, <1>7, <2>1, <2>3
      <3>2. new[i][k] = buff[i][j]
        BY <1>5, <1>6, <1>7, <2>3, <3>1
      <3>3. i \in 0..(call.kernelY - 2) /\ j \in 0..(A - 1)
        BY <1>2, <2>1, <2>3, <3>1
      <3>4. LineOf(i, j) = y
        BY <1>1, <1>2, <1>7, <2>1 DEF LineOf
      <3>5. buff[i][j] = WordAt(p, y, j)
        <4>1. \A a \in 0..(call.kernelY - 2) : \A b \in 0..(A - 1) :
                InPicture(LineOf(a, b), b) =>
                  lineBuff[p][a][b] = WordAt(p, LineOf(a, b), b)
          BY <1>1, <1>3 DEF LinesOK
        <4>2. InPicture(LineOf(i, j), j)
          BY <1>7, <3>1, <3>4
        <4>3. lineBuff[p][i][j] = WordAt(p, LineOf(i, j), j)
          BY <3>3, <4>1, <4>2
        <4> QED
          BY <1>4, <3>4, <4>3
      <3> QED
        BY <3>1, <3>2, <3>5
    <2>4. CASE k = 2 * e /\ ~(i < 2 * n)
      <3>1. x = j /\ j < A /\ y = r /\ r < h /\ ~(k < 2 * e)
        BY <1>2, <1>7, <2>1, <2>4
      <3>2. new[i][k] = px[p]
        BY <1>5, <1>6, <1>7, <2>4, <3>1
      <3>3. InImage
        BY <1>1, <1>2, <3>1 DEF InImage
      <3> QED
        BY <1>1, <3>1, <3>2, <3>3 DEF Read
    <2> QED
      BY <1>2, <2>1, <2>2, <2>3, <2>4
  <1>8. ASSUME NEW i \in Rows, NEW k \in Words,
               InPicture(row - (call.kernelY - 1) + i, WordCol - (KernelXV - 1) + k)
        PROVE  new[i][k] = WordAt(p, row - (call.kernelY - 1) + i,
                                     WordCol - (KernelXV - 1) + k)
    <2>1. PICK y, x : /\ y = row - (call.kernelY - 1) + i
                      /\ x = WordCol - (KernelXV - 1) + k
      OBVIOUS
    <2>2. y = r - 2 * n + i /\ x = j - 2 * e + k
      BY <1>1, <1>2, <2>1
    <2>3. InPicture(y, x)
      BY <1>8, <2>1
    <2>4. new[i][k] = WordAt(p, y, x)
      BY <1>7, <2>2, <2>3
    <2> QED
      BY <2>1, <2>4
  <1> QED
    BY <1>1, <1>4, <1>8 DEF Shows

(* The line buffer moves on by one line in one column of words.            *)
LEMMA LinesMove ==
  ASSUME TypeOK, LoopOK, LinesOK, IsLocal, Loads,
         NEW px, Read(px),
         NEW p \in Inputs, NEW i \in 0..(call.kernelY - 2),
         NEW c \in 0..(WordsPerRow - 1),
         NEW y, y = (IF c <= WordCol THEN row ELSE row - 1) - (call.kernelY - 2 - i),
         InPicture(y, c)
  PROVE  Pushed(lineBuff[p], px[p])[i][c] = WordAt(p, y, c)
  <1>1. PICK n, A, h, r, j :
          /\ n = GDelayY /\ A = WordsPerRow /\ h = call.height
          /\ r = row /\ j = WordCol
    OBVIOUS
  <1>2. /\ call \in Call /\ n \in Nat /\ call.kernelY = 2 * n + 1
        /\ A \in Nat \ {0} /\ h \in Nat \ {0} /\ r \in Nat /\ j \in Nat
        /\ (col < call.width <=> j < A) /\ col = ColsPerWord * j
    BY <1>1, LoopFacts
  <1>3. r < h + n /\ j < A
    BY <1>1, <1>2 DEF Loads
  <1>4. PICK buff, new : buff = lineBuff[p] /\ new = Pushed(buff, px[p])
    OBVIOUS
  <1>5. PICK M : M = MaxWidth \div ColsPerWord
    OBVIOUS
  <1>6. A <= M /\ buff \in [0..(2 * n - 1) -> [0..(M - 1) -> Word]]
    <2>1. A <= M
      BY <1>1, <1>2, <1>5, LocalInWords
    <2>2. call.kernelY - 2 = 2 * n - 1
      BY <1>2
    <2>3. Lines = [0..(2 * n - 1) -> [0..(M - 1) -> Word]]
      BY <1>5, <2>2 DEF Lines
    <2> QED
      BY <1>4, <2>1, <2>3 DEF TypeOK
  <1>7. new = [k \in 0..(2 * n - 1) |-> [buff[k] EXCEPT ![j] =
                 IF k < 2 * n - 1 THEN buff[k + 1][j] ELSE px[p]]]
    <2>1. call.kernelY - 2 = 2 * n - 1 /\ DOMAIN buff = 0..(2 * n - 1)
      BY <1>2, <1>6
    <2> QED
      BY <1>1, <1>4, <2>1 DEF Pushed
  <1>8. y \in 0..(h - 1) /\ c \in 0..(A - 1) /\ i \in 0..(2 * n - 1)
        /\ y = (IF c <= j THEN r ELSE r - 1) - (2 * n - 1 - i)
    BY <1>1, <1>2 DEF InPicture
  <1>9. \A k \in 0..(2 * n - 1) :
          InPicture(LineOf(k, c), c) => buff[k][c] = WordAt(p, LineOf(k, c), c)
    <2>1. call.kernelY - 2 = 2 * n - 1
      BY <1>2
    <2> QED
      BY <1>1, <1>3, <1>4, <1>8, <2>1 DEF LinesOK
  <1>10. CASE c # j
    <2>1. new[i][c] = buff[i][c]
      <3>1. new[i] = [buff[i] EXCEPT ![j] =
                        IF i < 2 * n - 1 THEN buff[i + 1][j] ELSE px[p]]
        BY <1>7, <1>8
      <3>2. buff[i] \in [0..(M - 1) -> Word]
        BY <1>6, <1>8
      <3> QED
        BY <1>10, <3>1, <3>2
    <2>2. LineOf(i, c) = y
      BY <1>1, <1>2, <1>8, <1>10 DEF LineOf
    <2> QED
      BY <1>4, <1>8, <1>9, <2>1, <2>2
  <1>11. ASSUME c = j
         PROVE  new[i][c] = IF i < 2 * n - 1 THEN buff[i + 1][j] ELSE px[p]
    <2>1. new[i] = [buff[i] EXCEPT ![j] =
                      IF i < 2 * n - 1 THEN buff[i + 1][j] ELSE px[p]]
      BY <1>7, <1>8
    <2>2. buff[i] \in [0..(M - 1) -> Word] /\ j \in 0..(M - 1)
      <3>1. j \in 0..(M - 1)
        <4>1. M \in Int
          BY <1>2, <1>5, CallFacts
        <4> QED
          BY <1>2, <1>3, <1>6, <4>1
      <3> QED
        BY <1>6, <1>8, <3>1
    <2> QED
      BY <1>11, <2>1, <2>2
  <1>12. CASE c = j /\ i < 2 * n - 1
    <2>1. new[i][c] = buff[i + 1][c]
      BY <1>11, <1>12
    <2>2. LineOf(i + 1, c) = y /\ i + 1 \in 0..(2 * n - 1)
      BY <1>1, <1>2, <1>8, <1>12 DEF LineOf
    <2> QED
      BY <1>4, <1>9, <2>1, <2>2
  <1>13. CASE c = j /\ ~(i < 2 * n - 1)
    <2>1. new[i][c] = px[p]
      BY <1>11, <1>13
    <2>2. y = r /\ InImage
      BY <1>1, <1>2, <1>3, <1>8, <1>13 DEF InImage
    <2> QED
      BY <1>1, <1>4, <1>13, <2>1, <2>2 DEF Read
  <1> QED
    BY <1>10, <1>12, <1>13

-----------------------------------------------------------------------------
(* What a step does to the two properties.                                 *)

(* What InnerPixelsAreFiltered asks of lane v of word a.                   *)
InnerLaneOf(v, a) ==
  /\ IsLocal => Centred(v)
  /\ DelayX <= a * Vect + v /\ (a * Vect + v) + DelayX < PixelWidth
  /\ a + Lag < WordsPerRow
  /\ IsWord /\ GDelayX > Vect => Lag <= a

LEMMA CallStaysToo ==
  ASSUME call' = call
  PROVE  /\ PixelWidth' = PixelWidth /\ Lag' = Lag
         /\ DelayX' = DelayX /\ DelayY' = DelayY
         /\ \A v : Centred(v)' = Centred(v)
         /\ \A v, a : InnerLaneOf(v, a)' = InnerLaneOf(v, a)
         /\ \A v, a : Bordered(v, a)' = Bordered(v, a)
         /\ \A p, y, x : Neighbourhood(p, y, x)' = Neighbourhood(p, y, x)
  <1>1. /\ Vect' = Vect /\ ColsPerWord' = ColsPerWord
        /\ IsLocal' = IsLocal /\ IsWord' = IsWord
        /\ GDelayX' = GDelayX /\ GDelayY' = GDelayY
        /\ GDelayXV' = GDelayXV /\ DelayCols' = DelayCols
        /\ WordsPerRow' = WordsPerRow
    BY CallStays
  <1>2. /\ PixelWidth' = PixelWidth /\ Lag' = Lag
        /\ DelayX' = DelayX /\ DelayY' = DelayY
    BY <1>1 DEF PixelWidth, Lag, DelayX, DelayY
  <1>3. \A v : Centred(v)' = Centred(v)
    BY <1>1 DEF Centred, FirstPixelOf, FirstPixel
  <1>4. \A v, a : InnerLaneOf(v, a)' = InnerLaneOf(v, a)
    BY <1>1, <1>2, <1>3 DEF InnerLaneOf
  <1>5. \A v, a : Bordered(v, a)' = Bordered(v, a)
    BY <1>1, <1>2, <1>3 DEF Bordered
  <1>6. \A p, y, x : Neighbourhood(p, y, x)' = Neighbourhood(p, y, x)
    BY <1>1, <1>2 DEF Neighbourhood, PixelOf
  <1> QED
    BY <1>2, <1>3, <1>4, <1>5, <1>6

(* Both properties, for word a of line y that is the last one written.     *)
LEMMA NextIsFiltered ==
  ASSUME call' = call, NEW y, NEW a, AtY' = y, AtWord' = a,
         ASSUME NEW v \in Lanes, HasWritten', InnerLaneOf(v, a) \/ Bordered(v, a),
                NEW p \in Inputs
         PROVE  WindowOf(p, v)' = Neighbourhood(p, y, a * Vect + v)
  PROVE  InnerPixelsAreFiltered' /\ BorderPixelsAreFiltered'
  <1>1. /\ Lanes' = Lanes /\ Inputs' = Inputs /\ Vect' = Vect
        /\ \A v, b : InnerLaneOf(v, b)' = InnerLaneOf(v, b)
        /\ \A v, b : Bordered(v, b)' = Bordered(v, b)
        /\ \A p, z, x : Neighbourhood(p, z, x)' = Neighbourhood(p, z, x)
    BY CallStays, CallStaysToo
  <1>2. InnerPixelsAreFiltered'
    <2>1. SUFFICES ASSUME NEW v \in Lanes, HasWritten', InnerLaneOf(v, AtWord)',
                          NEW p \in Inputs
                   PROVE  WindowOf(p, v)' = Neighbourhood(p, AtY, AtWord * Vect + v)'
      BY <1>1 DEF InnerPixelsAreFiltered, InnerLaneOf
    <2>2. InnerLaneOf(v, a)
      BY <1>1, <2>1
    <2>3. WindowOf(p, v)' = Neighbourhood(p, y, a * Vect + v)
      BY <2>1, <2>2
    <2> QED
      BY <1>1, <2>3
  <1>3. BorderPixelsAreFiltered'
    <2>1. SUFFICES ASSUME NEW v \in Lanes, HasWritten', Bordered(v, AtWord)',
                          NEW p \in Inputs
                   PROVE  WindowOf(p, v)' = Neighbourhood(p, AtY, AtWord * Vect + v)'
      BY <1>1 DEF BorderPixelsAreFiltered, Bordered
    <2>2. Bordered(v, a)
      BY <1>1, <2>1
    <2>3. WindowOf(p, v)' = Neighbourhood(p, y, a * Vect + v)
      BY <2>1, <2>2
    <2> QED
      BY <1>1, <2>3
  <1> QED
    BY <1>2, <1>3

(* Nothing is written.                                                     *)
LEMMA StaysFiltered ==
  ASSUME call' = call, out' = out, writes' = writes,
         InnerPixelsAreFiltered, BorderPixelsAreFiltered
  PROVE  InnerPixelsAreFiltered' /\ BorderPixelsAreFiltered'
  <1>1. PICK y, a : y = AtY /\ a = AtWord
    OBVIOUS
  <1>2. AtY' = y /\ AtWord' = a /\ HasWritten' = HasWritten
    BY <1>1, CallStays DEF AtY, AtWord, HasWritten
  <1>3. \A p, v : WindowOf(p, v)' = WindowOf(p, v)
    BY CallStays DEF WindowOf
  <1>4. ASSUME NEW v \in Lanes, HasWritten', InnerLaneOf(v, a) \/ Bordered(v, a),
               NEW p \in Inputs
        PROVE  WindowOf(p, v)' = Neighbourhood(p, y, a * Vect + v)
    <2>1. HasWritten
      BY <1>2, <1>4
    <2>2. CASE InnerLaneOf(v, a)
      <3>1. WindowOf(p, v) = Neighbourhood(p, AtY, AtWord * Vect + v)
        BY <1>1, <1>4, <2>1, <2>2 DEF InnerPixelsAreFiltered, InnerLaneOf
      <3> QED
        BY <1>1, <1>3, <3>1
    <2>3. CASE Bordered(v, a)
      <3>1. WindowOf(p, v) = Neighbourhood(p, AtY, AtWord * Vect + v)
        BY <1>1, <1>4, <2>1, <2>3 DEF BorderPixelsAreFiltered, Bordered
      <3> QED
        BY <1>1, <1>3, <3>1
    <2> QED
      BY <1>4, <2>2, <2>3
  <1> QED
    BY <1>2, <1>4, NextIsFiltered

(* The operators without a delay that write nothing they promise.          *)
LEMMA PyramidIsFiltered ==
  ASSUME call' = call, call.op \in Pyramid
  PROVE  InnerPixelsAreFiltered' /\ BorderPixelsAreFiltered'
  BY DEF InnerPixelsAreFiltered, BorderPixelsAreFiltered, HasWritten

-----------------------------------------------------------------------------
(* The steps.                                                              *)

(* The words that are read.                                                *)
LEMMA WordIsRead ==
  ASSUME TypeOK, LoopOK, CountOK, NEW j, j = WordCol
  PROVE  /\ reads = ReadUpTo(IsUp, WordsPerRow, call.height, row, j)
         /\ reads \in Nat
         /\ IsRead(IsUp, WordsPerRow, call.height, row, j) =>
              \A p \in Inputs : <<p, reads>> \in Word
         /\ ~IsUp /\ InImage => \A p : WordAt(p, row, j) = <<p, reads>>
  <1>1. PICK A, h, r, up :
          A = WordsPerRow /\ h = call.height /\ r = row /\ up = IsUp
    OBVIOUS
  <1>2. /\ call \in Call /\ A \in Nat \ {0} /\ h \in Nat \ {0} /\ r \in Nat /\ j \in Nat
        /\ h <= MaxHeight /\ A <= MaxWidth /\ MaxWidth \in Nat /\ MaxHeight \in Nat
        /\ (col < call.width <=> j < A) /\ up \in BOOLEAN
    BY <1>1, LoopFacts DEF IsUp
  <1>3. reads = ReadUpTo(up, A, h, r, j) /\ reads \in Nat
    BY <1>1 DEF CountOK, TypeOK
  <1>4. ASSUME IsRead(up, A, h, r, j), NEW p \in Inputs
        PROVE  <<p, reads>> \in Word
    <2>1. reads < A * h
      BY <1>2, <1>3, <1>4, ReadBound
    <2>2. A * h <= MaxWidth * MaxHeight /\ A * h \in Nat /\ MaxWidth * MaxHeight \in Nat
      <3>1. A \in Nat /\ h \in Nat
        BY <1>2
      <3> QED
        BY <1>2, <3>1, Product
    <2>3. reads \in 0..(MaxWidth * MaxHeight - 1)
      BY <1>3, <2>1, <2>2
    <2>4. p \in {1, 2, 3}
      BY <1>2, <1>4, CallFacts
    <2> QED
      BY <2>3, <2>4 DEF Word
  <1>5. ASSUME ~up, InImage, NEW p
        PROVE  WordAt(p, row, j) = <<p, reads>>
    <2>1. j < A /\ r < h
      BY <1>1, <1>2, <1>5 DEF InImage
    <2>2. reads = r * A + j
      BY <1>2, <1>3, <1>5, <2>1 DEF ReadUpTo, Min2
    <2> QED
      BY <1>1, <2>2 DEF WordAt
  <1> QED
    BY <1>1, <1>3, <1>4, <1>5

(* The loop and what it has read.  A row ends behind the image.            *)
LEMMA LoopReads ==
  ASSUME TypeOK, LoopOK, CountOK, NEW j, j = WordCol, row < LastRow,
         call' = call, NEW n, AdvanceLoop(n),
         ~(col + ColsPerWord < n) => j + 1 >= WordsPerRow,
         IsLocal /\ col + ColsPerWord < n => j + 1 < OutWordsPerRow + Delay,
         reads' = reads + (IF IsRead(IsUp, WordsPerRow, call.height, row, j)
                           THEN 1 ELSE 0)
  PROVE  /\ LoopOK' /\ row' \in Nat /\ col' \in Nat
         /\ reads' = ReadUpTo(IsUp, WordsPerRow, call.height, row', WordCol')
         /\ reads' \in 0..(MaxWidth * MaxHeight)
         /\ \/ row' = row /\ WordCol' = j + 1 /\ col + ColsPerWord < n
            \/ row' = row + 1 /\ WordCol' = 0 /\ ~(col + ColsPerWord < n)
  <1>1. PICK A, h, r, up, e, s :
          /\ A = WordsPerRow /\ h = call.height /\ r = row /\ up = IsUp
          /\ e = j + 1 /\ s = r + 1
    OBVIOUS
  <1>2. /\ call \in Call /\ A \in Nat \ {0} /\ h \in Nat \ {0} /\ r \in Nat /\ j \in Nat
        /\ h <= MaxHeight /\ A <= MaxWidth /\ MaxWidth \in Nat /\ MaxHeight \in Nat
        /\ col = ColsPerWord * j /\ up \in BOOLEAN /\ e \in Nat /\ s \in Nat
        /\ ColsPerWord \in Nat \ {0}
    <2>1. /\ call \in Call /\ A \in Nat \ {0} /\ h \in Nat \ {0} /\ r \in Nat /\ j \in Nat
          /\ h <= MaxHeight /\ A <= MaxWidth /\ MaxWidth \in Nat /\ MaxHeight \in Nat
          /\ col = ColsPerWord * j /\ up \in BOOLEAN /\ ColsPerWord \in Nat \ {0}
      BY <1>1, LoopFacts DEF IsUp
    <2> QED
      BY <1>1, <2>1
  <1>3. reads = ReadUpTo(up, A, h, r, j)
    BY <1>1, WordIsRead
  <1>4. ReadUpTo(up, A, h, r, e) = reads'
    BY <1>1, <1>2, <1>3, ReadStep
  <1>5. \/ /\ col + ColsPerWord < n /\ row' = r
           /\ WordCol' = e /\ col' = ColsPerWord * e
        \/ /\ ~(col + ColsPerWord < n) /\ row' = s
           /\ WordCol' = 0 /\ col' = 0
    BY <1>1, <1>2, LoopAdvances
  <1>6. ~(col + ColsPerWord < n) => ReadUpTo(up, A, h, s, 0) = reads'
    <2>1. SUFFICES ASSUME ~(col + ColsPerWord < n)
                   PROVE  ReadUpTo(up, A, h, s, 0) = ReadUpTo(up, A, h, r, e)
      BY <1>4
    <2>2. e >= A
      BY <1>1, <2>1
    <2> QED
      BY <1>1, <1>2, <2>2, ReadRow
  <1>7. reads' = ReadUpTo(up, A, h, row', WordCol')
    BY <1>4, <1>5, <1>6
  <1>8. row' \in Nat /\ WordCol' \in Nat /\ col' \in Nat
        /\ col' = ColsPerWord * WordCol'
    <2>1. ColsPerWord * e \in Nat /\ ColsPerWord * 0 = 0
      BY <1>2, OneMore
    <2> QED
      BY <1>2, <1>5, <2>1
  <1>9. reads' \in 0..(MaxWidth * MaxHeight)
    <2>1. ReadUpTo(up, A, h, row', WordCol') \in 0..(A * h)
      BY <1>2, <1>8, ReadBound
    <2>2. A * h <= MaxWidth * MaxHeight /\ A * h \in Nat /\ MaxWidth * MaxHeight \in Nat
      <3>1. A \in Nat /\ h \in Nat
        BY <1>2
      <3> QED
        BY <1>2, <3>1, Product
    <2> QED
      BY <1>7, <2>1, <2>2
  <1>10. LoopOK'
    <2>1. /\ ColsPerWord' = ColsPerWord /\ IsLocal' = IsLocal
          /\ OutWordsPerRow' = OutWordsPerRow /\ Delay' = Delay /\ LastRow' = LastRow
      BY CallStays
    <2>2. IsLocal => WordCol' < OutWordsPerRow + Delay
      <3>1. IsLocal => OutWordsPerRow \in Nat \ {0} /\ Delay \in Nat
        BY <1>2, LocalInWords, InWords
      <3> QED
        BY <1>1, <1>5, <3>1
    <2>3. LastRow \in Int
      <3>1. IsLocal => LoopHeight \in Nat
        BY <1>2, LocalInWords
      <3>2. GDelayY \in Nat
        BY <1>2, CallFacts
      <3> QED
        BY <1>1, <1>2, <3>1, <3>2 DEF LastRow
    <2>4. row' < LastRow \/ (row' = LastRow /\ col' = 0)
      BY <1>1, <1>2, <1>5, <2>3
    <2> QED
      BY <1>8, <2>1, <2>2, <2>4 DEF LoopOK
  <1> QED
    BY <1>1, <1>5, <1>7, <1>8, <1>9, <1>10

(* A local operator loads words that its line buffer has room for.         *)
LEMMA LoadsFit ==
  ASSUME TypeOK, LoopOK, IsLocal, Loads
  PROVE  WordCol \in 0..(MaxWidth \div ColsPerWord - 1)
  <1>1. PICK j, A, M : j = WordCol /\ A = WordsPerRow /\ M = MaxWidth \div ColsPerWord
    OBVIOUS
  <1>2. /\ call \in Call /\ j \in Nat /\ A \in Nat \ {0} /\ col = ColsPerWord * j
        /\ (col < call.width <=> j < A)
        /\ ColsPerWord \in Nat \ {0} /\ MaxWidth \in Nat \ {0}
    BY <1>1, LoopFacts
  <1>3. A <= M
    BY <1>1, <1>2, LocalInWords
  <1>4. M \in Int
    BY <1>1, <1>2, Quotient
  <1>5. j < A
    BY <1>2 DEF Loads
  <1> QED
    BY <1>1, <1>2, <1>3, <1>4, <1>5

LEMMA ShiftedType ==
  ASSUME TypeOK, LoopOK, IsLocal, NEW w \in Window, NEW b \in Lines, NEW x \in Word
  PROVE  ShiftedIn(w, b, x) \in Window
  <1>1. PICK j, n, e, M : j = WordCol /\ n = GDelayY /\ e = GDelayXV
                          /\ M = MaxWidth \div ColsPerWord
    OBVIOUS
  <1>2. /\ n \in Nat /\ call.kernelY = 2 * n + 1 /\ Rows = 0..(2 * n)
        /\ e \in Nat /\ KernelXV = 2 * e + 1 /\ Words = 0..(2 * e)
    BY <1>1, LoopFacts
  <1>3. Loads => j \in 0..(M - 1)
    BY <1>1, LoadsFit
  <1>4. b \in [0..(2 * n - 1) -> [0..(M - 1) -> Word]]
    <2>1. call.kernelY - 2 = 2 * n - 1
      BY <1>2
    <2> QED
      BY <1>1, <2>1 DEF Lines
  <1>5. w \in [Rows -> [Words -> Word]]
    BY DEF Window
  <1>6. ASSUME NEW i \in Rows, NEW k \in Words
        PROVE  (IF k < KernelXV - 1 THEN w[i][k + 1]
                ELSE IF ~Loads THEN w[i][k]
                ELSE IF i < call.kernelY - 1 THEN b[i][WordCol] ELSE x) \in Word
    <2>1. k < KernelXV - 1 => w[i][k + 1] \in Word
      <3>1. k < KernelXV - 1 => k + 1 \in Words
        BY <1>2
      <3> QED
        BY <1>5, <3>1
    <2>2. w[i][k] \in Word
      BY <1>5
    <2>3. Loads /\ i < call.kernelY - 1 => b[i][WordCol] \in Word
      <3>1. i < call.kernelY - 1 => i \in 0..(2 * n - 1)
        BY <1>2
      <3> QED
        BY <1>1, <1>3, <1>4, <3>1
    <2> QED
      BY <2>1, <2>2, <2>3
  <1> QED
    BY <1>6 DEF ShiftedIn, Window

LEMMA PushedType ==
  ASSUME TypeOK, LoopOK, IsLocal, Loads, NEW b \in Lines, NEW x \in Word
  PROVE  Pushed(b, x) \in Lines
  <1>1. PICK j, n, M : j = WordCol /\ n = GDelayY
                       /\ M = MaxWidth \div ColsPerWord
    OBVIOUS
  <1>2. n \in Nat /\ call.kernelY - 2 = 2 * n - 1
    <2>1. n \in Nat /\ call.kernelY = 2 * n + 1
      BY <1>1, LoopFacts
    <2> QED
      BY <2>1
  <1>3. j \in 0..(M - 1)
    BY <1>1, LoadsFit
  <1>4. Lines = [0..(2 * n - 1) -> [0..(M - 1) -> Word]]
    BY <1>1, <1>2 DEF Lines
  <1>5. ASSUME NEW i \in 0..(2 * n - 1)
        PROVE  [b[i] EXCEPT ![j] = IF i < 2 * n - 1 THEN b[i + 1][j] ELSE x]
                 \in [0..(M - 1) -> Word]
    <2>1. i < 2 * n - 1 => i + 1 \in 0..(2 * n - 1)
      BY <1>2
    <2>2. (IF i < 2 * n - 1 THEN b[i + 1][j] ELSE x) \in Word
      BY <1>3, <1>4, <2>1
    <2>3. b[i] \in [0..(M - 1) -> Word]
      BY <1>4
    <2> QED
      BY <2>2, <2>3
  <1>6. Pushed(b, x) = [i \in 0..(2 * n - 1) |-> [b[i] EXCEPT ![j] =
                          IF i < 2 * n - 1 THEN b[i + 1][j] ELSE x]]
    <2>1. DOMAIN b = 0..(2 * n - 1)
      BY <1>4
    <2> QED
      BY <1>1, <1>2, <2>1 DEF Pushed
  <1> QED
    BY <1>4, <1>5, <1>6

LEMMA PixelWindowType ==
  ASSUME IsLocal, NEW w \in Window
  PROVE  PixelWindow(w) \in Answer
  <1>1. ASSUME NEW i \in Rows, NEW n, NEW offset
        PROVE  PixelAt(w, i, n, offset) \in Pixel
    <2>1. PICK at : at = GetWinCoords(n, offset)
      OBVIOUS
    <2>2. at[1] \in Words /\ at[2] \in Lanes => <<w[i][at[1]], at[2]>> \in Pixel
      BY DEF Window, Pixel
    <2>3. JunkPixel \in Pixel
      BY DEF Pixel
    <2> QED
      BY <2>1, <2>2, <2>3 DEF PixelAt
  <1>2. PixelWindow(w) \in [Rows -> [Cols -> Pixel]]
    BY <1>1 DEF PixelWindow
  <1> QED
    BY <1>2 DEF Answer, OutRows, OutCols

LEMMA LocalStepType ==
  ASSUME TypeOK, LoopOK, CountOK, LocalStep
  PROVE  /\ inWord' \in [Inputs -> Word] /\ lineBuff' \in [Inputs -> Lines]
         /\ winTmp' \in [Inputs -> Window] /\ winVect' \in [Inputs -> Answer]
         /\ out' \in [Inputs -> Answer]
         /\ Read(inWord')
  <1>1. IsLocal /\ call \in Call /\ row \in Nat
    BY DEF LocalStep, LocalRuns, TypeOK
  <1>2. ~IsUp
    BY <1>1 DEF IsUp, IsLocal, PixelLocal, WordLocal, LeftAligned, Wide
  <1>3. inWord' = [p \in Inputs |-> IF InImage THEN <<p, reads>> ELSE inWord[p]]
    BY DEF LocalStep
  <1>4. PICK j : j = WordCol
    OBVIOUS
  <1>5. InImage => IsRead(IsUp, WordsPerRow, call.height, row, j)
    <2>1. col < call.width <=> j < WordsPerRow
      BY <1>4, LoopFacts
    <2> QED
      BY <1>2, <2>1 DEF InImage, IsRead
  <1>6. inWord' \in [Inputs -> Word]
    <2>1. InImage => \A p \in Inputs : <<p, reads>> \in Word
      BY <1>4, <1>5, WordIsRead
    <2> QED
      BY <1>3, <2>1 DEF TypeOK
  <1>7. Read(inWord')
    <2>1. InImage => \A p : WordAt(p, row, j) = <<p, reads>>
      BY <1>2, <1>4, WordIsRead
    <2> QED
      BY <1>3, <1>4, <2>1 DEF Read
  <1>8. lineBuff' \in [Inputs -> Lines]
    <2>1. lineBuff' = [p \in Inputs |-> IF Loads THEN Pushed(lineBuff[p], inWord'[p])
                                       ELSE lineBuff[p]]
      BY DEF LocalStep
    <2>2. lineBuff \in [Inputs -> Lines]
      BY DEF TypeOK
    <2>3. \A p \in Inputs : Loads => Pushed(lineBuff[p], inWord'[p]) \in Lines
      BY <1>1, <1>6, <2>2, PushedType
    <2> QED
      BY <2>1, <2>2, <2>3
  <1>9. winTmp' \in [Inputs -> Window] /\ winVect' \in [Inputs -> Answer]
    <2>1. CASE Shifts
      <3>1. /\ winTmp' = [p \in Inputs |->
                            ShiftedIn(winTmp[p], lineBuff[p], inWord'[p])]
            /\ winVect' = [p \in Inputs |->
                             PixelWindow(BorderY(BorderX(winTmp'[p])))]
        BY <2>1 DEF LocalStep
      <3>2. winTmp \in [Inputs -> Window] /\ lineBuff \in [Inputs -> Lines]
        BY DEF TypeOK
      <3>3. \A p \in Inputs : ShiftedIn(winTmp[p], lineBuff[p], inWord'[p]) \in Window
        BY <1>1, <1>6, <3>2, ShiftedType
      <3>4. winTmp' \in [Inputs -> Window]
        BY <3>1, <3>3
      <3>5. \A p \in Inputs : BorderY(BorderX(winTmp'[p])) \in Window
        BY <1>1, <3>4, BorderedType
      <3>6. \A p \in Inputs : PixelWindow(BorderY(BorderX(winTmp'[p]))) \in Answer
        BY <1>1, <3>5, PixelWindowType
      <3> QED
        BY <3>1, <3>4, <3>6
    <2>2. CASE ~Shifts
      BY <2>2 DEF LocalStep, TypeOK
    <2> QED
      BY <2>1, <2>2
  <1>10. out' \in [Inputs -> Answer]
    BY <1>9 DEF LocalStep, TypeOK
  <1> QED
    BY <1>6, <1>7, <1>8, <1>9, <1>10

(* The words a local operator writes.                                      *)
LEMMA LocalWrites ==
  ASSUME TypeOK, LoopOK, CountOK, LocalStep, NEW j, j = WordCol
  PROVE  /\ writes' = WrittenUpTo(OutWordsPerRow, row' - GDelayY, WordCol' - Delay)
         /\ writes' \in Nat
         /\ FilterRuns => /\ row >= GDelayY /\ j >= Delay
                          /\ writes' - 1 =
                               (row - GDelayY) * OutWordsPerRow + (j - Delay)
                          /\ j - Delay < OutWordsPerRow
  <1>1. PICK B, d, n, r, y, x, e, M :
          /\ B = OutWordsPerRow /\ d = Delay /\ n = GDelayY /\ r = row
          /\ y = row - GDelayY /\ x = j - Delay /\ e = x + 1 /\ M = LoopWidth + DelayCols
    OBVIOUS
  <1>2. IsLocal /\ call' = call /\ AdvanceLoop(M)
    BY <1>1 DEF LocalStep, LocalRuns
  <1>3. /\ call \in Call /\ j \in Nat /\ r \in Nat /\ n \in Nat /\ d \in Nat
        /\ col = ColsPerWord * j /\ (col >= DelayCols <=> j >= d)
    BY <1>1, LoopFacts
  <1>4. /\ B \in Nat \ {0}
        /\ (col + ColsPerWord < M <=> j + 1 < B + d)
    BY <1>1, <1>2, <1>3, LocalInWords
  <1>5. j < B + d
    BY <1>1, <1>2 DEF LoopOK
  <1>6. y \in Int /\ x \in Int /\ x < B /\ y = r - n /\ x = j - d
    BY <1>1, <1>3, <1>4, <1>5
  <1>7. writes = WrittenUpTo(B, y, x) /\ writes \in Nat
    BY <1>1, <1>2 DEF CountOK, TypeOK
  <1>8. writes' = writes + (IF y >= 0 /\ x >= 0 THEN 1 ELSE 0)
    <2>1. FilterRuns <=> y >= 0 /\ x >= 0
      BY <1>1, <1>3, <1>6 DEF FilterRuns
    <2>2. writes' = IF FilterRuns THEN writes + 1 ELSE writes
      BY DEF LocalStep
    <2> QED
      BY <1>7, <2>1, <2>2
  <1>9. /\ WrittenUpTo(B, y, e) = writes'
        /\ e = B => \A z \in Int : z <= 0 => WrittenUpTo(B, y + 1, z) = WrittenUpTo(B, y, e)
    <2>1. B \in Nat \ {0} /\ y \in Int /\ x \in Int /\ x < B /\ e = x + 1
      BY <1>1, <1>4, <1>6
    <2>2. /\ WrittenUpTo(B, y, e) =
               WrittenUpTo(B, y, x) + (IF y >= 0 /\ x >= 0 THEN 1 ELSE 0)
          /\ e = B => \A z \in Int : z <= 0 =>
               WrittenUpTo(B, y + 1, z) = WrittenUpTo(B, y, e)
      BY <2>1, WriteStep
    <2> QED
      BY <1>7, <1>8, <2>2
  <1>10. \/ row' = r /\ WordCol' = j + 1 /\ j + 1 < B + d
         \/ row' = r + 1 /\ WordCol' = 0 /\ ~(j + 1 < B + d)
    BY <1>1, <1>2, <1>3, <1>4, LoopAdvances
  <1>11. writes' = WrittenUpTo(B, row' - n, WordCol' - d)
    <2>1. CASE row' = r /\ WordCol' = j + 1
      <3>1. row' - n = y /\ WordCol' - d = e
        BY <1>1, <1>3, <1>6, <2>1
      <3> QED
        BY <1>9, <3>1
    <2>2. CASE row' = r + 1 /\ WordCol' = 0 /\ ~(j + 1 < B + d)
      <3>1. PICK z : z = 0 - d
        OBVIOUS
      <3>2. /\ row' - n = y + 1 /\ WordCol' - d = z /\ z \in Int /\ z <= 0
            /\ e = B
        BY <1>1, <1>3, <1>4, <1>5, <1>6, <2>2, <3>1
      <3> QED
        BY <1>9, <3>2
    <2> QED
      BY <1>10, <2>1, <2>2
  <1>12. writes' \in Nat
    BY <1>7, <1>8
  <1>13. FilterRuns => writes' - 1 = y * B + x /\ y >= 0 /\ x >= 0
    <2>1. SUFFICES ASSUME FilterRuns PROVE writes' - 1 = y * B + x /\ y >= 0 /\ x >= 0
      OBVIOUS
    <2>2. y >= 0 /\ x >= 0
      BY <1>1, <1>3, <1>6, <2>1 DEF FilterRuns
    <2>3. writes = y * B + x /\ y * B \in Nat
      <3>1. y * B \in Nat
        BY <1>4, <1>6, <2>2, OneMore
      <3> QED
        BY <1>6, <1>7, <2>2, <3>1 DEF WrittenUpTo, Max2
    <2> QED
      BY <1>6, <1>8, <2>2, <2>3
  <1> QED
    BY <1>1, <1>3, <1>6, <1>11, <1>12, <1>13

LEMMA LocalStepOK ==
  ASSUME IInv, LocalStep
  PROVE  IInv'
  <1>1. /\ TypeOK /\ LoopOK /\ CountOK /\ LinesOK /\ WindowsOK
        /\ InnerPixelsAreFiltered /\ BorderPixelsAreFiltered
        /\ IsLocal /\ call \in Call /\ call' = call /\ AdvanceLoop(LoopWidth + DelayCols)
        /\ ~IsUp
    BY DEF IInv, TypeOK, LocalStep, LocalRuns, IsUp, IsLocal, PixelLocal, WordLocal,
           LeftAligned, Wide
  <1>2. PICK j, A, B, d, n, h, r, W, M :
          /\ j = WordCol /\ A = WordsPerRow /\ B = OutWordsPerRow /\ d = Delay
          /\ n = GDelayY /\ h = call.height /\ r = row
          /\ W = (IF call.op \in Wide THEN Delay ELSE 0) /\ M = LoopWidth + DelayCols
    OBVIOUS
  <1>3. /\ j \in Nat /\ r \in Nat /\ n \in Nat /\ d \in Nat
        /\ A \in Nat \ {0} /\ h \in Nat \ {0}
        /\ (col < call.width <=> j < A) /\ col = ColsPerWord * j
        /\ call.kernelY = 2 * n + 1 /\ Rows = 0..(2 * n)
    BY <1>1, <1>2, LoopFacts
  <1>4. /\ B \in Nat \ {0} /\ A <= B /\ Lag = d
        /\ (col + ColsPerWord < M <=> j + 1 < B + d)
        /\ LoopHeight \in Nat /\ h <= LoopHeight
    BY <1>1, <1>2, <1>3, LocalInWords
  <1>5. r < LastRow /\ LastRow = LoopHeight + n
    BY <1>1, <1>2 DEF LocalStep, LocalRuns, LastRow
  <1>6. /\ LoopOK' /\ row' \in Nat /\ col' \in Nat
        /\ reads' = ReadUpTo(IsUp, A, h, row', WordCol')
        /\ reads' \in 0..(MaxWidth * MaxHeight)
        /\ \/ row' = r /\ WordCol' = j + 1 /\ j + 1 < B + d
           \/ row' = r + 1 /\ WordCol' = 0 /\ ~(j + 1 < B + d)
    <2>1. reads' = reads + (IF IsRead(IsUp, A, h, r, j) THEN 1 ELSE 0)
      <3>1. InImage <=> IsRead(IsUp, A, h, r, j)
        BY <1>1, <1>2, <1>3 DEF InImage, IsRead
      <3>2. reads' = IF InImage THEN reads + 1 ELSE reads
        BY DEF LocalStep
      <3>3. reads \in Nat
        BY <1>1, WordIsRead
      <3> QED
        BY <3>1, <3>2, <3>3
    <2>2. ~(col + ColsPerWord < M) => j + 1 >= A
      BY <1>3, <1>4
    <2>3. row < LastRow
      BY <1>2, <1>5
    <2>4. AdvanceLoop(M)
      BY <1>1, <1>2
    <2>5. /\ LoopOK' /\ row' \in Nat /\ col' \in Nat
          /\ reads' = ReadUpTo(IsUp, WordsPerRow, call.height, row', WordCol')
          /\ reads' \in 0..(MaxWidth * MaxHeight)
          /\ \/ row' = row /\ WordCol' = j + 1 /\ col + ColsPerWord < M
             \/ row' = row + 1 /\ WordCol' = 0 /\ ~(col + ColsPerWord < M)
      BY <1>1, <1>2, <1>4, <2>1, <2>2, <2>3, <2>4, LoopReads
    <2> QED
      BY <1>2, <1>4, <2>5
  <1>7. /\ writes' = WrittenUpTo(B, row' - n, WordCol' - d) /\ writes' \in Nat
        /\ FilterRuns => /\ r >= n /\ j >= d
                         /\ writes' - 1 = (r - n) * B + (j - d) /\ j - d < B
    BY <1>1, <1>2, LocalWrites
  <1>8. /\ inWord' \in [Inputs -> Word] /\ lineBuff' \in [Inputs -> Lines]
        /\ winTmp' \in [Inputs -> Window] /\ winVect' \in [Inputs -> Answer]
        /\ out' \in [Inputs -> Answer] /\ Read(inWord')
    BY <1>1, LocalStepType
  <1>9. /\ GDelayY' = n /\ Delay' = d /\ WordsPerRow' = A /\ OutWordsPerRow' = B
        /\ IsLocal' = IsLocal /\ IsUp' = IsUp /\ Inputs' = Inputs /\ Rows' = Rows
        /\ Words' = Words /\ Lines' = Lines /\ Window' = Window /\ Answer' = Answer
        /\ KernelXV' = KernelXV /\ Pixel' = Pixel
        /\ \A y, x : InPicture(y, x)' = InPicture(y, x)
        /\ \A p, y, x : WordAt(p, y, x)' = WordAt(p, y, x)
    BY <1>1, <1>2, CallStays
  <1>10. TypeOK'
    BY <1>1, <1>6, <1>7, <1>8, <1>9 DEF TypeOK
  <1>11. CountOK'
    BY <1>1, <1>2, <1>6, <1>7, <1>9 DEF CountOK
  <1>12. LinesOK'
    <2>1. SUFFICES ASSUME row' < h + n, NEW p \in Inputs, NEW i \in 0..(call.kernelY - 2),
                          NEW c \in 0..(A - 1), NEW y, y = LineOf(i, c)', InPicture(y, c)
                   PROVE  lineBuff'[p][i][c] = WordAt(p, y, c)
      BY <1>1, <1>2, <1>9 DEF LinesOK
    <2>2. y = (IF c < WordCol' THEN row' ELSE row' - 1) - (call.kernelY - 2 - i)
      BY <1>1, <2>1 DEF LineOf
    <2>3. i \in 0..(2 * n - 1) /\ call.kernelY - 2 = 2 * n - 1 /\ c \in Nat
      BY <1>3
    <2>4. CASE Loads
      <3>1. r < h + n /\ j < A
        BY <1>2, <1>3, <2>4 DEF Loads
      <3>2. lineBuff'[p] = Pushed(lineBuff[p], inWord'[p])
        BY <2>4 DEF LocalStep
      <3>3. y = (IF c <= j THEN r ELSE r - 1) - (call.kernelY - 2 - i)
        <4>1. c \in Int /\ A \in Nat /\ c < A /\ j \in Nat /\ r \in Int /\ A <= B /\ B \in Nat /\ d \in Nat
          BY <1>3, <1>4, <2>1
        <4>2. CASE row' = r /\ WordCol' = j + 1
          <5>1. c < WordCol' <=> c <= j
            BY <4>1, <4>2
          <5> QED
            BY <2>2, <4>2, <5>1
        <4>3. CASE row' = r + 1 /\ WordCol' = 0 /\ ~(j + 1 < B + d)
          <5>1. ~(c < WordCol') /\ c <= j /\ row' - 1 = r
            BY <2>3, <4>1, <4>3
          <5> QED
            BY <2>2, <5>1
        <4> QED
          BY <1>6, <4>2, <4>3
      <3>4. Pushed(lineBuff[p], inWord'[p])[i][c] = WordAt(p, y, c)
        BY <1>1, <1>2, <1>8, <2>1, <2>4, <3>3, LinesMove
      <3> QED
        BY <3>2, <3>4
    <2>5. CASE ~Loads
      <3>1. lineBuff'[p] = lineBuff[p]
        BY <2>5 DEF LocalStep
      <3>2. r < h + n /\ ~(j < A)
        <4>1. r < h + n
          BY <1>3, <1>6, <2>1
        <4> QED
          BY <1>2, <1>3, <2>5, <4>1 DEF Loads
      <3>3. y = LineOf(i, c)
        <4>1. /\ c \in Int /\ A \in Nat /\ c < A /\ j \in Nat /\ r \in Int /\ A <= B /\ B \in Nat
              /\ d \in Nat /\ A <= j
          BY <1>3, <1>4, <2>1, <3>2
        <4>2. LineOf(i, c) = r - (call.kernelY - 2 - i)
          <5>1. c < WordCol /\ row = r
            BY <1>2, <4>1
          <5> QED
            BY <5>1 DEF LineOf
        <4>3. CASE row' = r /\ WordCol' = j + 1
          <5>1. c < WordCol'
            BY <4>1, <4>3
          <5> QED
            BY <2>2, <4>2, <4>3, <5>1
        <4>4. CASE row' = r + 1 /\ WordCol' = 0 /\ ~(j + 1 < B + d)
          <5>1. ~(c < WordCol') /\ row' - 1 = r
            BY <2>3, <4>1, <4>4
          <5> QED
            BY <2>2, <4>2, <5>1
        <4> QED
          BY <1>6, <4>3, <4>4
      <3>4. lineBuff[p][i][c] = WordAt(p, LineOf(i, c), c)
        BY <1>1, <1>2, <2>1, <3>2, <3>3 DEF LinesOK
      <3> QED
        BY <3>1, <3>3, <3>4
    <2> QED
      BY <2>4, <2>5
  <1>13. Shifts <=> r < h + n /\ j < A + W
    BY <1>1, <1>2, ShiftsWhile
  <1>14. Shifts => \A p \in Inputs : Shows(winTmp'[p], p, row, WordCol)
    <2>1. SUFFICES ASSUME Shifts, NEW p \in Inputs
                   PROVE  Shows(winTmp'[p], p, row, WordCol)
      OBVIOUS
    <2>2. winTmp'[p] = ShiftedIn(winTmp[p], lineBuff[p], inWord'[p])
      BY <2>1 DEF LocalStep
    <2>3. Shows(ShiftedIn(winTmp[p], lineBuff[p], inWord'[p]), p, row, WordCol)
      BY <1>1, <1>8, <2>1, WindowSlides
    <2> QED
      BY <2>2, <2>3
  <1>15. \A w, p, y, c : Shows(w, p, y, c)' = Shows(w, p, y, c)
    BY <1>1, <1>9 DEF Shows
  <1>16. WindowsOK'
    <2>1. SUFFICES ASSUME row' < h + n, WordCol' <= A + W, NEW p \in Inputs
                   PROVE  Shows(winTmp'[p], p, row', WordCol' - 1)
      BY <1>1, <1>2, <1>9, <1>15 DEF WindowsOK
    <2>2. CASE row' = r /\ WordCol' = j + 1
      <3>1. Shifts
        <4>1. W \in Nat
          BY <1>2, <1>3
        <4> QED
          BY <1>3, <1>13, <2>1, <2>2, <4>1
      <3>2. WordCol' - 1 = j
        BY <1>3, <2>2
      <3> QED
        BY <1>2, <1>14, <2>1, <2>2, <3>1, <3>2
    <2>3. CASE row' = r + 1 /\ WordCol' = 0
      <3>1. Words = 0..(KernelXV - 1) /\ KernelXV \in Nat
        <4>1. GDelayXV \in Nat /\ KernelXV = 2 * GDelayXV + 1
          BY <1>1, LoopFacts
        <4> QED
          BY <4>1 DEF Words
      <3>2. \A y : \A k \in Words : ~InPicture(y, 0 - 1 - (KernelXV - 1) + k)
        <4>1. \A k \in Words : ~(0 - 1 - (KernelXV - 1) + k \in 0..(A - 1))
          BY <1>3, <3>1
        <4> QED
          BY <1>2, <4>1 DEF InPicture
      <3> QED
        BY <2>3, <3>2 DEF Shows
    <2> QED
      BY <1>6, <2>2, <2>3
  <1>17. InnerPixelsAreFiltered' /\ BorderPixelsAreFiltered'
    <2>1. CASE FilterRuns
      <3>1. PICK y, a : y = r - n /\ a = j - d
        OBVIOUS
      <3>2. y \in Nat /\ a \in 0..(B - 1) /\ j = a + d /\ writes' - 1 = y * B + a
        BY <1>3, <1>4, <1>7, <2>1, <3>1
      <3>3. AtY' = y /\ AtWord' = a
        <4>1. (y * B + a) \div B = y /\ (y * B + a) % B = a
          BY <1>4, <3>2, DivMod
        <4> QED
          BY <1>9, <3>2, <4>1 DEF AtY, AtWord
      <3>4. ASSUME NEW v \in Lanes, HasWritten', InnerLaneOf(v, a) \/ Bordered(v, a),
                   NEW p \in Inputs
            PROVE  WindowOf(p, v)' = Neighbourhood(p, y, a * Vect + v)
        <4>1. y < h
          BY <1>1, <1>2, <3>3, <3>4 DEF HasWritten
        <4>2. Inner(v, a, j) \/ Bordered(v, a)
          <5>1. CASE InnerLaneOf(v, a)
            <6>1. DelayX = GDelayX /\ a + Lag = j /\ Lag = Delay
              BY <1>1, <1>2, <1>4, <3>2 DEF DelayX
            <6> QED
              BY <1>1, <5>1, <6>1 DEF InnerLaneOf, Inner
          <5> QED
            BY <3>4, <5>1
        <4>3. j < A + W
          <5>1. CASE Inner(v, a, j)
            <6>1. j < A /\ W \in Nat
              BY <1>2, <1>3, <5>1 DEF Inner
            <6> QED
              BY <1>3, <6>1
          <5>2. CASE Bordered(v, a)
            <6>1. W = d /\ IsWord
              BY <1>2, <5>2 DEF Bordered, IsWord, WordOps, WordLocal
            <6>2. a * Vect + v < A * Vect
              <7>1. call.width = A
                <8>1. ColsPerWord = 1 /\ call.width \in 1..MaxWidth /\ MaxWidth \in Nat
                  BY <1>1, <6>1, CallFacts
                <8>2. call.width \in Nat
                  BY <8>1
                <8> QED
                  BY <1>2, <8>1, <8>2, UpByOne DEF WordsPerRow
              <7> QED
                BY <5>2, <6>1, <7>1 DEF Bordered, PixelWidth
            <6>3. Vect \in Nat \ {0} /\ v \in 0..(Vect - 1)
              BY <1>1, CallFacts DEF Lanes
            <6>4. a < A
              <7>1. A <= a => A * Vect <= a * Vect
                <8>1. A \in Nat /\ a \in Nat /\ Vect \in Nat /\ Vect <= Vect
                  BY <1>3, <3>2, <6>3
                <8> QED
                  BY <8>1, Product
              <7>2. a * Vect \in Nat /\ A * Vect \in Nat /\ v \in Nat /\ a \in Nat
                    /\ A \in Nat
                BY <1>3, <3>2, <6>3, OneMore
              <7> QED
                BY <6>2, <7>1, <7>2
            <6> QED
              BY <1>3, <3>2, <6>1, <6>4
          <5> QED
            BY <4>2, <5>1, <5>2
        <4>4. Shifts
          BY <1>3, <1>13, <3>1, <3>2, <4>1, <4>3
        <4>5. winTmp'[p] \in Window /\ Shows(winTmp'[p], p, row, j)
          BY <1>2, <1>8, <1>14, <3>4, <4>4
        <4>6. row \in GDelayY..(call.height + GDelayY - 1)
          BY <1>2, <1>3, <3>1, <3>2, <4>1
        <4>7. ShownIn(PixelWindow(BorderY(BorderX(winTmp'[p]))), v) =
                Neighbourhood(p, row - GDelayY, a * Vect + v)
          <5>1. PICK w : w = winTmp'[p]
            OBVIOUS
          <5>2. /\ call \in Call /\ IsLocal /\ w \in Window /\ Shows(w, p, row, j)
                /\ j \in Nat /\ col = ColsPerWord * j /\ a \in Nat /\ j = a + Delay
                /\ v \in Lanes
            BY <1>1, <1>2, <1>3, <3>2, <3>4, <4>5, <5>1
          <5>3. ShownIn(PixelWindow(BorderY(BorderX(w))), v) =
                  Neighbourhood(p, row - GDelayY, a * Vect + v)
            BY <4>2, <4>6, <5>2, WindowIsNeighbourhood
          <5> QED
            BY <5>1, <5>3
        <4>8. out'[p] = PixelWindow(BorderY(BorderX(winTmp'[p])))
          BY <2>1, <3>4, <4>4 DEF LocalStep
        <4>9. WindowOf(p, v)' = ShownIn(out'[p], v)
          BY <1>1, CallStays DEF WindowOf, ShownIn
        <4> QED
          BY <1>2, <3>1, <4>7, <4>8, <4>9
      <3> QED
        BY <1>1, <3>3, <3>4, NextIsFiltered
    <2>2. CASE ~FilterRuns
      <3>1. out' = out /\ writes' = writes
        BY <2>2 DEF LocalStep
      <3> QED
        BY <1>1, <3>1, StaysFiltered
    <2> QED
      BY <2>1, <2>2
  <1> QED
    BY <1>6, <1>10, <1>11, <1>12, <1>16, <1>17 DEF IInv

(* The loop leaves a row only behind the image.                            *)
LEMMA RowIsOver ==
  ASSUME call \in Call, NEW j \in Nat, col = ColsPerWord * j,
         NEW m \in Int, m >= call.width, ~(col + ColsPerWord < m)
  PROVE  j + 1 >= WordsPerRow
  <1>1. PICK k, w, A : k = ColsPerWord /\ w = call.width /\ A = WordsPerRow
    OBVIOUS
  <1>2. k \in Nat \ {0} /\ w \in Nat
    <2>1. ColsPerWord \in Nat \ {0} /\ call.width \in 1..MaxWidth /\ MaxWidth \in Nat
      BY CallFacts
    <2> QED
      BY <1>1, <2>1
  <1>3. A \in Nat /\ \A i \in Nat : i < A <=> k * i < w
    <2>1. A = DivUp(w, k)
      BY <1>1 DEF WordsPerRow
    <2> QED
      BY <1>2, <2>1, RoundUp
  <1>4. j + 1 < A <=> k * (j + 1) < w
    <2>1. j + 1 \in Nat
      OBVIOUS
    <2> QED
      BY <1>3, <2>1
  <1>5. k * (j + 1) = k * j + k /\ k * j \in Nat
    <2>1. k * (j + 1) = (j + 1) * k /\ k * j = j * k /\ (j + 1) * k = j * k + k
          /\ j * k \in Nat
      BY <1>2, OneMore
    <2> QED
      BY <2>1
  <1>6. ~(k * j + k < m) /\ m >= w
    BY <1>1
  <1> QED
    BY <1>1, <1>2, <1>3, <1>4, <1>5, <1>6

(* The window of a point operator is the pixel itself.                     *)
PointWindow(p, r, a, v) == [i \in {0} |-> [l \in {0} |-> <<WordAt(p, r, a), v>>]]

LEMMA PointIsNeighbourhood ==
  ASSUME call \in Call, ~IsLocal, NEW p, NEW r \in 0..(call.height - 1), NEW a \in Nat,
         NEW v \in Lanes, a * Vect + v < PixelWidth
  PROVE  Neighbourhood(p, r, a * Vect + v) = PointWindow(p, r, a, v)
  <1>1. PICK x, w : x = a * Vect + v /\ w = PixelWidth
    OBVIOUS
  <1>2. /\ Vect \in Nat \ {0} /\ v \in 0..(Vect - 1) /\ call.padding \in Paddings
        /\ call.width \in 1..MaxWidth /\ MaxWidth \in Nat
        /\ call.height \in 1..MaxHeight /\ MaxHeight \in Nat
    BY CallFacts DEF Lanes
  <1>3. x \div Vect = a /\ x % Vect = v /\ x \in Nat
    <2>1. (a * Vect + v) \div Vect = a /\ (a * Vect + v) % Vect = v
      BY <1>2, DivMod
    <2>2. a * Vect \in Nat /\ v \in Nat
      BY <1>2, OneMore
    <2>3. a * Vect + v \in Nat
      BY <2>2
    <2> QED
      BY <1>1, <2>1, <2>3, Zenon
  <1>4. w \in Nat /\ x < w
    <2>1. call.width \in Nat
      BY <1>2
    <2>2. call.width * Vect \in Nat
      BY <1>2, <2>1, OneMore
    <2> QED
      BY <1>1, <2>1, <2>2 DEF PixelWidth
  <1>5. DelayX = 0 /\ DelayY = 0 /\ 0..(2 * 0) = {0}
    BY DEF DelayX, DelayY
  <1>6. \A P \in Paddings : /\ Pad(P, r + 0 - 0, call.height) = r
                            /\ Pad(P, x + 0 - 0, w) = x
    <2>1. \A h \in Nat : \A y \in 0..(h - 1) : \A P \in Paddings : Pad(P, y, h) = y
      BY DEF Pad, Paddings, Min2, Max2
    <2>2. call.height \in Nat /\ r + 0 - 0 = r /\ x + 0 - 0 = x /\ x \in 0..(w - 1)
      BY <1>2, <1>3, <1>4
    <2>3. \A P \in Paddings : Pad(P, r, call.height) = r /\ Pad(P, x, w) = x
      BY <1>4, <2>1, <2>2
    <2> QED
      BY <2>2, <2>3, Zenon
  <1>7. PixelOf(p, r, x) = <<WordAt(p, r, a), v>>
    BY <1>3 DEF PixelOf, WordAt
  <1>8. Neighbourhood(p, r, x) = [i \in {0} |-> [l \in {0} |->
          PixelOf(p, Pad(call.padding, r + i - 0, call.height),
                     Pad(call.padding, x + l - 0, w))]]
    BY <1>1, <1>5 DEF Neighbourhood
  <1>9. /\ Pad(call.padding, r + 0 - 0, call.height) = r
        /\ Pad(call.padding, x + 0 - 0, w) = x
    BY <1>2, <1>6
  <1>10. Neighbourhood(p, r, x) = [i \in {0} |-> [l \in {0} |-> PixelOf(p, r, x)]]
    BY <1>8, <1>9
  <1> QED
    BY <1>1, <1>7, <1>10 DEF PointWindow

LEMMA PointStepOK ==
  ASSUME IInv, PointStep
  PROVE  IInv'
  <1>1. /\ TypeOK /\ LoopOK /\ CountOK
        /\ InnerPixelsAreFiltered /\ BorderPixelsAreFiltered
        /\ ~IsLocal /\ call.op \notin Pyramid /\ row < call.height
        /\ call \in Call /\ call' = call /\ ~IsUp /\ ~IsPyramid
        /\ call.op # "downsampleVECT"
    BY DEF IInv, TypeOK, PointStep, PointRuns, IsUp, IsPyramid, Pyramid
  <1>2. PICK j, A, h, r, m :
          /\ j = WordCol /\ A = WordsPerRow /\ h = call.height /\ r = row
          /\ m = call.width + (IF IsWord THEN GDelayX ELSE GDelayXV)
    OBVIOUS
  <1>3. /\ j \in Nat /\ r \in Nat /\ A \in Nat \ {0} /\ h \in Nat \ {0}
        /\ (col < call.width <=> j < A) /\ col = ColsPerWord * j /\ r < h
    BY <1>1, <1>2, LoopFacts
  <1>4. m \in Int /\ m >= call.width
    <2>1. /\ GDelayX \in Nat /\ GDelayXV \in Nat /\ call.width \in 1..MaxWidth
          /\ MaxWidth \in Nat
      BY <1>1, CallFacts
    <2> QED
      BY <1>2, <2>1
  <1>5. /\ reads = ReadUpTo(IsUp, A, h, r, j) /\ reads \in Nat /\ writes = reads
        /\ (j < A => \A p \in Inputs : <<p, reads>> \in Word)
        /\ (j < A => \A p : WordAt(p, r, j) = <<p, reads>>)
    <2>1. /\ reads = ReadUpTo(IsUp, A, h, r, j) /\ reads \in Nat
          /\ IsRead(IsUp, A, h, r, j) => \A p \in Inputs : <<p, reads>> \in Word
          /\ ~IsUp /\ InImage => \A p : WordAt(p, r, j) = <<p, reads>>
      BY <1>1, <1>2, WordIsRead
    <2>2. j < A <=> InImage
      BY <1>2, <1>3 DEF InImage
    <2>3. j < A => IsRead(IsUp, A, h, r, j)
      BY <1>1, <1>3 DEF IsRead
    <2>4. writes = ReadUpTo(FALSE, A, h, r, j)
      BY <1>1, <1>2 DEF CountOK
    <2>5. writes = reads
      BY <1>1, <2>1, <2>4 DEF ReadUpTo
    <2> QED
      BY <1>1, <2>1, <2>2, <2>3, <2>5
  <1>6. /\ LoopOK' /\ row' \in Nat /\ col' \in Nat
        /\ reads' = ReadUpTo(IsUp, A, h, row', WordCol')
        /\ reads' \in 0..(MaxWidth * MaxHeight)
    <2>1. reads' = reads + (IF IsRead(IsUp, A, h, r, j) THEN 1 ELSE 0)
      <3>1. col < call.width <=> IsRead(IsUp, A, h, r, j)
        BY <1>1, <1>3 DEF IsRead
      <3>2. reads' = IF col < call.width THEN reads + 1 ELSE reads
        BY DEF PointStep
      <3> QED
        BY <1>5, <3>1, <3>2
    <2>2. AdvanceLoop(m)
      BY <1>2 DEF PointStep
    <2>3. ~(col + ColsPerWord < m) => j + 1 >= A
      BY <1>1, <1>2, <1>3, <1>4, RowIsOver
    <2>4. row < LastRow
      BY <1>1 DEF LastRow
    <2> QED
      BY <1>1, <1>2, <2>1, <2>2, <2>3, <2>4, LoopReads
  <1>7. writes' = reads'
    BY <1>5 DEF PointStep
  <1>8. /\ WordsPerRow' = A /\ OutWordsPerRow' = A /\ IsLocal' = IsLocal
        /\ IsUp' = IsUp /\ Inputs' = Inputs /\ Lanes' = Lanes
        /\ Lines' = Lines /\ Window' = Window /\ Answer' = Answer
        /\ Answer = [{0} -> [Lanes -> Pixel]]
    <2>1. OutWordsPerRow = A
      BY <1>1, <1>2 DEF OutWordsPerRow
    <2> QED
      BY <1>1, <1>2, <2>1, CallStays DEF Answer, OutRows, OutCols
  <1>9. TypeOK'
    <2>1. inWord' \in [Inputs -> Word] /\ out' \in [Inputs -> Answer]
      <3>1. CASE col < call.width
        <4>1. inWord' = [p \in Inputs |-> <<p, reads>>]
          BY <3>1 DEF PointStep
        <4>2. inWord' \in [Inputs -> Word]
          BY <1>3, <1>5, <3>1, <4>1
        <4>3. out' = [p \in Inputs |-> [i \in {0} |-> [v \in Lanes |-> <<inWord'[p], v>>]]]
          BY <3>1 DEF PointStep
        <4>4. \A p \in Inputs : \A v \in Lanes : <<inWord'[p], v>> \in Pixel
          BY <4>2 DEF Pixel
        <4>5. \A p \in Inputs :
                [i \in {0} |-> [v \in Lanes |-> <<inWord'[p], v>>]] \in [{0} -> [Lanes -> Pixel]]
          BY <4>4
        <4> QED
          BY <1>8, <4>2, <4>3, <4>5
      <3>2. CASE ~(col < call.width)
        BY <1>1, <3>2 DEF PointStep, TypeOK
      <3> QED
        BY <3>1, <3>2
    <2>2. UNCHANGED <<lineBuff, winTmp, winVect>>
      BY DEF PointStep
    <2>3. writes' \in Nat
      BY <1>6, <1>7
    <2> QED
      BY <1>1, <1>6, <1>8, <2>1, <2>2, <2>3 DEF TypeOK
  <1>10. CountOK'
    <2>1. ReadUpTo(FALSE, A, h, row', WordCol') = ReadUpTo(IsUp, A, h, row', WordCol')
      BY <1>1 DEF ReadUpTo
    <2> QED
      BY <1>1, <1>2, <1>6, <1>7, <1>8, <2>1 DEF CountOK
  <1>11. LinesOK' /\ WindowsOK'
    BY <1>1, <1>8 DEF LinesOK, WindowsOK
  <1>12. InnerPixelsAreFiltered' /\ BorderPixelsAreFiltered'
    <2>1. CASE col < call.width
      <3>1. AtY' = r /\ AtWord' = j
        <4>1. j < A /\ writes' = reads + 1
          BY <1>3, <1>5, <2>1 DEF PointStep
        <4>2. reads = r * A + j
          BY <1>1, <1>3, <1>5, <4>1 DEF ReadUpTo, Min2
        <4>3. writes' - 1 = r * A + j
          BY <1>5, <4>1, <4>2
        <4>4. (r * A + j) \div A = r /\ (r * A + j) % A = j
          BY <1>3, <4>1, DivMod
        <4> QED
          BY <1>8, <4>3, <4>4 DEF AtY, AtWord
      <3>2. ASSUME NEW v \in Lanes, HasWritten', InnerLaneOf(v, j) \/ Bordered(v, j),
                   NEW p \in Inputs
            PROVE  WindowOf(p, v)' = Neighbourhood(p, r, j * Vect + v)
        <4>1. j * Vect + v < PixelWidth
          <5>1. DelayX = 0
            BY <1>1 DEF DelayX
          <5>2. j * Vect + v \in Int
            <6>1. Vect \in Nat \ {0} /\ v \in 0..(Vect - 1)
              BY <1>1, CallFacts DEF Lanes
            <6>2. j * Vect \in Nat /\ v \in Nat
              BY <1>3, <6>1, OneMore
            <6> QED
              BY <6>2
          <5>3. InnerLaneOf(v, j) => (j * Vect + v) + 0 < PixelWidth
            BY <5>1 DEF InnerLaneOf
          <5>4. Bordered(v, j) => j * Vect + v < PixelWidth
            BY DEF Bordered
          <5>5. (j * Vect + v) + 0 = j * Vect + v
            BY <5>2
          <5> QED
            BY <3>2, <5>3, <5>4, <5>5
        <4>2. Neighbourhood(p, r, j * Vect + v) = PointWindow(p, r, j, v)
          <5>1. r \in 0..(call.height - 1) /\ j \in Nat /\ v \in Lanes
            BY <1>2, <1>3, <3>2
          <5> QED
            BY <1>1, <4>1, <5>1, PointIsNeighbourhood
        <4>3. out'[p][0][v] = <<<<p, reads>>, v>>
          <5>1. inWord'[p] = <<p, reads>>
            BY <2>1, <3>2 DEF PointStep
          <5>2. out' = [q \in Inputs |-> [i \in {0} |-> [l \in Lanes |-> <<inWord'[q], l>>]]]
            BY <2>1 DEF PointStep
          <5>3. out'[p] = [i \in {0} |-> [l \in Lanes |-> <<inWord'[p], l>>]]
            BY <3>2, <5>2
          <5> QED
            BY <3>2, <5>1, <5>3
        <4>4. WindowOf(p, v)' = [i \in {0} |-> [l \in {0} |-> out'[p][0][v]]]
          BY <1>1, <1>8 DEF WindowOf
        <4>5. WordAt(p, r, j) = <<p, reads>>
          BY <1>3, <1>5, <2>1
        <4> QED
          BY <4>2, <4>3, <4>4, <4>5 DEF PointWindow
      <3> QED
        BY <1>1, <3>1, <3>2, NextIsFiltered
    <2>2. CASE ~(col < call.width)
      <3>1. out' = out /\ writes' = writes
        BY <2>2 DEF PointStep
      <3> QED
        BY <1>1, <3>1, StaysFiltered
    <2> QED
      BY <2>1, <2>2
  <1> QED
    BY <1>6, <1>9, <1>10, <1>11, <1>12 DEF IInv

(* What the two pyramid operators have in common.                          *)
LEMMA PyramidLoop ==
  ASSUME IInv, PyramidStep,
         reads' = reads + (IF IsRead(IsUp, WordsPerRow, call.height, row, WordCol)
                           THEN 1 ELSE 0),
         inWord' \in [Inputs -> Word], out' \in [Inputs -> Answer], writes' \in Nat,
         call.op # "downsampleVECT" => writes' = writes + (IF InImage THEN 1 ELSE 0)
  PROVE  IInv'
  <1>1. /\ TypeOK /\ LoopOK /\ CountOK /\ call \in Call /\ call' = call
        /\ call.op \in Pyramid /\ ~IsLocal /\ IsPyramid /\ row < LastRow
        /\ LastRow = MaxHeight + GDelayY
    BY DEF IInv, TypeOK, PyramidStep, PyramidRuns, IsPyramid, Pyramid, IsLocal,
           PixelLocal, WordLocal, LeftAligned, Wide, LastRow
  <1>2. PICK j, A, h, r, m :
          /\ j = WordCol /\ A = WordsPerRow /\ h = call.height /\ r = row
          /\ m = MaxWidth + DelayCols
    OBVIOUS
  <1>3. /\ j \in Nat /\ r \in Nat /\ A \in Nat \ {0} /\ h \in Nat \ {0}
        /\ (col < call.width <=> j < A) /\ col = ColsPerWord * j
    BY <1>1, <1>2, LoopFacts
  <1>4. m \in Int /\ m >= call.width
    <2>1. DelayCols \in Nat /\ call.width \in 1..MaxWidth /\ MaxWidth \in Nat
      BY <1>1, CallFacts
    <2> QED
      BY <1>2, <2>1
  <1>5. ~(col + ColsPerWord < m) => j + 1 >= A
    BY <1>1, <1>2, <1>3, <1>4, RowIsOver
  <1>6. /\ LoopOK' /\ row' \in Nat /\ col' \in Nat
        /\ reads' = ReadUpTo(IsUp, A, h, row', WordCol')
        /\ reads' \in 0..(MaxWidth * MaxHeight)
        /\ \/ row' = r /\ WordCol' = j + 1
           \/ row' = r + 1 /\ WordCol' = 0 /\ j + 1 >= A
    <2>1. AdvanceLoop(m)
      BY <1>2 DEF PyramidStep
    <2>2. /\ LoopOK' /\ row' \in Nat /\ col' \in Nat
          /\ reads' = ReadUpTo(IsUp, WordsPerRow, call.height, row', WordCol')
          /\ reads' \in 0..(MaxWidth * MaxHeight)
          /\ \/ row' = row /\ WordCol' = j + 1 /\ col + ColsPerWord < m
             \/ row' = row + 1 /\ WordCol' = 0 /\ ~(col + ColsPerWord < m)
      BY <1>1, <1>2, <1>5, <2>1, LoopReads
    <2> QED
      BY <1>2, <1>5, <2>2
  <1>7. call.op # "downsampleVECT" => writes' = ReadUpTo(FALSE, A, h, row', WordCol')
    <2>1. SUFFICES ASSUME call.op # "downsampleVECT"
                   PROVE  writes' = ReadUpTo(FALSE, A, h, row', WordCol')
      OBVIOUS
    <2>2. PICK up \in BOOLEAN : up = FALSE
      OBVIOUS
    <2>3. PICK e : e = j + 1 /\ e \in Nat
      BY <1>3
    <2>4. ReadUpTo(up, A, h, r, e) =
            ReadUpTo(up, A, h, r, j) + (IF IsRead(up, A, h, r, j) THEN 1 ELSE 0)
      BY <1>3, <2>3, ReadStep
    <2>5. IsRead(up, A, h, r, j) <=> InImage
      BY <1>2, <1>3, <2>2 DEF IsRead, InImage
    <2>6. writes' = ReadUpTo(up, A, h, r, e)
      <3>1. writes = ReadUpTo(up, A, h, r, j)
        BY <1>1, <1>2, <2>1, <2>2 DEF CountOK
      <3> QED
        BY <2>1, <2>4, <2>5, <3>1
    <2>7. CASE row' = r /\ WordCol' = j + 1
      BY <2>2, <2>3, <2>6, <2>7
    <2>8. CASE row' = r + 1 /\ WordCol' = 0 /\ j + 1 >= A
      <3>1. PICK q \in Nat : q = r + 1
        BY <1>3
      <3>2. ReadUpTo(up, A, h, q, 0) = ReadUpTo(up, A, h, r, e)
        BY <1>3, <2>3, <2>8, <3>1, ReadRow
      <3> QED
        BY <2>2, <2>6, <2>8, <3>1, <3>2
    <2> QED
      BY <1>6, <2>7, <2>8
  <1>8. /\ WordsPerRow' = A /\ IsLocal' = IsLocal /\ IsUp' = IsUp /\ Inputs' = Inputs
        /\ Lines' = Lines /\ Window' = Window /\ Answer' = Answer
    BY <1>1, <1>2, CallStays
  <1>9. TypeOK'
    <2>1. UNCHANGED <<lineBuff, winTmp, winVect>>
      BY DEF PyramidStep
    <2> QED
      BY <1>1, <1>6, <1>8, <2>1 DEF TypeOK
  <1>10. CountOK'
    BY <1>1, <1>2, <1>6, <1>7, <1>8 DEF CountOK
  <1>11. LinesOK' /\ WindowsOK'
    BY <1>1, <1>8 DEF LinesOK, WindowsOK
  <1>12. InnerPixelsAreFiltered' /\ BorderPixelsAreFiltered'
    BY <1>1, PyramidIsFiltered
  <1> QED
    BY <1>6, <1>9, <1>10, <1>11, <1>12 DEF IInv

(* Their columns are words.                                                *)
LEMMA PyramidFacts ==
  ASSUME IInv, call.op \in Pyramid
  PROVE  /\ Answer = [{0} -> [Lanes -> Pixel]] /\ 0 \in {0}
         /\ WordCol = col /\ (InImage <=> col < WordsPerRow /\ row < call.height)
         /\ inWord \in [Inputs -> Word] /\ out \in [Inputs -> Answer]
         /\ reads \in Nat /\ writes \in Nat
         /\ IsRead(IsUp, WordsPerRow, call.height, row, WordCol) =>
              \A p \in Inputs : <<p, reads>> \in Word
  <1>1. ~IsLocal /\ IsWord
    BY DEF Pyramid, IsLocal, PixelLocal, WordLocal, LeftAligned, Wide, IsWord, WordOps
  <1>2. TypeOK /\ LoopOK /\ CountOK
    BY DEF IInv
  <1>3. PICK j : j = WordCol
    OBVIOUS
  <1>4. /\ call \in Call /\ j \in Nat /\ col = ColsPerWord * j
        /\ (col < call.width <=> j < WordsPerRow)
    BY <1>2, <1>3, LoopFacts
  <1>5. col = j
    <2>1. ColsPerWord = 1
      BY <1>1 DEF ColsPerWord
    <2> QED
      BY <1>4, <2>1
  <1>6. /\ reads \in Nat
        /\ IsRead(IsUp, WordsPerRow, call.height, row, j) =>
              \A p \in Inputs : <<p, reads>> \in Word
    BY <1>2, <1>3, WordIsRead
  <1> QED
    BY <1>1, <1>2, <1>3, <1>4, <1>5, <1>6 DEF TypeOK, Answer, OutRows, OutCols, InImage

LEMMA UpsampleOK ==
  ASSUME IInv, UpsampleVECT
  PROVE  IInv'
  <1>1. /\ call.op = "upsampleVECT" /\ call.op \in Pyramid /\ PyramidStep /\ IsUp
    BY DEF UpsampleVECT, Pyramid, IsUp
  <1>2. /\ Answer = [{0} -> [Lanes -> Pixel]]
        /\ WordCol = col /\ (InImage <=> col < WordsPerRow /\ row < call.height)
        /\ inWord \in [Inputs -> Word] /\ out \in [Inputs -> Answer]
        /\ reads \in Nat /\ writes \in Nat
        /\ IsRead(IsUp, WordsPerRow, call.height, row, WordCol) =>
             \A p \in Inputs : <<p, reads>> \in Word
    BY <1>1, PyramidFacts
  <1>3. InImage /\ EvenEven <=> IsRead(IsUp, WordsPerRow, call.height, row, WordCol)
    BY <1>1, <1>2 DEF IsRead, EvenEven, Even
  <1>4. reads' = reads + (IF IsRead(IsUp, WordsPerRow, call.height, row, WordCol)
                          THEN 1 ELSE 0)
    BY <1>2, <1>3 DEF UpsampleVECT
  <1>5. inWord' \in [Inputs -> Word]
    <2>1. inWord' = [p \in Inputs |-> IF InImage /\ EvenEven THEN <<p, reads>>
                                      ELSE inWord[p]]
      BY DEF UpsampleVECT
    <2> QED
      BY <1>2, <1>3, <2>1
  <1>6. writes' = writes + (IF InImage THEN 1 ELSE 0) /\ writes' \in Nat
    BY <1>2 DEF UpsampleVECT
  <1>7. out' \in [Inputs -> Answer]
    <2>1. CASE InImage
      <3>1. out' = [p \in Inputs |-> [i \in {0} |-> [v \in Lanes |-> <<inWord'[p], v>>]]]
        BY <2>1 DEF UpsampleVECT
      <3>2. \A p \in Inputs : \A v \in Lanes : <<inWord'[p], v>> \in Pixel
        BY <1>5 DEF Pixel
      <3>3. \A p \in Inputs :
              [i \in {0} |-> [v \in Lanes |-> <<inWord'[p], v>>]] \in [{0} -> [Lanes -> Pixel]]
        BY <3>2
      <3> QED
        BY <1>2, <3>1, <3>3
    <2>2. CASE ~InImage
      BY <1>2, <2>2 DEF UpsampleVECT
    <2> QED
      BY <2>1, <2>2
  <1> QED
    BY <1>1, <1>4, <1>5, <1>6, <1>7, PyramidLoop

LEMMA DownsampleOK ==
  ASSUME IInv, DownsampleVECT
  PROVE  IInv'
  <1>1. /\ call.op = "downsampleVECT" /\ call.op \in Pyramid /\ PyramidStep /\ ~IsUp
    BY DEF DownsampleVECT, Pyramid, IsUp
  <1>2. /\ Answer = [{0} -> [Lanes -> Pixel]]
        /\ WordCol = col /\ (InImage <=> col < WordsPerRow /\ row < call.height)
        /\ inWord \in [Inputs -> Word] /\ out \in [Inputs -> Answer]
        /\ reads \in Nat /\ writes \in Nat
        /\ IsRead(IsUp, WordsPerRow, call.height, row, WordCol) =>
             \A p \in Inputs : <<p, reads>> \in Word
    BY <1>1, PyramidFacts
  <1>3. InImage <=> IsRead(IsUp, WordsPerRow, call.height, row, WordCol)
    BY <1>1, <1>2 DEF IsRead
  <1>4. PICK half \in {0, 1} : half = IF EvenEven THEN 0 ELSE 1
    OBVIOUS
  <1>5. CASE InImage
    <2>1. /\ inWord' = [p \in Inputs |-> <<p, reads>>]
          /\ reads' = reads + 1 /\ writes' = writes + half
          /\ out' = [p \in Inputs |-> [i \in {0} |-> [v \in Lanes |->
                       IF v \in Half * half..(Half * half + Half - 1)
                       THEN <<inWord'[p], 2 * (v - Half * half)>>
                       ELSE out[p][0][v]]]]
      BY <1>4, <1>5 DEF DownsampleVECT
    <2>2. inWord' \in [Inputs -> Word]
      BY <1>2, <1>3, <1>5, <2>1
    <2>3. ASSUME NEW v \in Lanes, v \in Half * half..(Half * half + Half - 1)
          PROVE  2 * (v - Half * half) \in Lanes
      <3>1. Vect \in Nat \ {0} /\ Lanes = 0..(Vect - 1)
        BY CallFacts DEF IInv, TypeOK, Lanes
      <3>2. PICK g : g = Half
        OBVIOUS
      <3>3. g \in Nat /\ 2 * g <= Vect
        BY <3>1, <3>2 DEF Half
      <3>4. PICK s : s = g * half
        OBVIOUS
      <3>5. s \in Nat
        BY <1>4, <3>3, <3>4
      <3>6. v \in s..(s + g - 1)
        BY <2>3, <3>2, <3>4
      <3>7. 2 * (v - s) \in 0..(Vect - 1)
        BY <3>1, <3>3, <3>5, <3>6
      <3> QED
        BY <3>1, <3>2, <3>4, <3>7
    <2>4. ASSUME NEW p \in Inputs, NEW v \in Lanes
          PROVE  (IF v \in Half * half..(Half * half + Half - 1)
                  THEN <<inWord'[p], 2 * (v - Half * half)>>
                  ELSE out[p][0][v]) \in Pixel
      <3>1. out[p][0][v] \in Pixel
        BY <1>2
      <3>2. v \in Half * half..(Half * half + Half - 1) =>
              <<inWord'[p], 2 * (v - Half * half)>> \in Pixel
        BY <2>2, <2>3 DEF Pixel
      <3> QED
        BY <3>1, <3>2
    <2>5. out' \in [Inputs -> Answer]
      <3>1. \A p \in Inputs :
              [i \in {0} |-> [v \in Lanes |->
                 IF v \in Half * half..(Half * half + Half - 1)
                 THEN <<inWord'[p], 2 * (v - Half * half)>>
                 ELSE out[p][0][v]]] \in [{0} -> [Lanes -> Pixel]]
        BY <2>4
      <3> QED
        BY <1>2, <2>1, <3>1
    <2>6. writes' \in Nat
      BY <1>2, <1>4, <2>1
    <2> QED
      BY <1>1, <1>3, <1>5, <2>1, <2>2, <2>5, <2>6, PyramidLoop
  <1>6. CASE ~InImage
    <2>1. UNCHANGED <<inWord, reads, out, writes>>
      BY <1>6 DEF DownsampleVECT
    <2>2. reads' = reads + (IF IsRead(IsUp, WordsPerRow, call.height, row, WordCol)
                            THEN 1 ELSE 0)
      BY <1>2, <1>3, <1>6, <2>1
    <2> QED
      BY <1>1, <1>2, <2>1, <2>2, PyramidLoop
  <1> QED
    BY <1>5, <1>6

LEMMA StepOK ==
  ASSUME IInv, [Next]_vars
  PROVE  IInv'
  <1>1. CASE LocalStep
    BY <1>1, LocalStepOK
  <1>2. CASE PointStep
    BY <1>2, PointStepOK
  <1>3. CASE DownsampleVECT
    BY <1>3, DownsampleOK
  <1>4. CASE UpsampleVECT
    BY <1>4, UpsampleOK
  <1>5. CASE UNCHANGED vars
    <2>1. /\ call' = call /\ row' = row /\ col' = col /\ reads' = reads
          /\ inWord' = inWord /\ lineBuff' = lineBuff /\ winTmp' = winTmp
          /\ winVect' = winVect /\ out' = out /\ writes' = writes
      BY <1>5 DEF vars
    <2>2. /\ WordCol' = WordCol /\ ColsPerWord' = ColsPerWord /\ IsLocal' = IsLocal
          /\ OutWordsPerRow' = OutWordsPerRow /\ WordsPerRow' = WordsPerRow
          /\ Delay' = Delay /\ LastRow' = LastRow /\ IsUp' = IsUp /\ GDelayY' = GDelayY
          /\ Inputs' = Inputs /\ Lines' = Lines /\ Window' = Window /\ Answer' = Answer
          /\ Rows' = Rows /\ Words' = Words /\ KernelXV' = KernelXV
          /\ \A y, x : InPicture(y, x)' = InPicture(y, x)
          /\ \A p, y, x : WordAt(p, y, x)' = WordAt(p, y, x)
      BY <2>1, CallStays DEF WordCol
    <2>3. TypeOK' /\ LoopOK' /\ CountOK'
      BY <2>1, <2>2 DEF IInv, TypeOK, LoopOK, CountOK
    <2>4. \A i, c : LineOf(i, c)' = LineOf(i, c)
      BY <2>1, <2>2 DEF LineOf
    <2>5. \A w, p, y, c : Shows(w, p, y, c)' = Shows(w, p, y, c)
      BY <2>1, <2>2 DEF Shows
    <2>6. LinesOK'
      BY <2>1, <2>2, <2>4 DEF IInv, LinesOK
    <2>7. WindowsOK'
      BY <2>1, <2>2, <2>5 DEF IInv, WindowsOK
    <2>8. InnerPixelsAreFiltered' /\ BorderPixelsAreFiltered'
      BY <2>1, StaysFiltered DEF IInv
    <2> QED
      BY <2>3, <2>6, <2>7, <2>8 DEF IInv
  <1>6. Next => LocalStep \/ PointStep \/ DownsampleVECT \/ UpsampleVECT
    BY DEF Next, ProcessVECT2F, ProcessVECT4F, ProcessVECT2, ProcessVECT3,
           ProcessMISOVECT4, ProcessVECT4, ProcessVECT8, ProcessVECT16, ProcessVECT32,
           ProcessVECT64, ProcessPixelsWords, ProcessPixels2Words, ProcessPixels3Words,
           ProcessVECT, ProcessVECTF, ProcessSIMOVECT, ProcessSIMOVECTF,
           ProcessMISOVECT, ProcessMISOVECTF, ProcessPixelsVECT, ProcessPixels2VECT,
           ProcessPixels3VECT, ProcessPixelsVECTF, ProcessPixels2VECTF,
           ProcessPixels3VECTF, SplitStreamVECT, SplitStream3VECT, SplitStream4VECT
  <1> QED
    BY <1>1, <1>2, <1>3, <1>4, <1>5, <1>6

LEMMA InitOK ==
  ASSUME Init
  PROVE  IInv
  <1>1. /\ call \in Call /\ row = 0 /\ col = 0 /\ reads = 0 /\ writes = 0
    BY DEF Init
  <1>2. PICK A, h, n, d, B, k :
          /\ A = WordsPerRow /\ h = call.height /\ n = GDelayY /\ d = Delay
          /\ B = OutWordsPerRow /\ k = ColsPerWord
    OBVIOUS
  <1>3. /\ k \in Nat \ {0} /\ n \in Nat /\ call.kernelY = 2 * n + 1 /\ h \in Nat \ {0}
        /\ MaxWidth \in Nat \ {0} /\ MaxHeight \in Nat \ {0}
        /\ GDelayXV \in Nat /\ KernelXV = 2 * GDelayXV + 1
    <2>1. call.height \in 1..MaxHeight /\ MaxHeight \in Nat
      BY <1>1, CallFacts
    <2> QED
      BY <1>1, <1>2, <2>1, CallFacts
  <1>4. WordCol = 0 /\ col = ColsPerWord * 0 /\ 0 \in Nat
    <2>1. \A i \in Nat \ {0} : 0 \div i = 0 /\ i * 0 = 0
      OBVIOUS
    <2> QED
      BY <1>1, <1>2, <1>3, <2>1 DEF WordCol
  <1>5. A \in Nat \ {0} /\ d \in Nat
    BY <1>1, <1>2, <1>4, InWords
  <1>6. IsLocal => B \in Nat \ {0} /\ LoopHeight \in Nat /\ h <= LoopHeight
    BY <1>1, <1>2, <1>4, LocalInWords
  <1>7. TypeOK
    <2>1. 0 \in 0..(MaxWidth * MaxHeight)
      <3>1. MaxWidth * MaxHeight \in Nat
        BY <1>3, OneMore
      <3> QED
        BY <3>1
    <2>2. Junk \in Word /\ JunkPixel \in Pixel
      BY DEF Word, Pixel
    <2>3. inWord \in [Inputs -> Word] /\ lineBuff \in [Inputs -> Lines]
          /\ winTmp \in [Inputs -> Window]
      BY <2>2 DEF Init, Lines, Window
    <2>4. winVect \in [Inputs -> Answer] /\ out \in [Inputs -> Answer]
      BY <2>2 DEF Init, Answer
    <2> QED
      BY <1>1, <2>1, <2>3, <2>4 DEF TypeOK
  <1>8. LoopOK
    <2>1. 0 < LastRow
      BY <1>2, <1>3, <1>6 DEF LastRow
    <2>2. IsLocal => 0 < OutWordsPerRow + Delay
      BY <1>2, <1>5, <1>6
    <2> QED
      BY <1>1, <1>4, <2>1, <2>2 DEF LoopOK
  <1>9. CountOK
    <2>1. \A up \in BOOLEAN : ReadUpTo(up, A, h, 0, 0) = 0
      <3>1. Min2(0, h) = 0 /\ Min2(0, A) = 0 /\ DivUp(0, 2) = 0 /\ 0 < h
        BY <1>3, <1>5 DEF Min2, DivUp
      <3>2. PICK b : b = DivUp(A, 2) /\ b \in Nat
        BY <1>5, HalfUp
      <3>3. 0 * A = 0 /\ 0 * b = 0
        BY <1>5, <3>2
      <3> QED
        BY <3>1, <3>2, <3>3 DEF ReadUpTo
    <2>2. IsUp \in BOOLEAN /\ FALSE \in BOOLEAN
      BY DEF IsUp
    <2>3. IsLocal => WrittenUpTo(B, 0 - n, 0 - d) = 0
      <3>1. CASE n = 0
        <4>1. IsLocal => 0 * B = 0
          BY <1>6
        <4> QED
          BY <1>5, <3>1, <4>1 DEF WrittenUpTo, Max2
      <3>2. CASE n # 0
        BY <1>3, <3>2 DEF WrittenUpTo
      <3> QED
        BY <3>1, <3>2
    <2> QED
      BY <1>1, <1>2, <1>4, <2>1, <2>2, <2>3 DEF CountOK
  <1>10. LinesOK
    <2>1. \A i \in 0..(call.kernelY - 2) : \A c \in 0..(A - 1) : LineOf(i, c) < 0
      BY <1>1, <1>3, <1>4, <1>5 DEF LineOf
    <2>2. \A y \in Int : \A c : y < 0 => ~InPicture(y, c)
      BY DEF InPicture
    <2>3. \A i \in 0..(call.kernelY - 2) : \A c \in 0..(A - 1) : LineOf(i, c) \in Int
      BY <1>1, <1>3, <1>4, <1>5 DEF LineOf
    <2> QED
      BY <1>2, <2>1, <2>2, <2>3 DEF LinesOK
  <1>11. WindowsOK
    <2>1. Words = 0..(KernelXV - 1) /\ KernelXV \in Nat
      BY <1>3 DEF Words
    <2>2. \A y : \A i \in Words : ~InPicture(y, 0 - 1 - (KernelXV - 1) + i)
      <3>1. \A i \in Words : ~(0 - 1 - (KernelXV - 1) + i \in 0..(A - 1))
        BY <1>5, <2>1
      <3> QED
        BY <1>2, <3>1 DEF InPicture
    <2>3. \A w, p : Shows(w, p, row, 0 - 1)
      BY <2>2 DEF Shows
    <2> QED
      BY <1>4, <2>3 DEF WindowsOK
  <1>12. InnerPixelsAreFiltered /\ BorderPixelsAreFiltered
    BY <1>1 DEF InnerPixelsAreFiltered, BorderPixelsAreFiltered, HasWritten
  <1> QED
    BY <1>7, <1>8, <1>9, <1>10, <1>11, <1>12 DEF IInv

LEMMA BalanceAtTheEnd ==
  ASSUME IInv
  PROVE  StreamsBalance
  <1>1. SUFFICES ASSUME ~LocalRuns, ~PointRuns, ~PyramidRuns
                 PROVE  /\ reads = IF call.op = "upsampleVECT"
                                   THEN DivUp(call.width, 2) * DivUp(call.height, 2)
                                   ELSE WordsPerRow * call.height
                        /\ call.op # "downsampleVECT" =>
                             writes = OutWordsPerRow *
                                        (IF IsLocal THEN LoopHeight ELSE call.height)
    BY DEF StreamsBalance
  <1>2. TypeOK /\ LoopOK /\ CountOK
    BY DEF IInv
  <1>3. PICK j, A, h, n, d, B, r :
          /\ j = WordCol /\ A = WordsPerRow /\ h = call.height /\ n = GDelayY
          /\ d = Delay /\ B = OutWordsPerRow /\ r = row
    OBVIOUS
  <1>4. /\ call \in Call /\ j \in Nat /\ r \in Nat /\ col = ColsPerWord * j
        /\ n \in Nat /\ A \in Nat \ {0} /\ h \in Nat \ {0} /\ d \in Nat
        /\ h <= MaxHeight /\ MaxHeight \in Nat /\ ColsPerWord \in Nat \ {0}
    BY <1>2, <1>3, LoopFacts
  <1>5. IsLocal => B \in Nat \ {0} /\ LoopHeight \in Nat /\ h <= LoopHeight
    BY <1>3, <1>4, LocalInWords
  <1>6. ~(row < LastRow)
    BY <1>1 DEF LastRow, LocalRuns, PointRuns, PyramidRuns, IsPyramid
  <1>7. r = LastRow /\ col = 0
    BY <1>2, <1>3, <1>6 DEF LoopOK
  <1>8. j = 0
    <2>1. \A i \in Nat \ {0} : 0 \div i = 0
      OBVIOUS
    <2> QED
      BY <1>3, <1>4, <1>7, <2>1 DEF WordCol
  <1>9. ~(r < h)
    BY <1>3, <1>4, <1>5, <1>7 DEF LastRow
  <1>10. ReadUpTo(FALSE, A, h, r, j) = A * h
    <2>1. h * A \in Nat /\ h * A = A * h
      BY <1>4, OneMore
    <2>2. Min2(r, h) = h
      BY <1>4, <1>9 DEF Min2
    <2> QED
      BY <1>9, <2>1, <2>2 DEF ReadUpTo
  <1>11. reads = ReadUpTo(IsUp, A, h, r, j)
    BY <1>2, <1>3 DEF CountOK
  <1>12. CASE IsUp
    <2>1. A = call.width
      <3>1. IsWord /\ call.width \in 1..MaxWidth /\ MaxWidth \in Nat
        BY <1>4, <1>12, CallFacts DEF IsUp, IsWord, WordOps, Pyramid
      <3>2. ColsPerWord = 1 /\ call.width \in Nat
        BY <3>1 DEF ColsPerWord
      <3> QED
        BY <1>3, <3>2, UpByOne DEF WordsPerRow
    <2>2. PICK a, b : a = DivUp(h, 2) /\ b = DivUp(A, 2)
      OBVIOUS
    <2>3. a \in Nat /\ b \in Nat /\ DivUp(0, 2) = 0
      <3>1. h \in Nat /\ A \in Nat
        BY <1>4
      <3> QED
        BY <2>2, <3>1, HalfUp DEF DivUp
    <2>4. Min2(r, h) = h
      BY <1>4, <1>9 DEF Min2
    <2>5. reads = a * b + 0
      BY <1>9, <1>11, <1>12, <2>2, <2>3, <2>4 DEF ReadUpTo
    <2>6. a * b \in Nat /\ a * b = b * a
      BY <2>3, OneMore
    <2>7. reads = b * a
      BY <2>5, <2>6
    <2>8. ~IsLocal /\ call.op # "downsampleVECT"
      BY <1>12 DEF IsUp, IsLocal, PixelLocal, WordLocal, LeftAligned, Wide
    <2>9. writes = A * h /\ B = A
      BY <1>2, <1>3, <1>10, <2>8 DEF CountOK, OutWordsPerRow
    <2> QED
      BY <1>3, <1>12, <2>1, <2>2, <2>7, <2>8, <2>9 DEF IsUp
  <1>13. CASE ~IsUp
    <2>1. reads = A * h
      BY <1>10, <1>11, <1>13 DEF ReadUpTo
    <2>2. CASE IsLocal
      <3>1. r = LoopHeight + n
        BY <1>3, <1>7, <2>2 DEF LastRow
      <3>2. writes = WrittenUpTo(B, r - n, j - d)
        BY <1>2, <1>3, <2>2 DEF CountOK
      <3>3. r - n = LoopHeight /\ Max2(j - d, 0) = 0
        BY <1>4, <1>5, <1>8, <2>2, <3>1 DEF Max2
      <3>4. LoopHeight * B \in Nat /\ LoopHeight * B = B * LoopHeight
            /\ ~(LoopHeight < 0)
        BY <1>5, <2>2, OneMore
      <3>5. writes = B * LoopHeight
        BY <3>2, <3>3, <3>4 DEF WrittenUpTo
      <3> QED
        BY <1>3, <1>13, <2>1, <2>2, <3>5 DEF IsUp
    <2>3. CASE ~IsLocal
      <3>1. call.op # "downsampleVECT" => writes = A * h
        BY <1>2, <1>3, <1>10, <2>3 DEF CountOK
      <3>2. B = A
        BY <1>3, <2>3 DEF OutWordsPerRow
      <3> QED
        BY <1>3, <1>13, <2>1, <2>3, <3>1, <3>2 DEF IsUp
    <2> QED
      BY <2>2, <2>3
  <1> QED
    BY <1>12, <1>13

-----------------------------------------------------------------------------
(* The theorems.                                                           *)

(* The invariant that all of them follow from: the loop, the streams, the  *)
(* line buffer and the window of words agree in every iteration.           *)
THEOREM VectorInvariant == Spec => []IInv
  <1>1. Init => IInv
    BY InitOK
  <1>2. IInv /\ [Next]_vars => IInv'
    BY StepOK
  <1> QED
    BY <1>1, <1>2, PTL DEF Spec

(* Every operator keeps its types: no iteration indexes a line buffer      *)
(* beyond MAX_WIDTH or writes a pixel that no word of an input has.        *)
THEOREM VectorTypeCorrect == Spec => []TypeOK
  <1>1. IInv => TypeOK
    BY DEF IInv
  <1> QED
    BY <1>1, VectorInvariant, PTL

(* A finished call has taken every word of its image and left a complete   *)
(* one: the processes connected by the streams do not wait for each other. *)
THEOREM VectorStreamsBalance == Spec => []StreamsBalance
  <1>1. IInv => StreamsBalance
    BY BalanceAtTheEnd
  <1> QED
    BY <1>1, VectorInvariant, PTL

(* Each lane away from the left and right border is filtered from the      *)
(* neighbourhood of its own pixel.                                         *)
THEOREM VectorInnerPixels == Spec => []InnerPixelsAreFiltered
  <1>1. IInv => InnerPixelsAreFiltered
    BY DEF IInv
  <1> QED
    BY <1>1, VectorInvariant, PTL

(* The wide operators do so at the left and right border, too.             *)
THEOREM VectorBorderPixels == Spec => []BorderPixelsAreFiltered
  <1>1. IInv => BorderPixelsAreFiltered
    BY DEF IInv
  <1> QED
    BY <1>1, VectorInvariant, PTL
=============================================================================
