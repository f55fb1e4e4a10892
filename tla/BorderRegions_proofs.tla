------------------------ MODULE BorderRegions_proofs ------------------------
(***************************************************************************)
(* Theorems about BorderRegions: for blocks, iteration spaces, accessors   *)
(* and masks of every size.                                                *)
(***************************************************************************)
EXTENDS BorderRegions, FiniteSetTheorems, TLAPS

-----------------------------------------------------------------------------
(* Arithmetic of blocks: quotients in terms of products.                   *)
LEMMA Monotone ==
  ASSUME NEW n \in Nat \ {0}, NEW a \in Int, NEW b \in Int
  PROVE  /\ n * a \in Int /\ n * b \in Int
         /\ a <= b <=> n * a <= n * b
         /\ n * (a + 1) = n * a + n
  OBVIOUS

LEMMA DivLess ==
  ASSUME NEW n \in Nat \ {0}, NEW a \in Int, NEW k \in Int
  PROVE  k < a \div n <=> n * (k + 1) <= a
  <1>1. PICK q, r : q = a \div n /\ r = a % n
    OBVIOUS
  <1>2. q \in Int /\ r \in 0..(n - 1) /\ a = n * q + r
    BY <1>1
  <1>3. n * q \in Int /\ n * (q + 1) = n * q + n
    BY <1>2, Monotone
  <1>4. k + 1 <= q <=> n * (k + 1) <= n * q
    BY <1>2, Monotone
  <1>5. q + 1 <= k + 1 <=> n * (q + 1) <= n * (k + 1)
    BY <1>2, Monotone
  <1>6. n * (k + 1) \in Int
    BY Monotone
  <1> QED
    BY <1>1, <1>2, <1>3, <1>4, <1>5, <1>6

LEMMA LessCeil ==
  ASSUME NEW n \in Nat \ {0}, NEW a \in Int, NEW k \in Int
  PROVE  /\ Ceil(a, n) \in Int
         /\ k < Ceil(a, n) <=> n * k < a
  <1>1. PICK q : q = (-a) \div n
    OBVIOUS
  <1>2. q \in Int /\ Ceil(a, n) = -q
    BY <1>1 DEF Ceil
  <1>3. (-k) - 1 < q <=> n * (((-k) - 1) + 1) <= -a
    BY <1>1, DivLess
  <1>4. n * (((-k) - 1) + 1) = -(n * k) /\ n * k \in Int
    OBVIOUS
  <1> QED
    BY <1>2, <1>3, <1>4

-----------------------------------------------------------------------------
(* The copy a block jumps to is the first whose label exists and whose     *)
(* test holds.                                                             *)
Jumps(l, b, v) == Labelled(l, v) /\ Taken(l, b, v)

Past(l, b, k) == \A m \in 1..10 : m < k => ~Jumps(l, b, Labels[m])

LEMMA FirstOf ==
  ASSUME NEW T \in SUBSET (1..10), T # {}
  PROVE  LET k == CHOOSE n \in T : \A m \in T : n <= m
         IN k \in T /\ \A m \in T : k <= m
  <1>1. \E n \in T : \A m \in T : n <= m
    <2>1. ASSUME NEW k \in 1..10, k \in T, \A m \in T : m >= k
          PROVE  \E n \in T : \A m \in T : n <= m
      BY <2>1
    <2>2. 1 \in T \/ \A m \in T : m >= 2
      OBVIOUS
    <2>3. (\A m \in T : m >= 2) => 2 \in T \/ \A m \in T : m >= 3
      OBVIOUS
    <2>4. (\A m \in T : m >= 3) => 3 \in T \/ \A m \in T : m >= 4
      OBVIOUS
    <2>5. (\A m \in T : m >= 4) => 4 \in T \/ \A m \in T : m >= 5
      OBVIOUS
    <2>6. (\A m \in T : m >= 5) => 5 \in T \/ \A m \in T : m >= 6
      OBVIOUS
    <2>7. (\A m \in T : m >= 6) => 6 \in T \/ \A m \in T : m >= 7
      OBVIOUS
    <2>8. (\A m \in T : m >= 7) => 7 \in T \/ \A m \in T : m >= 8
      OBVIOUS
    <2>9. (\A m \in T : m >= 8) => 8 \in T \/ \A m \in T : m >= 9
      OBVIOUS
    <2>10. (\A m \in T : m >= 9) => 9 \in T \/ \A m \in T : m >= 10
      OBVIOUS
    <2>11. (\A m \in T : m >= 10) => 10 \in T
      <3>1. PICK e \in T : TRUE
        OBVIOUS
      <3>2. e >= 10 => e = 10
        OBVIOUS
      <3> QED
        BY <3>2
    <2>12. \A m \in T : m >= 1
      OBVIOUS
    <2> QED
      BY <2>1, <2>2, <2>3, <2>4, <2>5, <2>6, <2>7, <2>8, <2>9, <2>10, <2>11, <2>12
  <1> QED
    BY <1>1

LEMMA VariantIs ==
  ASSUME NEW l, NEW b, l.gpu, BorderHandling(l)
  PROVE  \/ \E k \in 1..10 : /\ VariantOf(l, b) = Labels[k]
                             /\ Jumps(l, b, Labels[k]) /\ Past(l, b, k)
         \/ VariantOf(l, b) = "FB" /\ Past(l, b, 11)
  <1> DEFINE T == {n \in DOMAIN Labels : /\ Labelled(l, Labels[n])
                                         /\ Taken(l, b, Labels[n])}
  <1>1. T = {n \in 1..10 : Jumps(l, b, Labels[n])}
    <2>1. DOMAIN Labels = 1..10
      BY DEF Labels
    <2> QED
      BY <2>1 DEF Jumps
  <1>2. VariantOf(l, b) = IF T = {} THEN "FB"
                          ELSE Labels[CHOOSE n \in T : \A m \in T : n <= m]
    BY DEF VariantOf
  <1> HIDE DEF T
  <1>3. CASE T = {}
    BY <1>1, <1>2, <1>3 DEF Past
  <1>4. CASE T # {}
    <2>1. PICK k : k = CHOOSE n \in T : \A m \in T : n <= m
      OBVIOUS
    <2>2. T \in SUBSET (1..10)
      BY <1>1
    <2>3. k \in T /\ \A m \in T : k <= m
      BY <1>4, <2>1, <2>2, FirstOf
    <2>4. VariantOf(l, b) = Labels[k]
      BY <1>2, <1>4, <2>1
    <2>5. Past(l, b, k)
      BY <1>1, <2>2, <2>3 DEF Past
    <2> QED
      BY <1>1, <2>3, <2>4, <2>5
  <1> QED
    BY <1>3, <1>4

LEMMA VariantCases ==
  ASSUME NEW l, NEW b, l.gpu, BorderHandling(l), NEW v, v = VariantOf(l, b)
  PROVE  \/ v = "FB"
         \/ v = "TL" /\ Jumps(l, b, "TL") /\ Past(l, b, 2)
         \/ v = "TR" /\ Jumps(l, b, "TR") /\ Past(l, b, 3)
         \/ v = "T" /\ Jumps(l, b, "T") /\ Past(l, b, 4)
         \/ v = "BL" /\ Jumps(l, b, "BL") /\ Past(l, b, 5)
         \/ v = "BR" /\ Jumps(l, b, "BR") /\ Past(l, b, 6)
         \/ v = "B" /\ Jumps(l, b, "B") /\ Past(l, b, 7)
         \/ v = "R" /\ Jumps(l, b, "R") /\ Past(l, b, 8)
         \/ v = "L" /\ Jumps(l, b, "L") /\ Past(l, b, 9)
         \/ v = "NO" /\ Jumps(l, b, "NO") /\ Past(l, b, 10)
  <1>1. CASE v = "FB"
    BY <1>1
  <1>2. ASSUME NEW k \in 1..10, v = Labels[k], Jumps(l, b, Labels[k]), Past(l, b, k)
        PROVE  \/ v = "FB"
               \/ v = "TL" /\ Jumps(l, b, "TL") /\ Past(l, b, 2)
               \/ v = "TR" /\ Jumps(l, b, "TR") /\ Past(l, b, 3)
               \/ v = "T" /\ Jumps(l, b, "T") /\ Past(l, b, 4)
               \/ v = "BL" /\ Jumps(l, b, "BL") /\ Past(l, b, 5)
               \/ v = "BR" /\ Jumps(l, b, "BR") /\ Past(l, b, 6)
               \/ v = "B" /\ Jumps(l, b, "B") /\ Past(l, b, 7)
               \/ v = "R" /\ Jumps(l, b, "R") /\ Past(l, b, 8)
               \/ v = "L" /\ Jumps(l, b, "L") /\ Past(l, b, 9)
               \/ v = "NO" /\ Jumps(l, b, "NO") /\ Past(l, b, 10)
    BY <1>2 DEF Labels
  <1> QED
    BY <1>1, <1>2, VariantIs
-----------------------------------------------------------------------------
(* The launches the theorems are about.                                    *)
Regular(l) ==
  /\ l.mode \in Modes
  /\ {l.gpu, l.nn, l.shared, l.anyOrder} \subseteq BOOLEAN
  /\ {l.bx, l.by, l.ppt, l.sx, l.sy, l.w, l.h} \subseteq Nat \ {0}
  /\ {l.ox, l.oy, l.ax, l.ay} \subseteq Nat
  /\ l.sx % 2 = 1 /\ l.sy % 2 = 1
     \* no scaling
  /\ ~l.nn /\ l.aw = l.w /\ l.ah = l.h
  /\ Supported(l)

(* The borders of the grid, as the kernel tests them.                      *)
Left(l, b)   == b[1] < StartLeft(l)
Right(l, b)  == b[1] >= StartRight(l)
Top(l, b)    == b[2] < StartTop(l)
Bottom(l, b) == b[2] >= StartBottom(l)

LEMMA JumpsTo ==
  ASSUME NEW l, NEW b
  PROVE  /\ Jumps(l, b, "FB") <=> FallBack(l)
         /\ Jumps(l, b, "TL") <=> KernelX(l) /\ KernelY(l) /\ Left(l, b) /\ Top(l, b)
         /\ Jumps(l, b, "TR") <=> KernelX(l) /\ KernelY(l) /\ Right(l, b) /\ Top(l, b)
         /\ Jumps(l, b, "T") <=> KernelY(l) /\ Top(l, b)
         /\ Jumps(l, b, "BL") <=> KernelX(l) /\ KernelY(l) /\ Left(l, b) /\ Bottom(l, b)
         /\ Jumps(l, b, "BR") <=> KernelX(l) /\ KernelY(l) /\ Right(l, b) /\ Bottom(l, b)
         /\ Jumps(l, b, "B") <=> (l.by > 1 \/ l.ppt > 1 \/ KernelY(l)) /\ Bottom(l, b)
         /\ Jumps(l, b, "R") <=> Right(l, b)
         /\ Jumps(l, b, "L") <=> KernelX(l) /\ Left(l, b)
  BY DEF Jumps, Labelled, Taken, Left, Right, Top, Bottom

LEMMA PastLabels ==
  ASSUME NEW l, NEW b
  PROVE  /\ Past(l, b, 2) => ~Jumps(l, b, "FB")
         /\ Past(l, b, 3) => Past(l, b, 2) /\ ~Jumps(l, b, "TL")
         /\ Past(l, b, 4) => Past(l, b, 3) /\ ~Jumps(l, b, "TR")
         /\ Past(l, b, 5) => Past(l, b, 4) /\ ~Jumps(l, b, "T")
         /\ Past(l, b, 6) => Past(l, b, 5) /\ ~Jumps(l, b, "BL")
         /\ Past(l, b, 7) => Past(l, b, 6) /\ ~Jumps(l, b, "BR")
         /\ Past(l, b, 8) => Past(l, b, 7) /\ ~Jumps(l, b, "B")
         /\ Past(l, b, 9) => Past(l, b, 8) /\ ~Jumps(l, b, "R")
         /\ Past(l, b, 10) => Past(l, b, 9) /\ ~Jumps(l, b, "L")
  BY DEF Past, Labels

LEMMA BordersOf ==
  ASSUME NEW l
  PROVE  /\ "left" \in Borders(l, "FB") <=> KernelX(l)
         /\ "right" \in Borders(l, "FB") <=> KernelX(l)
         /\ "top" \in Borders(l, "FB") <=> KernelY(l)
         /\ "bottom" \in Borders(l, "FB") <=> KernelY(l)
         /\ Borders(l, "TL") = {"top", "left"}
         /\ Borders(l, "TR") = {"top", "right"}
         /\ Borders(l, "T") = {"top"}
         /\ Borders(l, "BL") = {"bottom", "left"}
         /\ Borders(l, "BR") = {"bottom", "right"}
         /\ Borders(l, "B") = {"bottom"}
         /\ Borders(l, "R") = {"right"}
         /\ Borders(l, "L") = {"left"}
         /\ Borders(l, "NO") = {}
  BY DEF Borders

(* A copy handles the borders of the blocks that jump to it, and the copy   *)
(* that handles none is for blocks at none.                                *)
Handles(l, b, v) ==
  /\ KernelX(l) /\ Left(l, b) => "left" \in Borders(l, v)
  /\ KernelX(l) /\ Right(l, b) => "right" \in Borders(l, v)
  /\ KernelY(l) /\ Top(l, b) => "top" \in Borders(l, v)
  /\ KernelY(l) /\ Bottom(l, b) => "bottom" \in Borders(l, v)
  /\ Borders(l, v) = {} => /\ ~Right(l, b)
                           /\ l.by > 1 \/ l.ppt > 1 \/ KernelY(l) => ~Bottom(l, b)

LEMMA CopyHandles ==
  ASSUME NEW l, NEW b, l.gpu, BorderHandling(l),
         ~FallBack(l) => ~(Left(l, b) /\ Right(l, b)) /\ ~(Top(l, b) /\ Bottom(l, b)),
         ~KernelX(l) => ~Left(l, b),
         ~KernelY(l) => ~Top(l, b),
         KernelX(l) /\ ~KernelY(l) => ~Bottom(l, b),
         NEW v, v = VariantOf(l, b)
  PROVE  Handles(l, b, v)
  <1>1. KernelX(l) \/ KernelY(l)
    BY DEF BorderHandling
  <1>2. CASE v = "FB"
    <2>1. Borders(l, v) # {}
      BY <1>1, <1>2, BordersOf
    <2> QED
      BY <1>1, <1>2, <2>1, BordersOf DEF Handles
  <1>3. CASE v = "TL" /\ Jumps(l, b, "TL") /\ Past(l, b, 2)
    BY <1>1, <1>3, JumpsTo, PastLabels, BordersOf DEF Handles
  <1>4. CASE v = "TR" /\ Jumps(l, b, "TR") /\ Past(l, b, 3)
    BY <1>1, <1>4, JumpsTo, PastLabels, BordersOf DEF Handles
  <1>5. CASE v = "T" /\ Jumps(l, b, "T") /\ Past(l, b, 4)
    BY <1>1, <1>5, JumpsTo, PastLabels, BordersOf DEF Handles
  <1>6. CASE v = "BL" /\ Jumps(l, b, "BL") /\ Past(l, b, 5)
    BY <1>1, <1>6, JumpsTo, PastLabels, BordersOf DEF Handles
  <1>7. CASE v = "BR" /\ Jumps(l, b, "BR") /\ Past(l, b, 6)
    BY <1>1, <1>7, JumpsTo, PastLabels, BordersOf DEF Handles
  <1>8. CASE v = "B" /\ Jumps(l, b, "B") /\ Past(l, b, 7)
    BY <1>1, <1>8, JumpsTo, PastLabels, BordersOf DEF Handles
  <1>9. CASE v = "R" /\ Jumps(l, b, "R") /\ Past(l, b, 8)
    BY <1>1, <1>9, JumpsTo, PastLabels, BordersOf DEF Handles
  <1>10. CASE v = "L" /\ Jumps(l, b, "L") /\ Past(l, b, 9)
    BY <1>1, <1>10, JumpsTo, PastLabels, BordersOf DEF Handles
  <1>11. CASE v = "NO" /\ Jumps(l, b, "NO") /\ Past(l, b, 10)
    BY <1>1, <1>11, JumpsTo, PastLabels, BordersOf DEF Handles
  <1> QED
    BY <1>2, <1>3, <1>4, <1>5, <1>6, <1>7, <1>8, <1>9, <1>10, <1>11, VariantCases

(* What the launch code computes, in products of block sizes.              *)
Sizes(l, b, bx, n, w, h, ox, S, T, P, Q) ==
  /\ bx \in Nat \ {0} /\ n \in Nat \ {0} /\ w \in Nat \ {0} /\ h \in Nat \ {0}
  /\ ox \in Nat /\ S \in Nat /\ T \in Nat /\ P \in Nat /\ Q \in Nat
  /\ bx = l.bx /\ n = l.by * l.ppt /\ w = l.w /\ h = l.h /\ ox = l.ox
  /\ S = SizeX(l) /\ T = SizeY(l) /\ P = l.bx * b[1] /\ Q = n * b[2]

LEMMA SizesAre ==
  ASSUME NEW l, Regular(l)
  PROVE  /\ SizeX(l) \in Nat /\ SizeY(l) \in Nat
         /\ KernelX(l) <=> SizeX(l) > 0
         /\ KernelY(l) <=> SizeY(l) > 0
         /\ ~KernelX(l) => SizeX(l) = 0
         /\ ~KernelY(l) => SizeY(l) = 0
         /\ l.by * l.ppt \in Nat \ {0}
  <1>1. l.sx \in Nat \ {0} /\ l.sy \in Nat \ {0} /\ l.by \in Nat \ {0} /\ l.ppt \in Nat \ {0}
    BY DEF Regular
  <1>2. (l.sx > 1 => l.sx \div 2 > 0) /\ (l.sy > 1 => l.sy \div 2 > 0)
    BY <1>1
  <1>3. l.by * l.ppt \in Nat \ {0}
    BY <1>1
  <1>4. KernelX(l) => l.sx > 1
    BY DEF KernelX
  <1>5. KernelY(l) => l.sy > 1
    BY DEF KernelY
  <1> QED
    BY <1>1, <1>2, <1>3, <1>4, <1>5 DEF SizeX, SizeY

LEMMA SizesHold ==
  ASSUME NEW l, Regular(l), l.gpu, NEW b \in Grid(l),
         NEW bx, NEW n, NEW w, NEW h, NEW ox, NEW S, NEW T, NEW P, NEW Q,
         /\ bx = l.bx /\ n = l.by * l.ppt /\ w = l.w /\ h = l.h /\ ox = l.ox
         /\ S = SizeX(l) /\ T = SizeY(l) /\ P = l.bx * b[1] /\ Q = n * b[2]
  PROVE  Sizes(l, b, bx, n, w, h, ox, S, T, P, Q)
  <1>1. /\ bx \in Nat \ {0} /\ w \in Nat \ {0} /\ h \in Nat \ {0} /\ ox \in Nat
        /\ n \in Nat \ {0} /\ S \in Nat /\ T \in Nat
    BY SizesAre DEF Regular
  <1>2. PICK i, j : i = b[1] /\ j = b[2]
    OBVIOUS
  <1>3. i \in Nat /\ j \in Nat
    BY <1>2 DEF Grid
  <1>4. P \in Nat /\ Q \in Nat
    BY <1>1, <1>2, <1>3
  <1> QED
    BY <1>1, <1>4 DEF Sizes

LEMMA BlockFits ==
  ASSUME NEW l, Regular(l), l.gpu, NEW b \in Grid(l),
         NEW bx, NEW n, NEW w, NEW h, NEW ox, NEW S, NEW T, NEW P, NEW Q,
         Sizes(l, b, bx, n, w, h, ox, S, T, P, Q)
  PROVE  /\ b[1] \in Nat /\ b[2] \in Nat
         /\ P < w + ox /\ Q < h
  <1>1. PICK cx, cy : cx = Ceil(w + ox, bx) /\ cy = Ceil(h, n)
    OBVIOUS
  <1>2. bx \in Nat \ {0} /\ n \in Nat \ {0} /\ w + ox \in Int /\ h \in Int
    BY DEF Sizes
  <1>3. b \in (0 .. cx - 1) \X (0 .. cy - 1)
    BY <1>1 DEF Grid, Sizes
  <1>4. PICK i, j : i = b[1] /\ j = b[2]
    OBVIOUS
  <1>5. i \in 0 .. cx - 1 /\ j \in 0 .. cy - 1
    BY <1>3, <1>4
  <1>6. cx \in Int /\ cy \in Int
    BY <1>1, <1>2, LessCeil
  <1>7. i \in Nat /\ i \in Int /\ i < cx /\ j \in Nat /\ j \in Int /\ j < cy
    BY <1>5, <1>6
  <1>8. bx * i < w + ox
    BY <1>1, <1>2, <1>7, LessCeil
  <1>9. n * j < h
    BY <1>1, <1>2, <1>7, LessCeil
  <1> QED
    BY <1>4, <1>7, <1>8, <1>9 DEF Sizes

LEMMA LeftIs ==
  ASSUME NEW l, Regular(l), l.gpu, NEW b \in Grid(l),
         NEW bx, NEW n, NEW w, NEW h, NEW ox, NEW S, NEW T, NEW P, NEW Q,
         Sizes(l, b, bx, n, w, h, ox, S, T, P, Q)
  PROVE  /\ StartLeft(l) \in Int
         /\ S > 0 => (Left(l, b) <=> P < ox + S)
         /\ S = 0 => ~Left(l, b)
  <1>1. PICK i : i = b[1]
    OBVIOUS
  <1>2. i \in Nat /\ i \in Int
    BY <1>1, BlockFits
  <1>3. bx \in Nat \ {0} /\ S \in Nat /\ ox + S \in Int
    BY DEF Sizes
  <1>4. StartLeft(l) = IF S > 0 THEN Ceil(ox + S, bx) ELSE 0
    BY DEF StartLeft, Sizes
  <1>5. Ceil(ox + S, bx) \in Int /\ (i < Ceil(ox + S, bx) <=> bx * i < ox + S)
    BY <1>2, <1>3, LessCeil
  <1>6. P = bx * i
    BY <1>1 DEF Sizes
  <1>7. Left(l, b) <=> i < StartLeft(l)
    BY <1>1 DEF Left
  <1> QED
    BY <1>2, <1>3, <1>4, <1>5, <1>6, <1>7

LEMMA RightIs ==
  ASSUME NEW l, Regular(l), l.gpu, NEW b \in Grid(l),
         NEW bx, NEW n, NEW w, NEW h, NEW ox, NEW S, NEW T, NEW P, NEW Q,
         Sizes(l, b, bx, n, w, h, ox, S, T, P, Q)
  PROVE  /\ StartRight(l) \in Int
         /\ ~Right(l, b) => P + bx <= ox + w - S
  <1>1. PICK i, a : i = b[1] /\ a = ox + w - S
    OBVIOUS
  <1>2. i \in Nat /\ i \in Int
    BY <1>1, BlockFits
  <1>3. bx \in Nat \ {0} /\ a \in Int
    BY <1>1 DEF Sizes
  <1>4. StartRight(l) = a \div bx
    BY <1>1 DEF StartRight, Sizes
  <1>5. a \div bx \in Int
    BY <1>3
  <1>6. i < a \div bx <=> bx * (i + 1) <= a
    BY <1>2, <1>3, DivLess
  <1>7. P = bx * i /\ bx * (i + 1) = bx * i + bx
    BY <1>1, <1>2, <1>3, Monotone DEF Sizes
  <1>8. Right(l, b) <=> i >= StartRight(l)
    BY <1>1 DEF Right
  <1> QED
    BY <1>1, <1>2, <1>4, <1>5, <1>6, <1>7, <1>8

LEMMA TopIs ==
  ASSUME NEW l, Regular(l), l.gpu, NEW b \in Grid(l),
         NEW bx, NEW n, NEW w, NEW h, NEW ox, NEW S, NEW T, NEW P, NEW Q,
         Sizes(l, b, bx, n, w, h, ox, S, T, P, Q)
  PROVE  /\ StartTop(l) \in Int
         /\ Top(l, b) <=> Q < T
  <1>1. PICK j : j = b[2]
    OBVIOUS
  <1>2. j \in Nat /\ j \in Int
    BY <1>1, BlockFits
  <1>3. n \in Nat \ {0} /\ T \in Int
    BY DEF Sizes
  <1>4. l.ppt * l.by = n
    BY DEF Regular, Sizes
  <1>5. StartTop(l) = Ceil(T, n)
    BY <1>4 DEF StartTop, Sizes
  <1>6. Ceil(T, n) \in Int /\ (j < Ceil(T, n) <=> n * j < T)
    BY <1>2, <1>3, LessCeil
  <1> QED
    BY <1>1, <1>5, <1>6 DEF Top, Sizes

LEMMA BottomIs ==
  ASSUME NEW l, Regular(l), l.gpu, NEW b \in Grid(l),
         NEW bx, NEW n, NEW w, NEW h, NEW ox, NEW S, NEW T, NEW P, NEW Q,
         Sizes(l, b, bx, n, w, h, ox, S, T, P, Q)
  PROVE  /\ StartBottom(l) \in Int
         /\ ~Bottom(l, b) => Q + n <= h - 2 * T
         /\ KernelX(l) /\ ~KernelY(l) => ~Bottom(l, b)
  <1>1. PICK by, c, j : by = l.by /\ c = Ceil(2 * T, by) /\ j = b[2]
    OBVIOUS
  <1>2. j \in Nat /\ n * j < h
    BY <1>1, BlockFits DEF Sizes
  <1>3. by \in Nat \ {0} /\ n \in Nat \ {0} /\ h \in Nat /\ T \in Nat /\ 2 * T \in Int
    BY <1>1 DEF Sizes, Regular
  <1>4. c \in Int /\ c * by \in Int /\ ~(by * c < 2 * T)
    <2>1. c \in Int /\ (c < Ceil(2 * T, by) <=> by * c < 2 * T)
      BY <1>1, <1>3, LessCeil
    <2> QED
      BY <1>1, <1>3, <2>1
  <1>5. c * by >= 2 * T
    <2>1. c * by = by * c
      BY <1>3, <1>4
    <2> QED
      BY <1>3, <1>4, <2>1
  <1>6. c * by <= h /\ h < WordRange
    BY <1>1 DEF Regular, Supported, TallEnough, Sizes
  <1>7. PICK a : a = h - c * by
    OBVIOUS
  <1>8. a \in 0..h /\ a <= h - 2 * T
    BY <1>3, <1>4, <1>5, <1>6, <1>7
  <1>9. a % WordRange = a
    BY <1>3, <1>6, <1>8, WordsAreFinite
  <1>10. StartBottom(l) = a \div n
    BY <1>1, <1>7, <1>9 DEF StartBottom, Sizes
  <1>11. a \div n \in Int
    BY <1>3, <1>8
  <1>12. j < a \div n <=> n * (j + 1) <= a
    BY <1>2, <1>3, <1>8, DivLess
  <1>13. Q = n * j /\ n * (j + 1) = n * j + n /\ n * j \in Int
    BY <1>1, <1>2, <1>3, Monotone DEF Sizes
  <1>14. Bottom(l, b) <=> j >= StartBottom(l)
    BY <1>1 DEF Bottom
  <1>15. ASSUME KernelX(l), ~KernelY(l)
         PROVE  ~Bottom(l, b)
    <2>1. T = 0 /\ h % n = 0
      BY <1>15, SizesAre DEF Sizes, Regular, Supported, RowFilterFits
    <2>2. c = 0
      BY <1>1, <1>3, <2>1 DEF Ceil
    <2>3. a = h
      BY <1>3, <1>7, <2>2
    <2>4. PICK q : q = h \div n
      OBVIOUS
    <2>5. q \in Int /\ h = n * q
      BY <1>3, <2>1, <2>4
    <2>6. j < q
      <3>1. q <= j <=> n * q <= n * j
        BY <1>2, <1>3, <2>5, Monotone
      <3> QED
        BY <1>2, <1>3, <1>13, <2>5, <3>1
    <2> QED
      BY <1>2, <1>10, <1>14, <2>3, <2>4, <2>5, <2>6
  <1> QED
    BY <1>2, <1>3, <1>8, <1>10, <1>11, <1>12, <1>13, <1>14, <1>15

-----------------------------------------------------------------------------
(* A copy tests all of the iteration space that its blocks may leave, and   *)
(* handles all of the borders that they may cross.                         *)
Inside(l, gx, gy) == l.ox <= gx /\ gx < l.w + l.ox /\ 0 <= gy /\ gy < l.h

Needs(l, v, gx, gy) ==
  /\ KernelX(l) /\ gx - SizeX(l) < l.ox => "left" \in Borders(l, v)
  /\ KernelX(l) /\ gx + SizeX(l) >= l.w + l.ox => "right" \in Borders(l, v)
  /\ KernelY(l) /\ gy - SizeY(l) < 0 => "top" \in Borders(l, v)
  /\ KernelY(l) /\ gy + SizeY(l) >= l.h => "bottom" \in Borders(l, v)

LEMMA Apart ==
  ASSUME NEW l, Regular(l), l.gpu, NEW b \in Grid(l), ~FallBack(l)
  PROVE  ~(Left(l, b) /\ Right(l, b)) /\ ~(Top(l, b) /\ Bottom(l, b))
  <1>1. PICK bx, n, w, h, ox, S, T, P, Q :
          /\ bx = l.bx /\ n = l.by * l.ppt /\ w = l.w /\ h = l.h /\ ox = l.ox
          /\ S = SizeX(l) /\ T = SizeY(l) /\ P = l.bx * b[1] /\ Q = n * b[2]
    OBVIOUS
  <1>2. Sizes(l, b, bx, n, w, h, ox, S, T, P, Q)
    BY <1>1, SizesHold
  <1>3. StartLeft(l) \in Int
    BY <1>2, LeftIs
  <1>4. StartRight(l) \in Int
    BY <1>2, RightIs
  <1>5. StartTop(l) \in Int
    BY <1>2, TopIs
  <1>6. StartBottom(l) \in Int
    BY <1>2, BottomIs
  <1>7. b[1] \in Nat /\ b[2] \in Nat
    BY <1>2, BlockFits
  <1> QED
    BY <1>3, <1>4, <1>5, <1>6, <1>7 DEF FallBack, Left, Right, Top, Bottom

LEMMA CopyFits ==
  ASSUME NEW l, Regular(l), l.gpu, NEW b \in Grid(l),
         NEW v, v = VariantOf(l, b), NEW gx \in Int, NEW gy \in Int,
         l.bx * b[1] <= gx, gx < l.bx * b[1] + l.bx,
         (l.by * l.ppt) * b[2] <= gy, gy < (l.by * l.ppt) * b[2] + l.by * l.ppt,
         Computes(l, v, <<gx, gy>>)
  PROVE  Inside(l, gx, gy) /\ Needs(l, v, gx, gy)
  <1>1. PICK bx, n, w, h, ox, S, T, P, Q :
          /\ bx = l.bx /\ n = l.by * l.ppt /\ w = l.w /\ h = l.h /\ ox = l.ox
          /\ S = SizeX(l) /\ T = SizeY(l) /\ P = l.bx * b[1] /\ Q = n * b[2]
    OBVIOUS
  <1>2. Sizes(l, b, bx, n, w, h, ox, S, T, P, Q)
    BY <1>1, SizesHold
  <1>3. /\ bx \in Nat \ {0} /\ n \in Nat \ {0} /\ w \in Nat \ {0} /\ h \in Nat \ {0}
        /\ ox \in Nat /\ S \in Nat /\ T \in Nat /\ P \in Nat /\ Q \in Nat
    BY <1>2 DEF Sizes
  <1>4. /\ P <= gx /\ gx < P + bx /\ Q <= gy /\ gy < Q + n
        /\ P < w + ox /\ Q < h
    BY <1>1, <1>2, BlockFits
  <1>5. /\ ChecksLower(l, v) => gx >= ox
        /\ ChecksUpper(l, v) => gx < w + ox
        /\ ChecksRow(l, v) => gy < h
    BY <1>1 DEF Computes
  <1>6. l.by = 1 /\ l.ppt = 1 => n = 1
    BY <1>1
  <1>7. CASE ~BorderHandling(l)
    <2>1. gx >= ox /\ gx < w + ox
      BY <1>5, <1>7 DEF ChecksLower, ChecksUpper
    <2>2. gy < h
      BY <1>3, <1>4, <1>5, <1>6, <1>7 DEF ChecksRow
    <2>3. ~KernelX(l) /\ ~KernelY(l)
      BY <1>7 DEF BorderHandling
    <2> QED
      BY <1>1, <1>3, <1>4, <2>1, <2>2, <2>3 DEF Inside, Needs
  <1>8. CASE BorderHandling(l)
    <2>1. S > 0 => (Left(l, b) <=> P < ox + S)
      BY <1>2, LeftIs
    <2>2. ~Right(l, b) => P + bx <= ox + w - S
      BY <1>2, RightIs
    <2>3. Top(l, b) <=> Q < T
      BY <1>2, TopIs
    <2>4. /\ ~Bottom(l, b) => Q + n <= h - 2 * T
          /\ KernelX(l) /\ ~KernelY(l) => ~Bottom(l, b)
      BY <1>2, BottomIs
    <2>5. /\ KernelX(l) <=> S > 0
          /\ KernelY(l) <=> T > 0
          /\ ~KernelX(l) => S = 0
          /\ ~KernelY(l) => T = 0
      BY <1>1, SizesAre
    <2>6. S = 0 => ~Left(l, b)
      BY <1>2, LeftIs
    <2>7. Handles(l, b, v)
      <3>1. ~FallBack(l) => ~(Left(l, b) /\ Right(l, b)) /\ ~(Top(l, b) /\ Bottom(l, b))
        BY Apart
      <3>2. ~KernelX(l) => ~Left(l, b)
        BY <2>5, <2>6
      <3>3. ~KernelY(l) => ~Top(l, b)
        BY <1>3, <2>3, <2>5
      <3> QED
        BY <1>8, <2>4, <3>1, <3>2, <3>3, CopyHandles
    <2>8. gx >= ox
      <3>1. CASE ChecksLower(l, v)
        BY <1>5, <3>1
      <3>2. CASE ~ChecksLower(l, v) /\ KernelX(l)
        <4>1. "left" \notin Borders(l, v)
          BY <1>8, <3>2 DEF ChecksLower
        <4>2. ~Left(l, b)
          BY <2>7, <3>2, <4>1 DEF Handles
        <4> QED
          BY <1>3, <1>4, <2>1, <2>5, <3>2, <4>2
      <3>3. CASE ~ChecksLower(l, v) /\ ~KernelX(l)
        <4>1. ox = 0
          BY <1>1, <1>8, <3>3 DEF Regular, Supported, ColumnFilterAtOrigin, BorderHandling
        <4> QED
          BY <1>3, <1>4, <4>1
      <3> QED
        BY <3>1, <3>2, <3>3
    <2>9. gx < w + ox
      <3>1. CASE ChecksUpper(l, v)
        BY <1>5, <3>1
      <3>2. CASE ~ChecksUpper(l, v)
        <4>1. "right" \notin Borders(l, v) /\ (KernelX(l) \/ Borders(l, v) = {})
          BY <1>8, <3>2 DEF ChecksUpper
        <4>2. ~Right(l, b)
          BY <2>7, <4>1 DEF Handles
        <4> QED
          BY <1>3, <1>4, <2>2, <4>2
      <3> QED
        BY <3>1, <3>2
    <2>10. gy < h
      <3>1. CASE ChecksRow(l, v)
        BY <1>5, <3>1
      <3>2. CASE l.by = 1 /\ l.ppt = 1
        BY <1>3, <1>4, <1>6, <3>2
      <3>3. CASE ~ChecksRow(l, v) /\ ~(l.by = 1 /\ l.ppt = 1)
        <4>1. "bottom" \notin Borders(l, v) /\ (KernelY(l) \/ Borders(l, v) = {})
          BY <1>8, <3>3 DEF ChecksRow
        <4>2. l.by > 1 \/ l.ppt > 1
          <5>1. l.by \in Nat \ {0} /\ l.ppt \in Nat \ {0}
            BY DEF Regular
          <5> QED
            BY <3>3, <5>1
        <4>3. ~Bottom(l, b)
          BY <2>7, <4>1, <4>2 DEF Handles
        <4> QED
          BY <1>3, <1>4, <2>4, <4>3
      <3> QED
        BY <3>1, <3>2, <3>3
    <2>11. Inside(l, gx, gy)
      BY <1>1, <1>3, <1>4, <2>8, <2>9, <2>10 DEF Inside
    <2>12. /\ KernelX(l) /\ gx - S < ox => Left(l, b)
           /\ KernelX(l) /\ gx + S >= w + ox => Right(l, b)
           /\ KernelY(l) /\ gy - T < 0 => Top(l, b)
           /\ KernelY(l) /\ gy + T >= h => Bottom(l, b)
      BY <1>3, <1>4, <2>1, <2>2, <2>3, <2>4, <2>5
    <2>13. Needs(l, v, gx, gy)
      BY <1>1, <2>7, <2>12 DEF Needs, Handles
    <2> QED
      BY <2>11, <2>13
  <1> QED
    BY <1>7, <1>8

-----------------------------------------------------------------------------
(* Boundary modes: what the copy computes is what the DSL computes.        *)
LEMMA ModuloNext ==
  ASSUME NEW n \in Nat \ {0}, NEW i \in Int
  PROVE  /\ i \in 0 .. n - 1 => i % n = i
         /\ n <= i /\ i < n + n => i % n = i - n
         /\ -n <= i /\ i < 0 => i % n = i + n
  <1>1. PICK q, m : q = i \div n /\ m = i % n
    OBVIOUS
  <1>2. q \in Int /\ m \in 0 .. n - 1 /\ i = n * q + m
    BY <1>1
  <1>3. n * 1 = n /\ n * 0 = 0 /\ n * (-1) = -n /\ n * 2 = n + n /\ n * q \in Int
    BY <1>2
  <1>4. q >= 1 => n * q >= n
    BY <1>2, <1>3, Monotone
  <1>5. q >= 2 => n * q >= n + n
    BY <1>2, <1>3, Monotone
  <1>6. q <= 0 => n * q <= 0
    BY <1>2, <1>3, Monotone
  <1>7. q <= -1 => n * q <= -n
    BY <1>2, <1>3, Monotone
  <1>8. q <= -2 => n * q <= (-n) - n
    <2>1. n * (-2) = (-n) - n
      OBVIOUS
    <2> QED
      BY <1>2, <2>1, Monotone
  <1>9. q >= 0 => n * q >= 0
    BY <1>2, <1>3, Monotone
  <1>10. q = 1 => n * q = n
    BY <1>3
  <1>11. q = -1 => n * q = -n
    BY <1>3
  <1>12. q = 0 => n * q = 0
    BY <1>3
  <1>13. PICK p : p = n * q
    OBVIOUS
  <1> QED
    BY <1>1, <1>2, <1>4, <1>5, <1>6, <1>7, <1>8, <1>9, <1>10, <1>11, <1>12, <1>13

LEMMA HandledBy ==
  ASSUME NEW mode, NEW i, NEW j, NEW lower, NEW upper,
         NEW isLower \in BOOLEAN, NEW isUpper \in BOOLEAN
  PROVE  /\ isUpper /\ Upper(mode, i, lower, upper) = j =>
              Handled(mode, i, lower, upper, isLower, isUpper)
                = IF isLower THEN Lower(mode, j, lower, upper) ELSE j
         /\ ~isUpper => Handled(mode, i, lower, upper, isLower, isUpper)
                          = IF isLower THEN Lower(mode, i, lower, upper) ELSE i
  BY DEF Handled

LEMMA Within ==
  ASSUME NEW mode, NEW i \in Int, NEW lower \in Int, NEW upper \in Int
  PROVE  /\ i < upper => Upper(mode, i, lower, upper) = i
         /\ i >= lower => Lower(mode, i, lower, upper) = i
  BY DEF Upper, Lower

LEMMA HandledIs ==
  ASSUME NEW mode \in {"CLAMP", "REPEAT", "MIRROR"}, NEW i \in Int,
         NEW lower \in Int, NEW upper \in Int, lower < upper,
         mode = "REPEAT" => lower = 0,
         lower - (upper - lower) <= i, i < upper + (upper - lower),
         NEW isLower \in BOOLEAN, NEW isUpper \in BOOLEAN,
         i < lower => isLower, i >= upper => isUpper
  PROVE  Handled(mode, i, lower, upper, isLower, isUpper)
           = DSLBorder(mode, i, lower, upper)
  <1>1. CASE mode = "CLAMP"
    <2>1. CASE i < lower
      <3>1. Upper(mode, i, lower, upper) = i
        BY <1>1, <2>1 DEF Upper
      <3>2. Lower(mode, i, lower, upper) = lower
        BY <1>1, <2>1 DEF Lower
      <3>3. Handled(mode, i, lower, upper, isLower, isUpper) = lower
        BY <2>1, <3>1, <3>2 DEF Handled
      <3>4. DSLBorder(mode, i, lower, upper) = lower
        BY <1>1, <2>1 DEF DSLBorder
      <3> QED
        BY <3>3, <3>4
    <2>2. CASE i >= upper
      <3>1. Upper(mode, i, lower, upper) = upper - 1
        BY <1>1, <2>2 DEF Upper
      <3>2. Lower(mode, upper - 1, lower, upper) = upper - 1
        BY <1>1, <2>2 DEF Lower
      <3>3. Handled(mode, i, lower, upper, isLower, isUpper) = upper - 1
        BY <2>2, <3>1, <3>2 DEF Handled
      <3>4. DSLBorder(mode, i, lower, upper) = upper - 1
        BY <1>1, <2>2 DEF DSLBorder
      <3> QED
        BY <3>3, <3>4
    <2>3. CASE lower <= i /\ i < upper
      <3>1. Upper(mode, i, lower, upper) = i
        BY <1>1, <2>3 DEF Upper
      <3>2. Lower(mode, i, lower, upper) = i
        BY <1>1, <2>3 DEF Lower
      <3>3. Handled(mode, i, lower, upper, isLower, isUpper) = i
        BY <2>3, <3>1, <3>2 DEF Handled
      <3>4. DSLBorder(mode, i, lower, upper) = i
        BY <1>1, <2>3 DEF DSLBorder
      <3> QED
        BY <3>3, <3>4
    <2> QED
      BY <2>1, <2>2, <2>3
  <1>2. CASE mode = "MIRROR"
    <2>1. CASE i < lower
      <3>1. Upper(mode, i, lower, upper) = i
        BY <1>2, <2>1 DEF Upper
      <3>2. Lower(mode, i, lower, upper) = lower + (lower - i - 1)
        BY <1>2, <2>1 DEF Lower
      <3>3. Handled(mode, i, lower, upper, isLower, isUpper) = lower + (lower - i - 1)
        BY <2>1, <3>1, <3>2 DEF Handled
      <3>4. DSLBorder(mode, i, lower, upper) = lower + (lower - i - 1)
        BY <1>2, <2>1 DEF DSLBorder
      <3> QED
        BY <3>3, <3>4
    <2>2. CASE i >= upper
      <3>1. Upper(mode, i, lower, upper) = upper - (i + 1 - upper)
        BY <1>2, <2>2 DEF Upper
      <3>2. Lower(mode, upper - (i + 1 - upper), lower, upper) = upper - (i + 1 - upper)
        BY <1>2, <2>2 DEF Lower
      <3>3. Handled(mode, i, lower, upper, isLower, isUpper) = upper - (i + 1 - upper)
        BY <2>2, <3>1, <3>2 DEF Handled
      <3>4. DSLBorder(mode, i, lower, upper) = upper - (i + 1 - upper)
        BY <1>2, <2>2 DEF DSLBorder
      <3> QED
        BY <3>3, <3>4
    <2>3. CASE lower <= i /\ i < upper
      <3>1. Upper(mode, i, lower, upper) = i
        BY <1>2, <2>3 DEF Upper
      <3>2. Lower(mode, i, lower, upper) = i
        BY <1>2, <2>3 DEF Lower
      <3>3. Handled(mode, i, lower, upper, isLower, isUpper) = i
        BY <2>3, <3>1, <3>2 DEF Handled
      <3>4. DSLBorder(mode, i, lower, upper) = i
        BY <1>2, <2>3 DEF DSLBorder
      <3> QED
        BY <3>3, <3>4
    <2> QED
      BY <2>1, <2>2, <2>3
  <1>3. CASE mode = "REPEAT"
    <2>1. lower = 0 /\ upper \in Nat \ {0} /\ i - lower = i /\ upper - lower = upper
      BY <1>3
    <2>2. CASE i < lower
      <3>1. i % upper = i + upper
        BY <2>1, <2>2, ModuloNext
      <3>2. Handled(mode, i, lower, upper, isLower, isUpper) = i + upper
        BY <1>3, <2>1, <2>2, <3>1 DEF Handled, Upper, Lower
      <3>3. DSLBorder(mode, i, lower, upper) = i + upper
        BY <1>3, <2>1, <2>2 DEF DSLBorder
      <3> QED
        BY <3>2, <3>3
    <2>3. CASE i >= upper
      <3>1. i % upper = i - upper
        BY <2>1, <2>3, ModuloNext
      <3>2. Handled(mode, i, lower, upper, isLower, isUpper) = i - upper
        BY <1>3, <2>1, <2>3, <3>1 DEF Handled, Upper, Lower
      <3>3. DSLBorder(mode, i, lower, upper) = i - upper
        BY <1>3, <2>1, <2>3 DEF DSLBorder
      <3> QED
        BY <3>2, <3>3
    <2>4. CASE lower <= i /\ i < upper
      BY <1>3, <2>1, <2>4 DEF Handled, Upper, Lower, DSLBorder
    <2> QED
      BY <2>2, <2>3, <2>4
  <1> QED
    BY <1>1, <1>2, <1>3

(* The row of the iteration space a row index of the code stands for.      *)
Row(l, gy) == IF l.gpu THEN gy ELSE gy - l.oy

(* A copy that handles the borders a window crosses reads what the DSL     *)
(* reads.                                                                  *)
LEMMA WindowReads ==
  ASSUME NEW l, Regular(l), NEW gx \in Int, NEW gy \in Int, Inside(l, gx, Row(l, gy)),
         NEW B, l.mode = "UNDEFINED" => B = {},
         KernelX(l) /\ gx - SizeX(l) < l.ox => "left" \in B,
         KernelX(l) /\ gx + SizeX(l) >= l.w + l.ox => "right" \in B,
         KernelY(l) /\ Row(l, gy) - SizeY(l) < 0 => "top" \in B,
         KernelY(l) /\ Row(l, gy) + SizeY(l) >= l.h => "bottom" \in B,
         NEW d \in Offsets(l)
  PROVE  ReadGlobal(l, B, <<gx + d[1], gy + d[2]>>)
           = DSLRead(l, Written(l, <<gx, gy>>), d)
  <1>1. PICK w, h, ox, oy, ax, ay, S, T, r, e, f :
          /\ w = l.w /\ h = l.h /\ ox = l.ox /\ oy = l.oy /\ ax = l.ax /\ ay = l.ay
          /\ S = SizeX(l) /\ T = SizeY(l) /\ r = Row(l, gy) /\ e = d[1] /\ f = d[2]
    OBVIOUS
  <1>2. /\ w \in Nat \ {0} /\ h \in Nat \ {0} /\ ox \in Nat /\ oy \in Int
        /\ ax \in Nat /\ ay \in Nat /\ S \in Nat /\ T \in Nat /\ r \in Int
        /\ w >= S /\ h >= T
    BY <1>1, SizesAre DEF Regular, Row, Supported, MaskFits
  <1>3. e \in Int /\ f \in Int
    BY <1>1 DEF Offsets
  <1>4. l.mode # "UNDEFINED" => -S <= e /\ e <= S /\ -T <= f /\ f <= T
    <2>1. ASSUME l.mode # "UNDEFINED"
          PROVE  l.sx \div 2 = S /\ l.sy \div 2 = T
      <3>1. l.sx \in Nat \ {0} /\ l.sy \in Nat \ {0}
        BY DEF Regular
      <3> QED
        BY <1>1, <2>1, <3>1 DEF SizeX, SizeY, KernelX, KernelY
    <2> QED
      BY <1>1, <1>2, <2>1 DEF Offsets
  <1>5. ox <= gx /\ gx < w + ox /\ 0 <= r /\ r < h
    BY <1>1 DEF Inside
  <1>6. PICK x, y : x = ax + (gx + e - ox) /\ y = ay + (r + f)
    OBVIOUS
  <1>7. x \in Int /\ y \in Int
    BY <1>2, <1>3, <1>6
  <1>8. IndexX(l, gx + d[1]) = x
    BY <1>1, <1>2, <1>3, <1>6 DEF IndexX, Regular
  <1>9. IndexY(l, gy + d[2]) = y
    <2>1. CASE l.gpu
      BY <1>1, <1>2, <1>3, <1>6, <2>1 DEF IndexY, Regular, Row
    <2>2. CASE ~l.gpu
      <3>1. r = gy - oy
        BY <1>1, <2>2 DEF Row
      <3>2. IndexY(l, gy + d[2]) = ay + (gy + f - oy)
        BY <1>1, <1>2, <1>3, <2>2 DEF IndexY, Regular
      <3> QED
        BY <1>2, <1>3, <1>6, <3>1, <3>2
    <2> QED
      BY <2>1, <2>2
  <1>10. PICK px, py : px = gx /\ py = r + oy
    OBVIOUS
  <1>11. Written(l, <<gx, gy>>) = <<px, py>>
    <2>1. CASE l.gpu
      BY <1>1, <1>10, <2>1 DEF Written, Row
    <2>2. CASE ~l.gpu
      BY <1>1, <1>2, <1>10, <2>2 DEF Written, Row
    <2> QED
      BY <2>1, <2>2
  <1>12. DSLIndex(l.nn, px + d[1], l.ox, l.ax, l.aw, l.w) = x
    BY <1>1, <1>2, <1>3, <1>6, <1>10 DEF DSLIndex, Regular
  <1>13. DSLIndex(l.nn, py + d[2], l.oy, l.ay, l.ah, l.h) = y
    BY <1>1, <1>2, <1>3, <1>6, <1>10 DEF DSLIndex, Regular
  <1>14. PICK right, bottom : right = l.ax + l.aw /\ bottom = l.ay + l.ah
    OBVIOUS
  <1>15. right = ax + w /\ bottom = ay + h /\ right \in Int /\ bottom \in Int
         /\ ax < right /\ ay < bottom /\ right - ax = w /\ bottom - ay = h
    BY <1>1, <1>2, <1>14 DEF Regular
  <1>16. ASSUME l.mode # "UNDEFINED"
         PROVE  /\ x < ax => "left" \in B
                /\ x >= right => "right" \in B
                /\ y < ay => "top" \in B
                /\ y >= bottom => "bottom" \in B
                /\ ax - w <= x /\ x < right + w /\ ay - h <= y /\ y < bottom + h
    <2>1. /\ -S <= e /\ e <= S /\ -T <= f /\ f <= T
      BY <1>4, <1>16
    <2>2. /\ (KernelX(l) \/ S = 0) /\ (KernelY(l) \/ T = 0)
      BY <1>1, SizesAre
    <2>3. x < ax => gx - S < ox /\ KernelX(l)
      BY <1>2, <1>3, <1>5, <1>6, <2>1, <2>2
    <2>4. x >= right => gx + S >= w + ox /\ KernelX(l)
      BY <1>2, <1>3, <1>5, <1>6, <1>15, <2>1, <2>2
    <2>5. y < ay => r - T < 0 /\ KernelY(l)
      BY <1>2, <1>3, <1>5, <1>6, <2>1, <2>2
    <2>6. y >= bottom => r + T >= h /\ KernelY(l)
      BY <1>2, <1>3, <1>5, <1>6, <1>15, <2>1, <2>2
    <2>7. ax - w <= x /\ x < right + w /\ ay - h <= y /\ y < bottom + h
      BY <1>2, <1>3, <1>5, <1>6, <1>15, <2>1
    <2> QED
      BY <1>1, <2>3, <2>4, <2>5, <2>6, <2>7
  <1>17. CASE l.mode = "CONSTANT"
    <2>1. ReadGlobal(l, B, <<gx + d[1], gy + d[2]>>)
            = IF /\ "right"  \in B => x < right
                 /\ "bottom" \in B => y < bottom
                 /\ "left"   \in B => x >= ax
                 /\ "top"    \in B => y >= ay
              THEN <<x, y>> ELSE Const
      BY <1>1, <1>8, <1>9, <1>14, <1>17 DEF ReadGlobal
    <2>2. DSLRead(l, <<px, py>>, d)
            = IF x < ax \/ x >= right \/ y < ay \/ y >= bottom THEN Const ELSE <<x, y>>
      BY <1>1, <1>12, <1>13, <1>14, <1>17 DEF DSLRead
    <2>3. (/\ "right"  \in B => x < right
           /\ "bottom" \in B => y < bottom
           /\ "left"   \in B => x >= ax
           /\ "top"    \in B => y >= ay)
          <=> ~(x < ax \/ x >= right \/ y < ay \/ y >= bottom)
      BY <1>2, <1>7, <1>15, <1>16, <1>17
    <2> QED
      BY <1>11, <2>1, <2>2, <2>3
  <1>18. CASE l.mode # "CONSTANT"
    <2> DEFINE H(i, lower, upper, isLower, isUpper) ==
                 Handled(l.mode, i, lower, upper, isLower, isUpper)
    <2>1. ReadGlobal(l, B, <<gx + d[1], gy + d[2]>>)
            = << H(x, ax, right, "left" \in B, "right" \in B),
                 H(y, ay, bottom, "top" \in B, "bottom" \in B) >>
      BY <1>1, <1>8, <1>9, <1>14, <1>18 DEF ReadGlobal
    <2>2. DSLRead(l, <<px, py>>, d)
            = << DSLBorder(l.mode, x, ax, right), DSLBorder(l.mode, y, ay, bottom) >>
      BY <1>1, <1>12, <1>13, <1>14, <1>18 DEF DSLRead
    <2>3. CASE l.mode = "UNDEFINED"
      <3>1. B = {}
        BY <2>3
      <3>2. H(x, ax, right, "left" \in B, "right" \in B) = x
        BY <3>1 DEF Handled
      <3>3. H(y, ay, bottom, "top" \in B, "bottom" \in B) = y
        BY <3>1 DEF Handled
      <3>4. DSLBorder(l.mode, x, ax, right) = x
        BY <2>3 DEF DSLBorder
      <3>5. DSLBorder(l.mode, y, ay, bottom) = y
        BY <2>3 DEF DSLBorder
      <3> QED
        BY <1>11, <2>1, <2>2, <3>2, <3>3, <3>4, <3>5
    <2>4. CASE l.mode # "UNDEFINED"
      <3>1. PICK m, bl, br, bt, bb : /\ m = l.mode /\ bl = ("left" \in B) /\ br = ("right" \in B)
                                     /\ bt = ("top" \in B) /\ bb = ("bottom" \in B)
        OBVIOUS
      <3>2. m \in {"CLAMP", "REPEAT", "MIRROR"}
        BY <1>18, <2>4, <3>1 DEF Regular, Modes
      <3>3. /\ bl \in BOOLEAN /\ br \in BOOLEAN /\ bt \in BOOLEAN /\ bb \in BOOLEAN
        BY <3>1
      <3>4. m = "REPEAT" => ax = 0 /\ ay = 0
        BY <1>1, <3>1 DEF Regular, Supported, RepeatFromOrigin
      <3>5. /\ x < ax => bl
            /\ x >= right => br
            /\ y < ay => bt
            /\ y >= bottom => bb
        BY <1>16, <2>4, <3>1
      <3>6. /\ ax - (right - ax) <= x /\ x < right + (right - ax)
            /\ ay - (bottom - ay) <= y /\ y < bottom + (bottom - ay)
        BY <1>15, <1>16, <2>4
      <3>7. ax \in Int /\ ay \in Int
        BY <1>2
      <3>8. Handled(m, x, ax, right, bl, br) = DSLBorder(m, x, ax, right)
        <4>1. x \in Int /\ ax \in Int /\ right \in Int /\ ax < right
          BY <1>7, <1>15, <3>7
        <4>2. (m = "REPEAT" => ax = 0) /\ (x < ax => bl) /\ (x >= right => br)
          BY <3>4, <3>5
        <4>3. ax - (right - ax) <= x /\ x < right + (right - ax)
          BY <3>6
        <4> QED
          BY <3>2, <3>3, <4>1, <4>2, <4>3, HandledIs
      <3>9. Handled(m, y, ay, bottom, bt, bb) = DSLBorder(m, y, ay, bottom)
        <4>1. y \in Int /\ ay \in Int /\ bottom \in Int /\ ay < bottom
          BY <1>7, <1>15, <3>7
        <4>2. (m = "REPEAT" => ay = 0) /\ (y < ay => bt) /\ (y >= bottom => bb)
          BY <3>4, <3>5
        <4>3. ay - (bottom - ay) <= y /\ y < bottom + (bottom - ay)
          BY <3>6
        <4> QED
          BY <3>2, <3>3, <4>1, <4>2, <4>3, HandledIs
      <3> QED
        BY <1>11, <2>1, <2>2, <3>1, <3>8, <3>9
    <2> QED
      BY <2>3, <2>4
  <1> QED
    BY <1>17, <1>18

-----------------------------------------------------------------------------
(* Threads and local memory.                                               *)
LEMMA Quotient ==
  ASSUME NEW n \in Nat \ {0}, NEW a \in Int, NEW k \in Int
  PROVE  a \div n = k <=> n * k <= a /\ a < n * k + n
  <1>1. PICK q : q = a \div n
    OBVIOUS
  <1>2. q \in Int
    BY <1>1
  <1>3. \A e \in Int : e < q <=> n * (e + 1) <= a
    BY <1>1, DivLess
  <1>4. PICK e : e = k - 1
    OBVIOUS
  <1>5. e \in Int /\ e + 1 = k
    BY <1>4
  <1>6. e < q <=> n * k <= a
    BY <1>3, <1>5
  <1>7. k < q <=> n * (k + 1) <= a
    BY <1>3
  <1>8. n * k \in Int /\ n * (k + 1) = n * k + n
    BY Monotone
  <1> QED
    BY <1>1, <1>2, <1>5, <1>6, <1>7, <1>8

(* The rows of a thread's pixels within its block.                         *)
LEMMA RowsInBlock ==
  ASSUME NEW by \in Nat \ {0}, NEW ppt \in Nat \ {0}, NEW t2 \in 0 .. by - 1,
         NEW p \in 0 .. ppt - 1
  PROVE  t2 + p * by \in 0 .. by * ppt - 1
  <1>1. by * (p + 1) <= by * ppt
    BY Monotone
  <1>2. by * (p + 1) = by * p + by /\ by * p \in Nat /\ p * by = by * p
    BY Monotone
  <1>3. by * ppt \in Int
    OBVIOUS
  <1> QED
    BY <1>1, <1>2, <1>3

(* ... and every row belongs to one of them.                               *)
LEMMA RowHasThread ==
  ASSUME NEW by \in Nat \ {0}, NEW K \in Int, NEW r \in Nat, r < by * K
  PROVE  \E t2 \in 0 .. by - 1 : \E p \in 0 .. K - 1 : r = t2 + p * by
  <1>1. PICK q, m : q = r \div by /\ m = r % by
    OBVIOUS
  <1>2. q \in Nat /\ m \in 0 .. by - 1 /\ r = by * q + m
    BY <1>1
  <1>3. by * q \in Nat /\ by * q = q * by /\ by * K \in Int
    BY <1>2
  <1>4. K <= q <=> by * K <= by * q
    BY <1>2, Monotone
  <1>5. q \in 0 .. K - 1
    <2>1. by * q <= r
      BY <1>2, <1>3
    <2>2. q < K
      BY <1>2, <1>3, <1>4, <2>1
    <2> QED
      BY <1>2, <2>2
  <1>6. r = m + q * by
    BY <1>2, <1>3
  <1> QED
    BY <1>2, <1>5, <1>6

Cells(l, t) ==
  {<<t[1] + i * l.bx, t[2] + p * l.by>> : i \in StageColumns(l), p \in StageRows(l)}

(* The cells a window needs were staged by some thread.                    *)
LEMMA CellIsStaged ==
  ASSUME NEW l, Regular(l), l.gpu, l.shared, NEW t \in Threads(l),
         NEW d \in Offsets(l), NEW p \in 0 .. l.ppt - 1
  PROVE  \E u \in Threads(l) :
           << t[1] + d[1] + ApronX(l), p * l.by + t[2] + d[2] + l.sy \div 2 >> \in Cells(l, u)
  <1>1. PICK bx, by, ppt, sx, sy, U, V :
          /\ bx = l.bx /\ by = l.by /\ ppt = l.ppt /\ sx = l.sx /\ sy = l.sy
          /\ U = sx \div 2 /\ V = sy \div 2
    OBVIOUS
  <1>2. /\ bx \in Nat \ {0} /\ by \in Nat \ {0} /\ ppt \in Nat \ {0} /\ sx \in Nat \ {0}
        /\ sy \in Nat \ {0} /\ sx % 2 = 1 /\ sy % 2 = 1
    BY <1>1 DEF Regular
  <1>3. /\ U \in Nat /\ V \in Nat /\ sx = 2 * U + 1 /\ sy = 2 * V + 1
        /\ U <= bx
    BY <1>1, <1>2 DEF Regular, Supported, SharedIsUsed
  <1>4. PICK t1, t2, e, f : t1 = t[1] /\ t2 = t[2] /\ e = d[1] /\ f = d[2]
    OBVIOUS
  <1>5. t1 \in 0 .. bx - 1 /\ t2 \in 0 .. by - 1
    BY <1>1, <1>4 DEF Threads
  <1>6. e \in Int /\ f \in Int /\ -U <= e /\ e <= U /\ -V <= f /\ f <= V
    BY <1>1, <1>2, <1>3, <1>4 DEF Offsets
  <1>7. PICK c1, c2 : c1 = t1 + e + ApronX(l) /\ c2 = p * by + t2 + f + V
    OBVIOUS
  <1>8. \E u1 \in 0 .. bx - 1 : \E i \in StageColumns(l) : c1 = u1 + i * bx
    <2>1. CASE sx > 1
      <3>1. ApronX(l) = bx /\ StageColumns(l) = 0 .. 2
        BY <1>1, <2>1 DEF ApronX, StageColumns
      <3>2. c1 \in Nat /\ c1 < bx * 3
        BY <1>2, <1>3, <1>5, <1>6, <1>7, <3>1
      <3>3. PICK K : K = 3
        OBVIOUS
      <3>4. K \in Int /\ bx \in Nat \ {0} /\ c1 \in Nat /\ c1 < bx * K
        BY <1>2, <3>2, <3>3
      <3>5. \E u1 \in 0 .. bx - 1 : \E i \in 0 .. K - 1 : c1 = u1 + i * bx
        BY <3>4, RowHasThread
      <3>6. 0 .. K - 1 = 0 .. 2
        BY <3>3
      <3> QED
        BY <3>1, <3>5, <3>6
    <2>2. CASE sx = 1
      <3>1. ApronX(l) = 0 /\ StageColumns(l) = {0}
        BY <1>1, <2>2 DEF ApronX, StageColumns
      <3>3. U = 0
        BY <1>3, <2>2
      <3>2. c1 = t1 + 0 * bx
        BY <1>2, <1>5, <1>6, <1>7, <3>1, <3>3
      <3> QED
        BY <1>5, <3>1, <3>2
    <2> QED
      BY <1>2, <2>1, <2>2
  <1>9. \E u2 \in 0 .. by - 1 : \E q \in StageRows(l) : c2 = u2 + q * by
    <2>1. PICK C, K, n : C = Ceil(sy - 1, by) /\ K = ppt + C /\ n = by * ppt
      OBVIOUS
    <2>2. C \in Int /\ ~(by * C < sy - 1)
      <3>1. PICK a : a = sy - 1
        OBVIOUS
      <3>2. a \in Int
        BY <1>2, <3>1
      <3>3. Ceil(a, by) \in Int
        BY <1>2, <3>2, LessCeil
      <3>4. C < Ceil(a, by) <=> by * C < a
        BY <1>2, <2>1, <3>1, <3>2, <3>3, LessCeil
      <3> QED
        BY <2>1, <3>1, <3>3, <3>4
    <2>3. StageRows(l) = 0 .. K - 1
      <3>1. C = Ceil(l.sy - 1, l.by)
        BY <1>1, <2>1
      <3>2. StageRows(l) = 0 .. ppt + C - 1
        BY <1>1, <3>1 DEF StageRows
      <3> QED
        BY <1>2, <2>1, <2>2, <3>2
    <2>4. K \in Int /\ n \in Nat
      BY <1>2, <2>1, <2>2
    <2>5. by * K = n + by * C /\ by * C \in Int
      BY <1>2, <2>1, <2>2
    <2>6. PICK y : y = t2 + p * by
      OBVIOUS
    <2>7. y \in 0 .. n - 1
      BY <1>1, <1>2, <1>5, <2>1, <2>6, RowsInBlock
    <2>8. c2 = y + f + V
      <3>1. PICK g : g = p * by
        OBVIOUS
      <3>2. g \in Int
        BY <1>2, <3>1
      <3> QED
        BY <1>3, <1>5, <1>6, <1>7, <2>6, <3>1, <3>2
    <2>9. c2 \in Nat /\ c2 < by * K
      BY <1>2, <1>3, <1>6, <2>2, <2>4, <2>5, <2>7, <2>8
    <2>10. \E u2 \in 0 .. by - 1 : \E q \in 0 .. K - 1 : c2 = u2 + q * by
      <3>1. by \in Nat \ {0} /\ K \in Int
        BY <1>2, <2>4
      <3> QED
        BY <2>9, <3>1, RowHasThread
    <2> QED
      BY <2>3, <2>10
  <1>10. PICK u1 \in 0 .. bx - 1, i \in StageColumns(l) : c1 = u1 + i * bx
    BY <1>8
  <1>11. PICK u2 \in 0 .. by - 1, q \in StageRows(l) : c2 = u2 + q * by
    BY <1>9
  <1>12. <<u1, u2>> \in Threads(l)
    BY <1>1, <1>10, <1>11 DEF Threads
  <1>13. <<c1, c2>> \in Cells(l, <<u1, u2>>)
    BY <1>1, <1>10, <1>11 DEF Cells
  <1>14. << t[1] + d[1] + ApronX(l), p * l.by + t[2] + d[2] + l.sy \div 2 >> = <<c1, c2>>
    BY <1>1, <1>4, <1>7
  <1> QED
    BY <1>12, <1>13, <1>14

-----------------------------------------------------------------------------
(* The inductive invariant.  Local memory holds what a copy reads at the   *)
(* position of the cell; a thread past its first phase has staged its      *)
(* cells; and what is written are the records of the threads that are      *)
(* done, with the windows of the DSL.                                      *)
Variant == VariantOf(launch, block)

Position(l, c) ==
  << l.bx * block[1] + c[1] - ApronX(l),
     l.by * l.ppt * block[2] + c[2] - l.sy \div 2 >>

Work(t) == {g \in Gids(launch, t) : Computes(launch, Variant, g)}

Record(t, g) ==
  [thread |-> t, pixel |-> Written(launch, g),
   window |-> [d \in Offsets(launch) |-> DSLRead(launch, Written(launch, g), d)]]

ThreadsOK ==
  /\ block \in Grid(launch)
  /\ pc \in [Threads(launch) -> {"stage", "compute", "done"}]
  /\ ~launch.shared => \A t \in Threads(launch) : pc[t] # "stage"

StagedOK ==
  /\ \A c \in DOMAIN smem :
       smem[c] = ReadGlobal(launch, StageBorders(launch, Variant), Position(launch, c))
  /\ launch.shared => \A t \in Threads(launch) :
       pc[t] # "stage" => Cells(launch, t) \subseteq DOMAIN smem

WrittenOK ==
  /\ \A wr \in writes : \E t \in Threads(launch) : \E g \in Work(t) : wr = Record(t, g)
  /\ \A t \in Threads(launch) : pc[t] = "done" =>
       \A g \in Work(t) : Record(t, g) \in writes

IInv == Regular(launch) => ThreadsOK /\ StagedOK /\ WrittenOK

-----------------------------------------------------------------------------
(* A thread of a kernel computes rows of its block.                        *)
LEMMA GidsAre ==
  ASSUME Regular(launch), launch.gpu, ThreadsOK, NEW t \in Threads(launch),
         NEW g \in Gids(launch, t)
  PROVE  \E p \in 0 .. launch.ppt - 1 : \E gx, gy \in Int :
           /\ g = <<gx, gy>> /\ gx = launch.bx * block[1] + t[1]
           /\ gy = launch.by * launch.ppt * block[2] + t[2] + p * launch.by
           /\ launch.bx * block[1] <= gx /\ gx < launch.bx * block[1] + launch.bx
           /\ (launch.by * launch.ppt) * block[2] <= gy
           /\ gy < (launch.by * launch.ppt) * block[2] + launch.by * launch.ppt
  <1>1. PICK bx, by, ppt, n, P, Q, t1, t2 :
          /\ bx = launch.bx /\ by = launch.by /\ ppt = launch.ppt /\ n = by * ppt
          /\ P = bx * block[1] /\ Q = n * block[2] /\ t1 = t[1] /\ t2 = t[2]
    OBVIOUS
  <1>2. bx \in Nat \ {0} /\ by \in Nat \ {0} /\ ppt \in Nat \ {0}
    BY <1>1 DEF Regular
  <1>3. n \in Nat \ {0}
    BY <1>1, <1>2
  <1>4. PICK i, j : i = block[1] /\ j = block[2]
    OBVIOUS
  <1>5. i \in Nat /\ j \in Nat
    BY <1>4 DEF ThreadsOK, Grid
  <1>6. P \in Nat /\ Q \in Nat
    BY <1>1, <1>2, <1>3, <1>4, <1>5
  <1>7. t1 \in 0 .. bx - 1 /\ t2 \in 0 .. by - 1
    BY <1>1 DEF Threads
  <1>8. PICK p \in 0 .. ppt - 1 : g = <<P + t1, (Q + t2) + p * by>>
    BY <1>1 DEF Gids, GidX, GidY
  <1>9. t2 + p * by \in 0 .. by * ppt - 1
    BY <1>2, <1>7, RowsInBlock
  <1>10. PICK m : m = p * by
    OBVIOUS
  <1>11. m \in Int
    BY <1>2, <1>10
  <1>12. PICK gx, gy : gx = P + t1 /\ gy = (Q + t2) + m
    OBVIOUS
  <1>13. /\ gx \in Int /\ gy \in Int /\ P <= gx /\ gx < P + bx
         /\ Q <= gy /\ gy < Q + n
    BY <1>1, <1>2, <1>3, <1>6, <1>7, <1>9, <1>10, <1>11, <1>12
  <1>14. g = <<gx, gy>>
    BY <1>8, <1>10, <1>12
  <1> QED
    BY <1>1, <1>10, <1>12, <1>13, <1>14

(* The window a thread computes from is the DSL's.                         *)
LEMMA WindowIs ==
  ASSUME Regular(launch), ThreadsOK, StagedOK, PastBarrier(launch),
         NEW t \in Threads(launch), NEW g \in Work(t)
  PROVE  Window(launch, Variant, t, g)
           = [d \in Offsets(launch) |-> DSLRead(launch, Written(launch, g), d)]
  <1>1. g \in Gids(launch, t) /\ Computes(launch, Variant, g)
    BY DEF Work
  <1>2. CASE launch.gpu
    <2>1. PICK p \in 0 .. launch.ppt - 1, gx \in Int, gy \in Int :
           /\ g = <<gx, gy>> /\ gx = launch.bx * block[1] + t[1]
           /\ gy = launch.by * launch.ppt * block[2] + t[2] + p * launch.by
           /\ launch.bx * block[1] <= gx /\ gx < launch.bx * block[1] + launch.bx
           /\ (launch.by * launch.ppt) * block[2] <= gy
           /\ gy < (launch.by * launch.ppt) * block[2] + launch.by * launch.ppt
      BY <1>1, <1>2, GidsAre
    <2>2. block \in Grid(launch)
      BY DEF ThreadsOK
    <2>3. Inside(launch, gx, gy) /\ Needs(launch, Variant, gx, gy)
      BY <1>1, <1>2, <2>1, <2>2, CopyFits DEF Variant
    <2>4. Row(launch, gy) = gy
      BY <1>2 DEF Row
    <2>5. ASSUME NEW B, launch.mode = "UNDEFINED" => B = {},
                 KernelX(launch) /\ "left" \in Borders(launch, Variant) => "left" \in B,
                 KernelX(launch) /\ "right" \in Borders(launch, Variant) => "right" \in B,
                 KernelY(launch) /\ "top" \in Borders(launch, Variant) => "top" \in B,
                 KernelY(launch) /\ "bottom" \in Borders(launch, Variant) => "bottom" \in B,
                 NEW d \in Offsets(launch)
          PROVE  ReadGlobal(launch, B, <<gx + d[1], gy + d[2]>>)
                   = DSLRead(launch, Written(launch, <<gx, gy>>), d)
      <3>1. Inside(launch, gx, Row(launch, gy))
        BY <2>3, <2>4
      <3>2. /\ KernelX(launch) /\ gx - SizeX(launch) < launch.ox => "left" \in B
            /\ KernelX(launch) /\ gx + SizeX(launch) >= launch.w + launch.ox => "right" \in B
            /\ KernelY(launch) /\ Row(launch, gy) - SizeY(launch) < 0 => "top" \in B
            /\ KernelY(launch) /\ Row(launch, gy) + SizeY(launch) >= launch.h => "bottom" \in B
        BY <2>3, <2>4, <2>5 DEF Needs
      <3> QED
        BY <2>5, <3>1, <3>2, WindowReads
    <2>6. launch.mode = "UNDEFINED" => Borders(launch, Variant) = {}
      BY <1>2, BordersOf DEF Variant, VariantOf, BorderHandling, KernelX, KernelY
    <2>7. CASE ~launch.shared
      <3>1. ASSUME NEW d \in Offsets(launch)
            PROVE  ReadGlobal(launch, Borders(launch, Variant), <<g[1] + d[1], g[2] + d[2]>>)
                     = DSLRead(launch, Written(launch, g), d)
        BY <2>1, <2>5, <2>6, <3>1
      <3> QED
        BY <2>7, <3>1 DEF Window
    <2>8. CASE launch.shared
      <3>1. ASSUME NEW d \in Offsets(launch)
            PROVE  ReadShared(launch, t, g, d) = DSLRead(launch, Written(launch, g), d)
        <4> DEFINE B == StageBorders(launch, Variant)
                   c == << t[1] + d[1] + ApronX(launch),
                           p * launch.by + t[2] + d[2] + launch.sy \div 2 >>
        <4>1. PICK u \in Threads(launch) : c \in Cells(launch, u)
          BY <1>2, <2>8, <3>1, CellIsStaged
        <4>2. c \in DOMAIN smem
          <5>1. pc[u] # "stage"
            BY <2>8 DEF PastBarrier
          <5> QED
            BY <2>8, <4>1, <5>1 DEF StagedOK
        <4>3. smem[c] = ReadGlobal(launch, B, Position(launch, c))
          BY <4>2 DEF StagedOK
        <4>4. Position(launch, c) = <<gx + d[1], gy + d[2]>>
                /\ << t[1] + d[1] + ApronX(launch),
                      g[2] - GidY(launch, t) + t[2] + d[2] + launch.sy \div 2 >> = c
          <5>1. PICK P, Q, t1, t2, e, f, A, V, m :
                  /\ P = launch.bx * block[1] /\ Q = launch.by * launch.ppt * block[2]
                  /\ t1 = t[1] /\ t2 = t[2] /\ e = d[1] /\ f = d[2]
                  /\ A = ApronX(launch) /\ V = launch.sy \div 2 /\ m = p * launch.by
            OBVIOUS
          <5>2. /\ P \in Int /\ Q \in Int /\ t1 \in Int /\ t2 \in Int /\ e \in Int /\ f \in Int
                /\ A \in Int /\ V \in Int /\ m \in Int
            <6>1. PICK bx, by, ppt, n, i, j :
                    /\ bx = launch.bx /\ by = launch.by /\ ppt = launch.ppt /\ n = by * ppt
                    /\ i = block[1] /\ j = block[2]
              OBVIOUS
            <6>2. bx \in Nat \ {0} /\ by \in Nat \ {0} /\ ppt \in Nat \ {0}
              BY <6>1 DEF Regular
            <6>3. i \in Nat /\ j \in Nat
              BY <1>2, <2>2, <6>1 DEF Grid
            <6>4. n \in Nat
              BY <6>1, <6>2
            <6>5. P \in Int /\ Q \in Int
              BY <5>1, <6>1, <6>2, <6>3, <6>4
            <6>6. m \in Int
              BY <5>1, <6>1, <6>2
            <6>7. t1 \in Int /\ t2 \in Int
              BY <1>2, <5>1, <6>1, <6>2 DEF Threads
            <6>8. e \in Int /\ f \in Int
              BY <3>1, <5>1 DEF Offsets
            <6>9. A \in Int
              BY <5>1, <6>1, <6>2 DEF ApronX
            <6>10. V \in Int
              BY <5>1 DEF Regular
            <6> QED
              BY <6>5, <6>6, <6>7, <6>8, <6>9, <6>10
          <5>3. gx = P + t1 /\ gy = (Q + t2) + m /\ GidY(launch, t) = Q + t2 /\ g[2] = gy
            BY <2>1, <5>1 DEF GidY
          <5>4. c = <<(t1 + e) + A, ((m + t2) + f) + V>>
            BY <5>1
          <5>5. Position(launch, c) = <<(P + ((t1 + e) + A)) - A, (Q + (((m + t2) + f) + V)) - V>>
            <6>1. c[1] = (t1 + e) + A /\ c[2] = ((m + t2) + f) + V
              BY <5>4
            <6> HIDE DEF c
            <6>2. Position(launch, c) = <<(P + c[1]) - A, (Q + c[2]) - V>>
              <7>1. Position(launch, c)
                      = << launch.bx * block[1] + c[1] - ApronX(launch),
                           launch.by * launch.ppt * block[2] + c[2] - launch.sy \div 2 >>
                BY DEF Position
              <7> QED
                <8>1. PICK k1, k2 : k1 = c[1] /\ k2 = c[2]
                  OBVIOUS
                <8>2. k1 \in Int /\ k2 \in Int
                  BY <5>2, <6>1, <8>1
                <8>3. launch.bx * block[1] + k1 - ApronX(launch) = (P + k1) - A
                  BY <5>1, <5>2, <8>2
                <8>4. launch.by * launch.ppt * block[2] + k2 - launch.sy \div 2 = (Q + k2) - V
                  BY <5>1, <5>2, <8>2
                <8> QED
                  BY <7>1, <8>1, <8>3, <8>4
            <6> QED
              BY <6>1, <6>2
          <5>6. (P + ((t1 + e) + A)) - A = gx + e /\ (Q + (((m + t2) + f) + V)) - V = gy + f
            BY <5>2, <5>3
          <5>7. (((gy - (Q + t2)) + t2) + f) + V = ((m + t2) + f) + V
            BY <5>2, <5>3
          <5> HIDE DEF c
          <5>8. << t[1] + d[1] + ApronX(launch),
                   g[2] - GidY(launch, t) + t[2] + d[2] + launch.sy \div 2 >>
                  = <<(t1 + e) + A, (((gy - (Q + t2)) + t2) + f) + V>>
            BY <5>1, <5>3
          <5> QED
            BY <5>1, <5>4, <5>5, <5>6, <5>7, <5>8
        <4>5. ReadShared(launch, t, g, d) = smem[c]
          <5> HIDE DEF c
          <5> QED
            BY <4>2, <4>4 DEF ReadShared
        <4>6. ReadGlobal(launch, B, <<gx + d[1], gy + d[2]>>)
                = DSLRead(launch, Written(launch, <<gx, gy>>), d)
          <5>1. launch.mode = "UNDEFINED" => B = {}
            BY <2>6 DEF StageBorders
          <5>2. /\ KernelX(launch) => launch.sx > 1
                /\ KernelY(launch) => launch.sy > 1
            BY DEF KernelX, KernelY
          <5>3. /\ launch.sx > 1 /\ "left" \in Borders(launch, Variant) => "left" \in B
                /\ launch.sx > 1 /\ "right" \in Borders(launch, Variant) => "right" \in B
                /\ launch.sy > 1 /\ "top" \in Borders(launch, Variant) => "top" \in B
                /\ launch.sy > 1 /\ "bottom" \in Borders(launch, Variant) => "bottom" \in B
            BY DEF StageBorders
          <5> QED
            BY <2>5, <3>1, <5>1, <5>2, <5>3
        <4> QED
          BY <2>1, <4>3, <4>4, <4>5, <4>6
      <3> QED
        BY <2>8, <3>1 DEF Window
    <2> QED
      BY <2>7, <2>8
  <1>3. CASE ~launch.gpu
    <2>1. ~launch.shared
      BY <1>3 DEF Regular, Supported, SharedIsUsed
    <2>2. Variant = "FB"
      BY <1>3 DEF Variant, VariantOf
    <2>3. PICK gx, gy : g = <<gx, gy>> /\ gx \in launch.ox .. launch.ox + launch.w - 1
                        /\ gy \in launch.oy .. launch.oy + launch.h - 1
      BY <1>1, <1>3 DEF Gids, IterationSpace
    <2>4. gx \in Int /\ gy \in Int /\ Inside(launch, gx, Row(launch, gy))
      <3>1. PICK ox, oy, w, h : ox = launch.ox /\ oy = launch.oy /\ w = launch.w /\ h = launch.h
        OBVIOUS
      <3>2. ox \in Nat /\ oy \in Int /\ w \in Nat /\ h \in Nat
        BY <3>1 DEF Regular
      <3>3. gx \in ox .. ox + w - 1 /\ gy \in oy .. oy + h - 1
        BY <2>3, <3>1
      <3>4. gx \in Int /\ gy \in Int /\ ox <= gx /\ gx < w + ox /\ 0 <= gy - oy /\ gy - oy < h
        BY <3>2, <3>3
      <3> QED
        BY <1>3, <3>1, <3>4 DEF Inside, Row
    <2>5. launch.mode = "UNDEFINED" => Borders(launch, Variant) = {}
      BY <2>2 DEF Borders, KernelX, KernelY
    <2>6. /\ KernelX(launch) => "left" \in Borders(launch, Variant)
          /\ KernelX(launch) => "right" \in Borders(launch, Variant)
          /\ KernelY(launch) => "top" \in Borders(launch, Variant)
          /\ KernelY(launch) => "bottom" \in Borders(launch, Variant)
      BY <2>2, BordersOf
    <2>7. ASSUME NEW d \in Offsets(launch)
          PROVE  ReadGlobal(launch, Borders(launch, Variant), <<g[1] + d[1], g[2] + d[2]>>)
                   = DSLRead(launch, Written(launch, g), d)
      <3>1. PICK B : B = Borders(launch, Variant)
        OBVIOUS
      <3>2. ReadGlobal(launch, B, <<gx + d[1], gy + d[2]>>)
              = DSLRead(launch, Written(launch, <<gx, gy>>), d)
        <4>1. launch.mode = "UNDEFINED" => B = {}
          BY <2>5, <3>1
        <4>2. /\ KernelX(launch) /\ gx - SizeX(launch) < launch.ox => "left" \in B
              /\ KernelX(launch) /\ gx + SizeX(launch) >= launch.w + launch.ox => "right" \in B
              /\ KernelY(launch) /\ Row(launch, gy) - SizeY(launch) < 0 => "top" \in B
              /\ KernelY(launch) /\ Row(launch, gy) + SizeY(launch) >= launch.h => "bottom" \in B
          BY <2>6, <3>1
        <4> QED
          BY <2>4, <2>7, <4>1, <4>2, WindowReads
      <3> QED
        BY <2>3, <3>1, <3>2
    <2> QED
      BY <2>1, <2>7 DEF Window
  <1> QED
    BY <1>2, <1>3

(* A thread stages its cells, each with what is read at its position.      *)
LEMMA StagedIs ==
  ASSUME Regular(launch), launch.gpu, ThreadsOK, NEW t \in Threads(launch), NEW v
  PROVE  /\ DOMAIN Staged(launch, v, t) = Cells(launch, t)
         /\ \A c \in Cells(launch, t) :
              Staged(launch, v, t)[c]
                = ReadGlobal(launch, StageBorders(launch, v), Position(launch, c))
  <1>1. PICK bx, by, A, V, P, Q, t1, t2 :
          /\ bx = launch.bx /\ by = launch.by /\ A = ApronX(launch) /\ V = launch.sy \div 2
          /\ P = launch.bx * block[1] /\ Q = launch.by * launch.ppt * block[2]
          /\ t1 = t[1] /\ t2 = t[2]
    OBVIOUS
  <1>2. /\ bx \in Nat \ {0} /\ by \in Nat \ {0} /\ A \in Int /\ V \in Int
    BY <1>1 DEF Regular, ApronX
  <1>3. P \in Int /\ Q \in Int
    <2>1. PICK ppt, n, i, j : ppt = launch.ppt /\ n = by * ppt /\ i = block[1] /\ j = block[2]
      OBVIOUS
    <2>2. i \in Nat /\ j \in Nat
      BY <2>1 DEF ThreadsOK, Grid
    <2>3. n \in Nat
      BY <1>2, <2>1 DEF Regular
    <2> QED
      BY <1>1, <1>2, <2>1, <2>2, <2>3
  <1>4. t1 \in Int /\ t2 \in Int
    BY <1>1, <1>2 DEF Threads
  <1>5. Cells(launch, t)
          = {<<t[1] + i * launch.bx, t[2] + p * launch.by>> :
               i \in StageColumns(launch), p \in StageRows(launch)}
    BY DEF Cells
  <1>6. ASSUME NEW c \in Cells(launch, t)
        PROVE  << GidX(launch, t) + c[1] - t[1] - ApronX(launch),
                  GidY(launch, t) + c[2] - t[2] - launch.sy \div 2 >> = Position(launch, c)
    <2>1. PICK i \in StageColumns(launch), p \in StageRows(launch) :
            c = <<t1 + i * bx, t2 + p * by>>
      BY <1>1, <1>6 DEF Cells
    <2>2. i \in Int /\ p \in Int
      BY <2>1 DEF StageColumns, StageRows
    <2>3. PICK k1, k2 : k1 = c[1] /\ k2 = c[2]
      OBVIOUS
    <2>4. k1 \in Int /\ k2 \in Int
      BY <1>2, <1>4, <2>1, <2>2, <2>3
    <2>5. GidX(launch, t) = P + t1 /\ GidY(launch, t) = Q + t2
      BY <1>1 DEF GidX, GidY
    <2>6. << GidX(launch, t) + c[1] - t[1] - ApronX(launch),
             GidY(launch, t) + c[2] - t[2] - launch.sy \div 2 >>
            = <<(((P + t1) + k1) - t1) - A, (((Q + t2) + k2) - t2) - V>>
      <3>1. GidX(launch, t) + c[1] - t[1] - ApronX(launch) = (((P + t1) + k1) - t1) - A
        BY <1>1, <1>2, <1>3, <1>4, <2>3, <2>4, <2>5
      <3>2. GidY(launch, t) + c[2] - t[2] - launch.sy \div 2 = (((Q + t2) + k2) - t2) - V
        BY <1>1, <1>2, <1>3, <1>4, <2>3, <2>4, <2>5
      <3> QED
        BY <3>1, <3>2
    <2>7. /\ (((P + t1) + k1) - t1) - A = (P + k1) - A
          /\ (((Q + t2) + k2) - t2) - V = (Q + k2) - V
      BY <1>2, <1>3, <1>4, <2>4
    <2>8. launch.bx * block[1] + k1 - ApronX(launch) = (P + k1) - A
      BY <1>1, <1>2, <1>3, <2>4
    <2>9. launch.by * launch.ppt * block[2] + k2 - launch.sy \div 2 = (Q + k2) - V
      BY <1>1, <1>2, <1>3, <2>4
    <2> QED
      BY <2>3, <2>6, <2>7, <2>8, <2>9 DEF Position
  <1>7. /\ DOMAIN Staged(launch, v, t) = Cells(launch, t)
        /\ \A c \in Cells(launch, t) : Staged(launch, v, t)[c]
             = ReadGlobal(launch, StageBorders(launch, v),
                   << GidX(launch, t) + c[1] - t[1] - ApronX(launch),
                      GidY(launch, t) + c[2] - t[2] - launch.sy \div 2 >>)
    BY <1>5 DEF Staged
  <1> QED
    BY <1>6, <1>7

LEMMA InitOK == Init => IInv
  <1> SUFFICES ASSUME Init, Regular(launch)
               PROVE  ThreadsOK /\ StagedOK /\ WrittenOK
    BY DEF IInv
  <1>1. launch.shared \in BOOLEAN
    BY DEF Regular
  <1>2. ThreadsOK
    BY <1>1 DEF Init, ThreadsOK
  <1>3. StagedOK
    <2>1. DOMAIN smem = {}
      BY DEF Init
    <2>2. launch.shared => \A t \in Threads(launch) : pc[t] = "stage"
      BY DEF Init
    <2> QED
      BY <2>1, <2>2 DEF StagedOK
  <1>4. WrittenOK
    BY DEF Init, WrittenOK
  <1> QED
    BY <1>2, <1>3, <1>4

LEMMA StepOK == IInv /\ [Next]_vars => IInv'
  <1> SUFFICES ASSUME IInv, [Next]_vars, Regular(launch)'
               PROVE  (ThreadsOK /\ StagedOK /\ WrittenOK)'
    BY DEF IInv
  <1>1. launch' = launch /\ block' = block
    BY DEF Next, Stage, Compute, vars
  <1>2. Regular(launch) /\ ThreadsOK /\ StagedOK /\ WrittenOK
    BY <1>1 DEF IInv
  <1>3. /\ \A t : (Work(t))' = Work(t)
        /\ \A t, g : (Record(t, g))' = Record(t, g)
        /\ \A c : (Position(launch, c))' = Position(launch, c)
        /\ Variant' = Variant
    BY <1>1 DEF Work, Gids, GidX, GidY, Record, Position, Variant
  <1>4. CASE UNCHANGED vars
    <2>1. pc' = pc /\ smem' = smem /\ writes' = writes
      BY <1>4 DEF vars
    <2>2. ThreadsOK'
      BY <1>1, <1>2, <2>1 DEF ThreadsOK
    <2>3. StagedOK'
      BY <1>1, <1>2, <1>3, <2>1 DEF StagedOK
    <2>4. WrittenOK'
      BY <1>1, <1>2, <1>3, <2>1 DEF WrittenOK
    <2> QED
      BY <2>2, <2>3, <2>4
  <1>5. ASSUME NEW t \in Threads(launch), Stage(t)
        PROVE  (ThreadsOK /\ StagedOK /\ WrittenOK)'
    <2>1. /\ pc[t] = "stage" /\ pc' = [pc EXCEPT ![t] = "compute"] /\ writes' = writes
      BY <1>5 DEF Stage
    <2>2. launch.shared /\ launch.gpu
      BY <1>2, <2>1 DEF ThreadsOK, Regular, Supported, SharedIsUsed
    <2>3. pc' \in [Threads(launch) -> {"stage", "compute", "done"}]
          /\ pc'[t] = "compute" /\ \A u \in Threads(launch) : u # t => pc'[u] = pc[u]
      BY <1>2, <2>1 DEF ThreadsOK
    <2>4. ThreadsOK'
      BY <1>1, <1>2, <2>2, <2>3 DEF ThreadsOK
    <2>5. PICK staged : staged = Staged(launch, Variant, t)
      OBVIOUS
    <2>6. /\ DOMAIN smem' = DOMAIN smem \cup DOMAIN staged
          /\ \A c \in DOMAIN smem' : smem'[c] = IF c \in DOMAIN staged THEN staged[c] ELSE smem[c]
      BY <1>5, <2>5 DEF Stage, Variant
    <2>7. /\ DOMAIN staged = Cells(launch, t)
          /\ \A c \in Cells(launch, t) :
               staged[c] = ReadGlobal(launch, StageBorders(launch, Variant), Position(launch, c))
      BY <1>2, <2>2, <2>5, StagedIs
    <2>8. \A c \in DOMAIN smem' :
            smem'[c] = ReadGlobal(launch, StageBorders(launch, Variant), Position(launch, c))
      BY <1>2, <2>6, <2>7 DEF StagedOK
    <2>9. \A u \in Threads(launch) : pc'[u] # "stage" => Cells(launch, u) \subseteq DOMAIN smem'
      BY <1>2, <2>2, <2>3, <2>6, <2>7 DEF StagedOK
    <2>10. StagedOK'
      BY <1>1, <1>3, <2>8, <2>9 DEF StagedOK
    <2>11. \A u \in Threads(launch) : pc'[u] = "done" => pc[u] = "done"
      BY <2>3
    <2>12. WrittenOK'
      BY <1>1, <1>2, <1>3, <2>1, <2>11 DEF WrittenOK
    <2> QED
      BY <2>4, <2>10, <2>12
  <1>6. ASSUME NEW t \in Threads(launch), Compute(t)
        PROVE  (ThreadsOK /\ StagedOK /\ WrittenOK)'
    <2>1. /\ pc[t] = "compute" /\ pc' = [pc EXCEPT ![t] = "done"] /\ smem' = smem
          /\ PastBarrier(launch)
      BY <1>6 DEF Compute
    <2>2. pc' \in [Threads(launch) -> {"stage", "compute", "done"}]
          /\ pc'[t] = "done" /\ \A u \in Threads(launch) : u # t => pc'[u] = pc[u]
      BY <1>2, <2>1 DEF ThreadsOK
    <2>3. ThreadsOK'
      BY <1>1, <1>2, <2>2 DEF ThreadsOK
    <2>4. \A u \in Threads(launch) : pc'[u] # "stage" => pc[u] # "stage"
      BY <2>1, <2>2
    <2>5. StagedOK'
      BY <1>1, <1>2, <1>3, <2>1, <2>4 DEF StagedOK
    <2>6. \A g \in Work(t) :
            [thread |-> t, pixel |-> Written(launch, g), window |-> Window(launch, Variant, t, g)]
              = Record(t, g)
      BY <1>2, <2>1, WindowIs DEF Record
    <2>7. writes' = writes \cup
            {[thread |-> t, pixel |-> Written(launch, g),
              window |-> Window(launch, Variant, t, g)] : g \in Work(t)}
      BY <1>6 DEF Compute, Work, Variant
    <2>8. writes' = writes \cup {Record(t, g) : g \in Work(t)}
      BY <2>6, <2>7
    <2>9. \A wr \in writes' : \E u \in Threads(launch) : \E g \in Work(u) : wr = Record(u, g)
      BY <1>2, <2>8 DEF WrittenOK
    <2>10. \A u \in Threads(launch) : pc'[u] = "done" => \A g \in Work(u) : Record(u, g) \in writes'
      BY <1>2, <2>2, <2>8 DEF WrittenOK
    <2>11. WrittenOK'
      BY <1>1, <1>3, <2>9, <2>10 DEF WrittenOK
    <2> QED
      BY <2>3, <2>5, <2>11
  <1> QED
    BY <1>4, <1>5, <1>6 DEF Next

(* For blocks, iteration spaces, accessors, masks, boundary modes and      *)
(* orders of the threads of every kind for which the printed code is meant *)
(* (Regular): every pixel is computed from the window the DSL reads,       *)
(* whatever copy of the body its block jumps to and whether the pixels     *)
(* come from global or local memory.                                       *)
THEOREM BlocksReadAsTheDSL == Spec => [](Regular(launch) => ReadsAsTheDSL)
  <1>1. IInv => (Regular(launch) => ReadsAsTheDSL)
    <2> SUFFICES ASSUME IInv, Regular(launch), NEW wr \in writes, NEW d \in Offsets(launch)
                 PROVE  wr.window[d] = DSLRead(launch, wr.pixel, d)
      BY DEF ReadsAsTheDSL
    <2>1. PICK t \in Threads(launch) : \E g \in Work(t) : wr = Record(t, g)
      BY DEF IInv, WrittenOK
    <2>2. PICK g \in Work(t) : wr = Record(t, g)
      BY <2>1
    <2> QED
      BY <2>2 DEF Record
  <1> QED
    BY InitOK, StepOK, <1>1, PTL DEF Spec

-----------------------------------------------------------------------------
(* The blocks share out the iteration space.                               *)
LEMMA WrittenBelongs ==
  ASSUME Regular(launch), ThreadsOK, NEW t \in Threads(launch), NEW g \in Work(t)
  PROVE  Written(launch, g) \in IterationSpace(launch) /\ Own(Written(launch, g))
  <1>1. g \in Gids(launch, t) /\ Computes(launch, Variant, g)
    BY DEF Work
  <1>2. CASE ~launch.gpu
    BY <1>1, <1>2 DEF Gids, Written, Own
  <1>3. CASE launch.gpu
    <2>1. PICK p \in 0 .. launch.ppt - 1, gx \in Int, gy \in Int :
           /\ g = <<gx, gy>> /\ gx = launch.bx * block[1] + t[1]
           /\ gy = launch.by * launch.ppt * block[2] + t[2] + p * launch.by
           /\ launch.bx * block[1] <= gx /\ gx < launch.bx * block[1] + launch.bx
           /\ (launch.by * launch.ppt) * block[2] <= gy
           /\ gy < (launch.by * launch.ppt) * block[2] + launch.by * launch.ppt
      BY <1>1, <1>3, GidsAre
    <2>2. block \in Grid(launch)
      BY DEF ThreadsOK
    <2>3. Inside(launch, gx, gy)
      BY <1>1, <1>3, <2>1, <2>2, CopyFits DEF Variant
    <2>4. PICK bx, n, w, h, ox, oy, i, j :
            /\ bx = launch.bx /\ n = launch.by * launch.ppt /\ w = launch.w /\ h = launch.h
            /\ ox = launch.ox /\ oy = launch.oy /\ i = block[1] /\ j = block[2]
      OBVIOUS
    <2>5. /\ bx \in Nat \ {0} /\ n \in Nat \ {0} /\ w \in Nat \ {0} /\ h \in Nat \ {0}
          /\ ox \in Nat /\ oy \in Nat
      BY <2>4, SizesAre DEF Regular
    <2>6. i \in Nat /\ j \in Nat /\ block = <<i, j>>
      BY <1>3, <2>2, <2>4 DEF Grid
    <2>7. Written(launch, g) = <<gx, gy + oy>>
      BY <1>3, <2>1, <2>4 DEF Written
    <2>8. ox <= gx /\ gx < w + ox /\ 0 <= gy /\ gy < h
      BY <2>3, <2>4 DEF Inside
    <2>9. <<gx, gy + oy>> \in IterationSpace(launch)
      <3>1. gx \in ox .. ox + w - 1 /\ gy + oy \in oy .. oy + h - 1
        BY <2>1, <2>5, <2>8
      <3> QED
        BY <2>4, <3>1 DEF IterationSpace
    <2>10. gx \div bx = i
      <3>1. bx * i <= gx /\ gx < bx * i + bx
        BY <2>1, <2>4
      <3>2. i \in Int
        BY <2>6
      <3> QED
        BY <2>1, <2>5, <3>1, <3>2, Quotient
    <2>11. gy \div n = j
      <3>1. n * j <= gy /\ gy < n * j + n
        BY <2>1, <2>4
      <3>2. j \in Int
        BY <2>6
      <3> QED
        BY <2>1, <2>5, <3>1, <3>2, Quotient
    <2>12. (gy + oy) - oy = gy
      BY <2>1, <2>5
    <2>13. Own(<<gx, gy + oy>>)
      BY <2>4, <2>6, <2>10, <2>11, <2>12 DEF Own
    <2> QED
      BY <2>7, <2>9, <2>13
  <1> QED
    BY <1>2, <1>3

LEMMA PixelHasThread ==
  ASSUME Regular(launch), ThreadsOK, NEW p \in IterationSpace(launch), Own(p)
  PROVE  \E t \in Threads(launch) : \E g \in Work(t) : Written(launch, g) = p
  <1>1. CASE ~launch.gpu
    <2>1. <<0, 0>> \in Threads(launch)
      BY <1>1 DEF Threads
    <2>2. p \in Work(<<0, 0>>) /\ Written(launch, p) = p
      BY <1>1 DEF Work, Gids, Computes, Written
    <2> QED
      BY <2>1, <2>2
  <1>2. CASE launch.gpu
    <2>1. PICK bx, by, ppt, n, w, h, ox, oy, i, j, P, Q :
            /\ bx = launch.bx /\ by = launch.by /\ ppt = launch.ppt /\ n = by * ppt
            /\ w = launch.w /\ h = launch.h /\ ox = launch.ox /\ oy = launch.oy
            /\ i = block[1] /\ j = block[2] /\ P = bx * i /\ Q = n * j
      OBVIOUS
    <2>2. /\ bx \in Nat \ {0} /\ by \in Nat \ {0} /\ ppt \in Nat \ {0}
          /\ w \in Nat \ {0} /\ h \in Nat \ {0} /\ ox \in Nat /\ oy \in Nat
      BY <2>1 DEF Regular
    <2>3. n \in Nat \ {0}
      BY <2>1, <2>2
    <2>4. i \in Nat /\ j \in Nat
      BY <1>2, <2>1 DEF Grid, ThreadsOK
    <2>5. PICK px, py : /\ p = <<px, py>> /\ px \in ox .. ox + w - 1 /\ py \in oy .. oy + h - 1
      BY <2>1 DEF IterationSpace
    <2>6. PICK gy : gy = py - oy
      OBVIOUS
    <2>7. px \in Int /\ gy \in Int /\ ox <= px /\ px < w + ox /\ 0 <= gy /\ gy < h /\ gy + oy = py
      BY <2>2, <2>5, <2>6
    <2>8. px \div bx = i /\ gy \div n = j
      BY <1>2, <2>1, <2>5, <2>6 DEF Own
    <2>9. P <= px /\ px < P + bx
      <3>1. i \in Int
        BY <2>4
      <3> QED
        BY <2>1, <2>2, <2>7, <2>8, <3>1, Quotient
    <2>10. Q <= gy /\ gy < Q + n
      <3>1. j \in Int
        BY <2>4
      <3> QED
        BY <2>1, <2>3, <2>7, <2>8, <3>1, Quotient
    <2>11. P \in Nat /\ Q \in Nat
      BY <2>1, <2>2, <2>3, <2>4
    <2>12. PICK r : r = gy - Q
      OBVIOUS
    <2>13. r \in Nat /\ r < by * ppt /\ gy = Q + r
      BY <2>1, <2>3, <2>7, <2>10, <2>11, <2>12
    <2>14. PICK t2 \in 0 .. by - 1, q \in 0 .. ppt - 1 : r = t2 + q * by
      <3>1. ppt \in Int /\ by \in Nat \ {0} /\ r \in Nat /\ r < by * ppt
        BY <2>2, <2>13
      <3> QED
        BY <3>1, RowHasThread
    <2>15. PICK t1 : t1 = px - P
      OBVIOUS
    <2>16. t1 \in 0 .. bx - 1 /\ px = P + t1
      BY <2>2, <2>7, <2>9, <2>11, <2>15
    <2>17. <<t1, t2>> \in Threads(launch)
      BY <1>2, <2>1, <2>14, <2>16 DEF Threads
    <2>18. (Q + t2) + q * by = gy
      <3>1. PICK m : m = q * by
        OBVIOUS
      <3>2. m \in Int
        BY <2>2, <3>1
      <3> QED
        BY <2>11, <2>13, <2>14, <3>1, <3>2
    <2>19. <<px, gy>> \in Gids(launch, <<t1, t2>>)
      <3>1. GidX(launch, <<t1, t2>>) = px
        BY <2>1, <2>16 DEF GidX
      <3>2. GidY(launch, <<t1, t2>>) = Q + t2
        BY <2>1 DEF GidY
      <3>3. <<px, gy>> = <<GidX(launch, <<t1, t2>>), GidY(launch, <<t1, t2>>) + q * launch.by>>
        BY <2>1, <2>18, <3>1, <3>2
      <3> QED
        BY <1>2, <2>1, <3>3 DEF Gids
    <2>20. Computes(launch, Variant, <<px, gy>>)
      BY <2>1, <2>7 DEF Computes
    <2>21. <<px, gy>> \in Work(<<t1, t2>>)
      BY <2>19, <2>20 DEF Work
    <2>22. Written(launch, <<px, gy>>) = p
      BY <1>2, <2>1, <2>5, <2>7 DEF Written
    <2> QED
      BY <2>17, <2>21, <2>22
  <1> QED
    BY <1>1, <1>2

(* A pixel is written by one thread.                                       *)
LEMMA OneThread ==
  ASSUME Regular(launch), ThreadsOK,
         NEW t \in Threads(launch), NEW g \in Work(t),
         NEW u \in Threads(launch), NEW k \in Work(u),
         Written(launch, g) = Written(launch, k)
  PROVE  Record(t, g) = Record(u, k)
  <1>1. t = u
    <2>1. CASE ~launch.gpu
      BY <2>1 DEF Threads
    <2>2. CASE launch.gpu
      <3>1. g \in Gids(launch, t) /\ k \in Gids(launch, u)
        BY DEF Work
      <3>2. PICK p \in 0 .. launch.ppt - 1, gx \in Int, gy \in Int :
              /\ g = <<gx, gy>> /\ gx = launch.bx * block[1] + t[1]
              /\ gy = launch.by * launch.ppt * block[2] + t[2] + p * launch.by
        BY <2>2, <3>1, GidsAre
      <3>3. PICK q \in 0 .. launch.ppt - 1, hx \in Int, hy \in Int :
              /\ k = <<hx, hy>> /\ hx = launch.bx * block[1] + u[1]
              /\ hy = launch.by * launch.ppt * block[2] + u[2] + q * launch.by
        BY <2>2, <3>1, GidsAre
      <3>4. PICK by, P, Q, t1, t2, u1, u2, oy, m, o :
              /\ by = launch.by /\ P = launch.bx * block[1]
              /\ Q = launch.by * launch.ppt * block[2] /\ oy = launch.oy
              /\ t1 = t[1] /\ t2 = t[2] /\ u1 = u[1] /\ u2 = u[2]
              /\ m = by * p /\ o = by * q
        OBVIOUS
      <3>5. /\ by \in Nat \ {0} /\ oy \in Nat
            /\ t1 \in Int /\ u1 \in Int /\ t2 \in 0 .. by - 1 /\ u2 \in 0 .. by - 1
            /\ t = <<t1, t2>> /\ u = <<u1, u2>>
        <4>1. launch.bx \in Nat
          BY DEF Regular
        <4> QED
          BY <2>2, <3>4, <4>1 DEF Regular, Threads
      <3>6. P \in Int /\ Q \in Int
        <4>1. PICK bx, ppt, n, i, j : /\ bx = launch.bx /\ ppt = launch.ppt /\ n = by * ppt
                                      /\ i = block[1] /\ j = block[2]
          OBVIOUS
        <4>2. i \in Nat /\ j \in Nat
          BY <2>2, <4>1 DEF ThreadsOK, Grid
        <4>3. bx \in Nat /\ n \in Nat
          BY <3>5, <4>1 DEF Regular
        <4> QED
          BY <3>4, <4>1, <4>2, <4>3
      <3>7. /\ m \in Int /\ o \in Int /\ p \in Int /\ q \in Int
            /\ p * launch.by = m /\ q * launch.by = o
        BY <3>4, <3>5
      <3>8. gx = P + t1 /\ gy = (Q + t2) + m /\ hx = P + u1 /\ hy = (Q + u2) + o
        BY <3>2, <3>3, <3>4, <3>7
      <3>9. gx = hx /\ gy + oy = hy + oy
        BY <2>2, <3>2, <3>3, <3>4 DEF Written
      <3>10. t1 = u1 /\ t2 + m = u2 + o
        BY <3>2, <3>3, <3>5, <3>6, <3>7, <3>8, <3>9
      <3>11. p = q
        <4>1. p + 1 <= q => by * (p + 1) <= by * q
          BY <3>5, <3>7, Monotone
        <4>2. q + 1 <= p => by * (q + 1) <= by * p
          BY <3>5, <3>7, Monotone
        <4>3. by * (p + 1) = by * p + by /\ by * (q + 1) = by * q + by
          BY <3>5, <3>7, Monotone
        <4> QED
          BY <3>4, <3>5, <3>7, <3>10, <4>1, <4>2, <4>3
      <3> QED
        BY <3>4, <3>5, <3>7, <3>10, <3>11
    <2> QED
      BY <2>1, <2>2
  <1> QED
    BY <1>1 DEF Record

(* ... and its block is one of the grid.                                   *)
LEMMA PixelHasBlock ==
  ASSUME Regular(launch), launch.gpu, NEW p \in IterationSpace(launch)
  PROVE  << p[1] \div launch.bx, (p[2] - launch.oy) \div (launch.by * launch.ppt) >>
           \in Grid(launch)
  <1>1. PICK bx, n, w, h, ox, oy :
          /\ bx = launch.bx /\ n = launch.by * launch.ppt
          /\ w = launch.w /\ h = launch.h /\ ox = launch.ox /\ oy = launch.oy
    OBVIOUS
  <1>2. /\ bx \in Nat \ {0} /\ n \in Nat \ {0} /\ w \in Nat \ {0} /\ h \in Nat \ {0}
        /\ ox \in Nat /\ oy \in Nat
    BY <1>1, SizesAre DEF Regular
  <1>3. PICK px, py : /\ p = <<px, py>> /\ px \in ox .. ox + w - 1 /\ py \in oy .. oy + h - 1
    BY <1>1 DEF IterationSpace
  <1>4. PICK gy, a, i, j, cx, cy :
          /\ gy = py - oy /\ a = w + ox /\ i = px \div bx /\ j = gy \div n
          /\ cx = Ceil(a, bx) /\ cy = Ceil(h, n)
    OBVIOUS
  <1>5. px \in Nat /\ px < a /\ gy \in Nat /\ gy < h /\ a \in Int
    BY <1>2, <1>3, <1>4
  <1>6. i \in Nat /\ j \in Nat
    BY <1>2, <1>4, <1>5
  <1>7. bx * i <= px /\ n * j <= gy
    BY <1>2, <1>4, <1>5, <1>6, Quotient
  <1>8. bx * i \in Int /\ n * j \in Int
    BY <1>2, <1>6
  <1>9. bx * i < a /\ n * j < h
    BY <1>2, <1>5, <1>7, <1>8
  <1>10. i \in Int /\ j \in Int /\ h \in Int
    BY <1>2, <1>6
  <1>11. cx \in Int /\ (i < cx <=> bx * i < a)
    BY <1>2, <1>4, <1>5, <1>10, LessCeil
  <1>12. cy \in Int /\ (j < cy <=> n * j < h)
    BY <1>2, <1>4, <1>10, LessCeil
  <1>13. i \in 0 .. cx - 1 /\ j \in 0 .. cy - 1
    BY <1>6, <1>9, <1>11, <1>12
  <1>14. Grid(launch) = (0 .. cx - 1) \X (0 .. cy - 1)
    BY <1>1, <1>4 DEF Grid
  <1>15. << p[1] \div launch.bx, (p[2] - launch.oy) \div (launch.by * launch.ppt) >> = <<i, j>>
    BY <1>1, <1>3, <1>4
  <1> QED
    BY <1>13, <1>14, <1>15

LEMMA SpaceIsFinite ==
  ASSUME NEW l, Regular(l)
  PROVE  IsFiniteSet(IterationSpace(l))
  <1>1. PICK a, b, c, e : /\ a = l.ox /\ b = l.ox + l.w - 1
                          /\ c = l.oy /\ e = l.oy + l.h - 1
    OBVIOUS
  <1>2. a \in Int /\ b \in Int /\ c \in Int /\ e \in Int
    BY <1>1 DEF Regular
  <1>3. IsFiniteSet(a .. b) /\ IsFiniteSet(c .. e)
    BY <1>2, FS_Interval
  <1>4. IsFiniteSet((a .. b) \X (c .. e))
    BY <1>3, FS_Product
  <1> QED
    BY <1>1, <1>4 DEF IterationSpace

(* For launches of the same kinds: the blocks of the grid write every      *)
(* pixel of the iteration space, each once, and no others, although most   *)
(* copies of the body leave out most of the tests of the iteration space.  *)
THEOREM BlocksShareTheSpace == Spec => [](Regular(launch) => EveryPixelOnce)
  <1>1. IInv => (Regular(launch) => EveryPixelOnce)
    <2> SUFFICES ASSUME IInv, Regular(launch), \A t \in DOMAIN pc : pc[t] = "done"
                 PROVE  /\ {wr.pixel : wr \in writes} = {p \in IterationSpace(launch) : Own(p)}
                        /\ Cardinality({wr.pixel : wr \in writes}) = Cardinality(writes)
                        /\ launch.gpu => \A p \in IterationSpace(launch) :
                             << p[1] \div launch.bx,
                                (p[2] - launch.oy) \div (launch.by * launch.ppt) >> \in Grid(launch)
      BY DEF EveryPixelOnce
    <2>1. ThreadsOK /\ WrittenOK
      BY DEF IInv
    <2>2. \A t \in Threads(launch) : pc[t] = "done"
      BY <2>1 DEF ThreadsOK
    <2>3. \A wr \in writes : \E t \in Threads(launch) : \E g \in Work(t) : wr = Record(t, g)
      BY <2>1 DEF WrittenOK
    <2>4. \A t \in Threads(launch) : \A g \in Work(t) : Record(t, g) \in writes
      BY <2>1, <2>2 DEF WrittenOK
    <2>5. \A t, g : Record(t, g).pixel = Written(launch, g)
      BY DEF Record
    <2> DEFINE Pixels == {wr.pixel : wr \in writes}
               Mine == {p \in IterationSpace(launch) : Own(p)}
               f == [wr \in writes |-> wr.pixel]
    <2>6. ASSUME NEW p \in Pixels
          PROVE  p \in Mine
      <3>1. PICK wr \in writes : p = wr.pixel
        OBVIOUS
      <3>2. PICK t \in Threads(launch) : \E g \in Work(t) : wr = Record(t, g)
        BY <2>3
      <3>3. PICK g \in Work(t) : wr = Record(t, g)
        BY <3>2
      <3>4. p = Written(launch, g)
        BY <2>5, <3>1, <3>3
      <3> QED
        BY <2>1, <3>4, WrittenBelongs
    <2>7. ASSUME NEW p \in Mine
          PROVE  p \in Pixels
      <3>1. p \in IterationSpace(launch) /\ Own(p)
        OBVIOUS
      <3>2. PICK t \in Threads(launch) : \E g \in Work(t) : Written(launch, g) = p
        BY <2>1, <3>1, PixelHasThread
      <3>3. PICK g \in Work(t) : Written(launch, g) = p
        BY <3>2
      <3>4. Record(t, g) \in writes /\ Record(t, g).pixel = p
        BY <2>4, <2>5, <3>3
      <3> QED
        BY <3>4
    <2>8. Pixels = Mine
      BY <2>6, <2>7
    <2>9. IsFiniteSet(Pixels)
      <3>1. Mine \in SUBSET IterationSpace(launch)
        OBVIOUS
      <3>2. IsFiniteSet(Mine)
        BY <3>1, SpaceIsFinite, FS_Subset
      <3> QED
        BY <2>8, <3>2
    <2>10. ASSUME NEW a \in writes, NEW b \in writes, a.pixel = b.pixel
           PROVE  a = b
      <3>1. PICK t \in Threads(launch) : \E g \in Work(t) : a = Record(t, g)
        BY <2>3
      <3>2. PICK g \in Work(t) : a = Record(t, g)
        BY <3>1
      <3>3. PICK u \in Threads(launch) : \E k \in Work(u) : b = Record(u, k)
        BY <2>3
      <3>4. PICK k \in Work(u) : b = Record(u, k)
        BY <3>3
      <3>5. Written(launch, g) = Written(launch, k)
        BY <2>5, <2>10, <3>2, <3>4
      <3> QED
        BY <2>1, <3>2, <3>4, <3>5, OneThread
    <2>11. f \in Injection(writes, Pixels)
      BY <2>10 DEF Injection, IsInjective
    <2>12. f \in Surjection(writes, Pixels)
      BY DEF Surjection
    <2> HIDE DEF f, Pixels, Mine
    <2>13. Cardinality(writes) = Cardinality(Pixels)
      BY <2>9, <2>11, <2>12, FS_Injection
    <2>14. launch.gpu => \A p \in IterationSpace(launch) :
             << p[1] \div launch.bx,
                (p[2] - launch.oy) \div (launch.by * launch.ppt) >> \in Grid(launch)
      BY PixelHasBlock
    <2> QED
      BY <2>8, <2>13, <2>14 DEF Pixels, Mine
  <1> QED
    BY InitOK, StepOK, <1>1, PTL DEF Spec

-----------------------------------------------------------------------------
(* Local memory holds pixels of the image or the constant, in the columns  *)
(* of three blocks and the rows of the block and its apron.                *)
LEMMA CellBounds ==
  ASSUME NEW l, Regular(l), l.gpu, NEW t \in Threads(l), NEW c \in Cells(l, t)
  PROVE  c[1] \in 0 .. 3 * l.bx - 1 /\ c[2] \in 0 .. (l.ppt + l.sy) * l.by
  <1>1. PICK bx, by, ppt, sy, C, t1, t2 :
          /\ bx = l.bx /\ by = l.by /\ ppt = l.ppt /\ sy = l.sy
          /\ C = Ceil(l.sy - 1, l.by) /\ t1 = t[1] /\ t2 = t[2]
    OBVIOUS
  <1>2. /\ bx \in Nat \ {0} /\ by \in Nat \ {0} /\ ppt \in Nat \ {0} /\ sy \in Nat \ {0}
    BY <1>1 DEF Regular
  <1>3. t1 \in 0 .. bx - 1 /\ t2 \in 0 .. by - 1
    BY <1>1 DEF Threads
  <1>4. C \in Int /\ C <= sy
    <2>1. PICK a \in Int : a = sy - 1
      BY <1>2
    <2>2. C = Ceil(a, by)
      BY <1>1, <2>1
    <2>3. C \in Int /\ (sy < C <=> by * sy < a)
      <3>1. by \in Nat \ {0} /\ a \in Int /\ sy \in Int
        BY <1>2, <2>1
      <3>2. Ceil(a, by) \in Int /\ (sy < Ceil(a, by) <=> by * sy < a)
        BY <3>1, LessCeil
      <3> QED
        BY <2>2, <3>2
    <2>4. by * 1 <= by * sy /\ sy * 1 <= sy * by
      BY <1>2, Monotone
    <2>5. by * sy \in Int /\ sy * by = by * sy
      BY <1>2
    <2> QED
      BY <1>2, <2>1, <2>3, <2>4, <2>5
  <1>5. PICK i, p : /\ i \in StageColumns(l) /\ p \in StageRows(l)
                    /\ c = <<t1 + i * bx, t2 + p * by>>
    BY <1>1 DEF Cells
  <1>6. t1 + i * bx \in 0 .. 3 * bx - 1
    <2>1. i = 0 \/ i = 1 \/ i = 2
      BY <1>5 DEF StageColumns
    <2>2. 0 * bx = 0 /\ 1 * bx = bx /\ 2 * bx = bx + bx /\ 3 * bx = bx + bx + bx
      BY <1>2
    <2> QED
      BY <1>2, <1>3, <2>1, <2>2
  <1>7. t2 + p * by \in 0 .. (ppt + sy) * by
    <2>1. p \in Nat /\ p + 1 <= ppt + C
      BY <1>1, <1>2, <1>4, <1>5 DEF StageRows
    <2>2. PICK K \in Nat : K = ppt + sy /\ p + 1 <= K
      BY <1>2, <1>4, <2>1
    <2>3. by * p \in Int /\ by * (p + 1) <= by * K /\ by * (p + 1) = by * p + by
          /\ by * K \in Int
      BY <1>2, <2>1, <2>2, Monotone
    <2>4. p * by = by * p /\ K * by = by * K /\ 0 <= by * p
      BY <1>2, <2>1, <2>2
    <2> QED
      BY <1>2, <1>3, <2>2, <2>3, <2>4
  <1> QED
    BY <1>1, <1>5, <1>6, <1>7

LEMMA HandledType ==
  ASSUME NEW mode \in Modes, NEW i \in Int, NEW lower \in Int, NEW upper \in Int,
         lower < upper, NEW B, NEW low, NEW high,
         mode \in {"UNDEFINED", "CONSTANT"} => B = {}
  PROVE  Handled(mode, i, lower, upper, low \in B, high \in B) \in Int
  <1>1. CASE B = {}
    BY <1>1 DEF Handled
  <1>2. CASE mode \in {"CLAMP", "REPEAT", "MIRROR"}
    <2>1. \A k \in Int : lower + ((k - lower) % (upper - lower)) \in Int
      <3>1. PICK n \in Nat \ {0} : n = upper - lower
        BY SMT
      <3>2. ASSUME NEW k \in Int
            PROVE  lower + ((k - lower) % n) \in Int
        OBVIOUS
      <3> QED
        BY <3>1, <3>2
    <2>2. ASSUME NEW k \in Int
          PROVE  /\ Upper(mode, k, lower, upper) \in Int
                 /\ Lower(mode, k, lower, upper) \in Int
      BY <1>2, <2>1 DEF Upper, Lower
    <2> QED
      BY <2>2 DEF Handled
  <1> QED
    BY <1>1, <1>2 DEF Modes

LEMMA ReadsPixels ==
  ASSUME NEW l, Regular(l), NEW B, l.mode = "UNDEFINED" => B = {},
         NEW gx \in Int, NEW gy \in Int
  PROVE  ReadGlobal(l, B, <<gx, gy>>) \in (Int \X Int) \cup {Const}
  <1>1. PICK x, y, right, bottom :
          /\ x = IndexX(l, gx) /\ y = IndexY(l, gy)
          /\ right = l.ax + l.aw /\ bottom = l.ay + l.ah
    OBVIOUS
  <1>2. /\ l.ax \in Int /\ l.ay \in Int /\ l.ox \in Int /\ l.oy \in Int
        /\ l.aw \in Nat \ {0} /\ l.ah \in Nat \ {0} /\ l.mode \in Modes /\ ~l.nn
    BY DEF Regular
  <1>3. x \in Int /\ y \in Int
    BY <1>1, <1>2 DEF IndexX, IndexY
  <1>4. right \in Int /\ bottom \in Int /\ l.ax < right /\ l.ay < bottom
    BY <1>1, <1>2
  <1>5. CASE l.mode = "CONSTANT"
    BY <1>1, <1>3, <1>5 DEF ReadGlobal
  <1>6. CASE l.mode # "CONSTANT"
    <2>1. l.mode \in {"UNDEFINED", "CONSTANT"} => B = {}
      BY <1>6
    <2>2. /\ Handled(l.mode, x, l.ax, right, "left" \in B, "right" \in B) \in Int
          /\ Handled(l.mode, y, l.ay, bottom, "top" \in B, "bottom" \in B) \in Int
      <3>1. /\ l.mode \in Modes /\ x \in Int /\ y \in Int /\ right \in Int /\ bottom \in Int
            /\ l.ax \in Int /\ l.ay \in Int /\ l.ax < right /\ l.ay < bottom
        BY <1>2, <1>3, <1>4
      <3> QED
        BY <2>1, <3>1, HandledType
    <2>3. ReadGlobal(l, B, <<gx, gy>>)
            = << Handled(l.mode, x, l.ax, right, "left" \in B, "right" \in B),
                 Handled(l.mode, y, l.ay, bottom, "top" \in B, "bottom" \in B) >>
      BY <1>1, <1>6 DEF ReadGlobal
    <2> QED
      BY <2>2, <2>3
  <1> QED
    BY <1>5, <1>6

(* What the local memory is indexed by: cells that threads staged.         *)
CellsOK ==
  \A c \in DOMAIN smem : \E t \in Threads(launch) : launch.gpu /\ c \in Cells(launch, t)

TInv == IInv /\ (Regular(launch) => CellsOK)

LEMMA CellsInit == Init => TInv
  <1> SUFFICES ASSUME Init PROVE TInv
    OBVIOUS
  <1>1. DOMAIN smem = {}
    BY DEF Init
  <1> QED
    BY <1>1, InitOK DEF TInv, CellsOK

LEMMA CellsStep == TInv /\ [Next]_vars => TInv'
  <1> SUFFICES ASSUME TInv, [Next]_vars, Regular(launch)'
               PROVE  CellsOK'
    BY StepOK DEF TInv
  <1>1. launch' = launch /\ block' = block
    BY DEF Next, Stage, Compute, vars
  <1>2. Regular(launch) /\ ThreadsOK /\ CellsOK
    BY <1>1 DEF TInv, IInv
  <1>3. CASE UNCHANGED smem
    BY <1>1, <1>2, <1>3 DEF CellsOK
  <1>4. ASSUME NEW t \in Threads(launch), Stage(t)
        PROVE  CellsOK'
    <2>1. pc[t] = "stage"
      BY <1>4 DEF Stage
    <2>2. launch.shared /\ launch.gpu
      BY <1>2, <2>1 DEF ThreadsOK, Regular, Supported, SharedIsUsed
    <2>3. PICK staged : staged = Staged(launch, Variant, t)
      OBVIOUS
    <2>4. DOMAIN staged = Cells(launch, t)
      BY <1>2, <2>2, <2>3, StagedIs
    <2>5. DOMAIN smem' = DOMAIN smem \cup Cells(launch, t)
      BY <1>4, <2>3, <2>4 DEF Stage, Variant
    <2> QED
      BY <1>1, <1>2, <2>2, <2>5 DEF CellsOK
  <1>5. ASSUME NEW t \in Threads(launch), Compute(t)
        PROVE  UNCHANGED smem
    BY <1>5 DEF Compute
  <1>6. CASE UNCHANGED vars
    BY <1>3, <1>6 DEF vars
  <1> QED
    BY <1>3, <1>4, <1>5, <1>6 DEF Next

(* Local memory holds positions of the image or the constant, whatever     *)
(* copy of the body staged them, and is indexed within the columns of      *)
(* three blocks and the rows of the pixels and the apron of one block.     *)
THEOREM LocalMemoryFits == Spec => [](Regular(launch) => RegionsTypeOK)
  <1>1. TInv => (Regular(launch) => RegionsTypeOK)
    <2> SUFFICES ASSUME TInv, Regular(launch)
                 PROVE  RegionsTypeOK
      OBVIOUS
    <2>1. ThreadsOK /\ StagedOK /\ CellsOK
      BY DEF TInv, IInv
    <2>2. ASSUME NEW c \in DOMAIN smem
          PROVE  /\ smem[c] \in (Int \X Int) \cup {Const}
                 /\ c[1] \in 0 .. 3 * launch.bx - 1
                 /\ c[2] \in 0 .. (launch.ppt + launch.sy) * launch.by
      <3>1. PICK t \in Threads(launch) : launch.gpu /\ c \in Cells(launch, t)
        BY <2>1 DEF CellsOK
      <3>2. /\ c[1] \in 0 .. 3 * launch.bx - 1
            /\ c[2] \in 0 .. (launch.ppt + launch.sy) * launch.by
        BY <3>1, CellBounds
      <3>3. PICK gx, gy : Position(launch, c) = <<gx, gy>> /\ gx \in Int /\ gy \in Int
        <4>1. PICK bx, by, ppt, n, i, j, A, V, c1, c2 :
                /\ bx = launch.bx /\ by = launch.by /\ ppt = launch.ppt /\ n = by * ppt
                /\ i = block[1] /\ j = block[2]
                /\ A = ApronX(launch) /\ V = launch.sy \div 2 /\ c1 = c[1] /\ c2 = c[2]
          OBVIOUS
        <4>2. /\ bx \in Nat \ {0} /\ by \in Nat \ {0} /\ ppt \in Nat \ {0}
              /\ launch.sy \in Nat
          BY <4>1 DEF Regular
        <4>3. i \in Nat /\ j \in Nat
          BY <2>1, <3>1, <4>1 DEF ThreadsOK, Grid
        <4>4. A \in Int /\ V \in Int
          BY <4>1, <4>2 DEF ApronX
        <4>5. c1 \in Int /\ c2 \in Int
          BY <3>2, <4>1
        <4>6. n \in Nat
          BY <4>1, <4>2
        <4>7. PICK P, Q : P = launch.bx * block[1] /\ Q = launch.by * launch.ppt * block[2]
          OBVIOUS
        <4>8. Position(launch, c) = <<P + (c1 - A), Q + (c2 - V)>>
          <5>1. Position(launch, c) = <<P + c[1] - ApronX(launch), Q + c[2] - launch.sy \div 2>>
            BY <4>7, Zenon DEF Position
          <5> QED
            BY <4>1, <5>1
        <4>9. P \in Int /\ Q \in Int
          <5>1. P = bx * i /\ Q = n * j
            BY <4>1, <4>7
          <5> QED
            BY <4>2, <4>3, <4>6, <5>1
        <4> QED
          BY <4>4, <4>5, <4>8, <4>9
      <3>4. PICK B : B = StageBorders(launch, Variant)
        OBVIOUS
      <3>5. launch.mode = "UNDEFINED" => B = {}
        <4>1. launch.mode = "UNDEFINED" => Borders(launch, Variant) = {}
          BY <3>1, BordersOf DEF Variant, VariantOf, BorderHandling, KernelX, KernelY
        <4>2. B \subseteq Borders(launch, Variant)
          BY <3>4 DEF StageBorders
        <4> QED
          BY <4>1, <4>2
      <3>6. smem[c] = ReadGlobal(launch, B, Position(launch, c))
        BY <2>1, <3>4 DEF StagedOK
      <3>7. ReadGlobal(launch, B, <<gx, gy>>) \in (Int \X Int) \cup {Const}
        BY <3>3, <3>5, ReadsPixels
      <3> QED
        BY <3>2, <3>3, <3>6, <3>7
    <2> QED
      BY <2>1, <2>2 DEF ThreadsOK, RegionsTypeOK
  <1> QED
    BY CellsInit, CellsStep, <1>1, PTL DEF Spec
=============================================================================
