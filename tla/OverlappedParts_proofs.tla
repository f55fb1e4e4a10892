----------------------- MODULE OverlappedParts_proofs -----------------------
(***************************************************************************)
(* Theorems about OverlappedParts: of an image of any size, in any number  *)
(* of parts, with windows and words of any size and streams of any depth,  *)
(* every window comes out in place.  The bits of its pixels are in the     *)
(* order in which split takes the words of the part apart.                 *)
(***************************************************************************)
EXTENDS OverlappedParts, SequenceTheorems, WellFoundedInduction, TLAPS

Paddings == {"CLAMP", "MIRROR", "MIRROR_101"}

-----------------------------------------------------------------------------
(* Arithmetic.                                                             *)
LEMMA DivMod ==
  ASSUME NEW w \in Nat \ {0}, NEW q \in Nat, NEW r \in 0..(w - 1)
  PROVE  (q * w + r) \div w = q /\ (q * w + r) % w = r
  OBVIOUS

LEMMA OneMore ==
  ASSUME NEW q \in Nat, NEW w \in Nat
  PROVE  /\ q * w \in Nat
         /\ (q + 1) * w = q * w + w
  OBVIOUS

LEMMA Product ==
  ASSUME NEW a \in Nat, NEW A \in Nat, a <= A, NEW b \in Nat, NEW B \in Nat,
         b <= B
  PROVE  a * b \in Nat /\ A * B \in Nat /\ a * b <= A * B
  OBVIOUS

LEMMA Quotient ==
  ASSUME NEW V \in Nat \ {0}, NEW n \in Nat
  PROVE  n \div V \in Nat /\ n % V \in 0..(V - 1) /\ n = (n \div V) * V + (n % V)
  OBVIOUS

(* The pixel behind pixel n, and the word that pixel n is of.              *)
LEMMA NextPixel ==
  ASSUME NEW V \in Nat \ {0}, NEW n \in Nat
  PROVE  IF n % V = V - 1
         THEN (n + 1) \div V = n \div V + 1 /\ (n + 1) % V = 0
         ELSE (n + 1) \div V = n \div V /\ (n + 1) % V = (n % V) + 1
  <1>1. PICK q \in Nat, r \in 0..(V - 1) :
          n = q * V + r /\ n \div V = q /\ n % V = r
    BY Quotient
  <1>2. q * V \in Nat /\ (q + 1) * V = q * V + V
    BY OneMore
  <1>3. CASE r = V - 1
    <2>1. n + 1 = (q + 1) * V + 0
      BY <1>1, <1>2, <1>3
    <2>2. ((q + 1) * V + 0) \div V = q + 1 /\ ((q + 1) * V + 0) % V = 0
      BY DivMod
    <2> QED
      BY <1>1, <1>3, <2>1, <2>2
  <1>4. CASE r # V - 1
    <2>1. n + 1 = q * V + (r + 1)
      BY <1>1, <1>2
    <2>2. (q * V + (r + 1)) \div V = q /\ (q * V + (r + 1)) % V = r + 1
      <3>1. r + 1 \in 0..(V - 1)
        BY <1>4
      <3> QED
        BY <3>1, DivMod
    <2> QED
      BY <1>1, <1>4, <2>1, <2>2
  <1> QED
    BY <1>3, <1>4

LEMMA WordIsIn ==
  ASSUME NEW V \in Nat \ {0}, NEW n \in Nat, NEW N \in Nat
  PROVE  n < N * V <=> n \div V < N
  <1>1. PICK q \in Nat, r \in 0..(V - 1) : n = q * V + r /\ n \div V = q
    BY Quotient
  <1>2. q * V \in Nat /\ (q + 1) * V = q * V + V /\ N * V \in Nat
    BY OneMore
  <1>3. q < N => (q + 1) * V <= N * V
    BY Product
  <1>4. q >= N => N * V <= q * V
    BY Product
  <1> QED
    BY <1>1, <1>2, <1>3, <1>4

(* Words begun before pixel n.                                             *)
Begun(n, V) == (n + V - 1) \div V

LEMMA BegunIs ==
  ASSUME NEW V \in Nat \ {0}, NEW n \in Nat
  PROVE  /\ Begun(n, V) \in Nat
         /\ n % V = 0 => Begun(n, V) = n \div V
         /\ Begun(n + 1, V) = n \div V + 1
         /\ n % V # 0 => Begun(n, V) = n \div V + 1
         /\ Begun(0, V) = 0
  <1>1. PICK q \in Nat, r \in 0..(V - 1) :
          n = q * V + r /\ n \div V = q /\ n % V = r
    BY Quotient
  <1>2. q * V \in Nat /\ (q + 1) * V = q * V + V
    BY OneMore
  <1>3. CASE r = 0
    <2>1. n + V - 1 = q * V + (V - 1)
      BY <1>1, <1>2, <1>3
    <2>2. (q * V + (V - 1)) \div V = q
      BY DivMod
    <2> QED
      BY <1>1, <1>3, <2>1, <2>2 DEF Begun
  <1>4. CASE r # 0
    <2>1. n + V - 1 = (q + 1) * V + (r - 1)
      BY <1>1, <1>2, <1>4
    <2>2. ((q + 1) * V + (r - 1)) \div V = q + 1
      <3>1. r - 1 \in 0..(V - 1) /\ q + 1 \in Nat
        BY <1>4
      <3> QED
        BY <3>1, DivMod
    <2> QED
      BY <1>1, <1>4, <2>1, <2>2 DEF Begun
  <1>5. Begun(n + 1, V) = n \div V + 1
    <2>1. (n + 1) + V - 1 = (q + 1) * V + r
      BY <1>1, <1>2
    <2>2. ((q + 1) * V + r) \div V = q + 1
      BY DivMod
    <2> QED
      BY <1>1, <2>1, <2>2 DEF Begun
  <1>6. Begun(0, V) = 0
    <2>1. 0 + V - 1 = 0 * V + (V - 1)
      OBVIOUS
    <2>2. (0 * V + (V - 1)) \div V = 0
      BY DivMod
    <2> QED
      BY <2>1, <2>2 DEF Begun
  <1> QED
    BY <1>1, <1>3, <1>4, <1>5, <1>6

Within(x, n) == Max2(0, Min2(x, n))

(* Of lines of n items from column o on, or n words of V pixels, those     *)
(* before column c of line r; of the words, those begun or complete there. *)
Line(n, o, r, c)      == r * n + Within(c - o, n)
LineBegun(n, V, r, c) == r * n + Min2(Begun(c, V), n)
LineEnded(n, V, r, c) == r * n + Min2(c \div V, n)

LEMMA WithinStep ==
  ASSUME NEW x \in Int, NEW n \in Nat
  PROVE  /\ Within(x, n) \in 0..n
         /\ Within(x + 1, n) = Within(x, n) + (IF x \in 0..(n - 1) THEN 1 ELSE 0)
         /\ x \in 0..n => Within(x, n) = x
         /\ x >= n => Within(x, n) = n
         /\ x <= 0 => Within(x, n) = 0
  BY DEF Within, Max2, Min2

(* A count that goes on from line to line of n.                            *)
LEMMA CountStep ==
  ASSUME NEW n \in Nat, NEW r \in Nat, NEW f \in Nat, NEW d \in {0, 1},
         NEW e \in Nat, NEW q \in Nat,
         \/ q = r /\ e = f + d
         \/ q = r + 1 /\ e = 0 /\ f + d = n
  PROVE  q * n + e = (r * n + f) + d /\ r * n + f \in Nat
  BY OneMore

(* A set of numbers has a least one.                                       *)
LEMMA LeastOf ==
  ASSUME NEW T, T \subseteq Nat, T # {}
  PROVE  \E n \in T : \A m \in T : n <= m
  <1> DEFINE R == {ss \in Nat \X Nat : ss[1] < ss[2]}
  <1>1. IsWellFoundedOn(R, Nat)
    BY NatLessThanWellFounded DEF OpToRel
  <1>2. PICK n \in T : \A m \in T : <<m, n>> \notin R
    <2> HIDE DEF R
    <2> QED
      BY <1>1, WFMin
  <1>3. ASSUME NEW m \in T
        PROVE  n <= m
    <2>1. m \in Nat /\ n \in Nat
      OBVIOUS
    <2>2. ~(m < n)
      BY <1>2, <2>1
    <2> QED
      BY <2>1, <2>2
  <1> QED
    BY <1>3

-----------------------------------------------------------------------------
(* Streams.                                                                *)

(* A stream that got the first b of the values F promises one by one, and  *)
(* gave the first a of them away.                                          *)
Holds(q, T, F, a, b) ==
  /\ q \in Seq(T)
  /\ a \in Nat /\ b = a + Len(q)
  /\ \A n \in 1..Len(q) : q[n] \in F[a + n - 1]

LEMMA Popped ==
  ASSUME NEW T, NEW q, NEW F, NEW a, NEW b, Holds(q, T, F, a, b), q # <<>>
  PROVE  /\ Head(q) \in T /\ Head(q) \in F[a]
         /\ Holds(Tail(q), T, F, a + 1, b)
         /\ Len(Tail(q)) <= Len(q)
  <1>1. q \in Seq(T) /\ a \in Nat /\ b = a + Len(q)
    BY DEF Holds
  <1>2. /\ Head(q) = q[1] /\ Len(q) \in Nat \ {0}
        /\ Tail(q) \in Seq(T) /\ Len(Tail(q)) = Len(q) - 1
        /\ \A n \in 1..(Len(q) - 1) : Tail(q)[n] = q[n + 1]
    BY <1>1, HeadTailProperties, EmptySeq
  <1>3. Head(q) \in T
    BY <1>1, <1>2, ElementOfSeq
  <1>4. Head(q) \in F[a + 1 - 1]
    BY <1>1, <1>2 DEF Holds
  <1>5. ASSUME NEW n \in 1..Len(Tail(q))
        PROVE  Tail(q)[n] \in F[(a + 1) + n - 1]
    <2>1. n + 1 \in 1..Len(q) /\ (a + 1) + n - 1 = a + (n + 1) - 1
      BY <1>1, <1>2
    <2>2. q[n + 1] \in F[a + (n + 1) - 1]
      BY <2>1 DEF Holds
    <2> QED
      BY <1>2, <2>1, <2>2
  <1>6. a + 1 - 1 = a /\ b = (a + 1) + Len(Tail(q))
    BY <1>1, <1>2
  <1> QED
    BY <1>1, <1>2, <1>3, <1>4, <1>5, <1>6 DEF Holds

LEMMA Appended ==
  ASSUME NEW T, NEW q, NEW F, NEW a, NEW b, Holds(q, T, F, a, b),
         NEW v, v \in T, v \in F[b]
  PROVE  Holds(Append(q, v), T, F, a, b + 1) /\ Len(Append(q, v)) = Len(q) + 1
  <1>1. q \in Seq(T) /\ a \in Nat /\ b = a + Len(q) /\ Len(q) \in Nat
    BY DEF Holds
  <1>2. /\ Append(q, v) \in Seq(T) /\ Len(Append(q, v)) = Len(q) + 1
        /\ \A n \in 1..Len(q) : Append(q, v)[n] = q[n]
        /\ Append(q, v)[Len(q) + 1] = v
    BY <1>1, AppendProperties
  <1>3. ASSUME NEW n \in 1..(Len(q) + 1)
        PROVE  Append(q, v)[n] \in F[a + n - 1]
    <2>1. CASE n \in 1..Len(q)
      BY <1>2, <2>1 DEF Holds
    <2>2. CASE n = Len(q) + 1
      <3>1. a + n - 1 = b
        BY <1>1, <2>2
      <3> QED
        BY <1>2, <2>2, <3>1
    <2> QED
      BY <1>1, <2>1, <2>2
  <1>4. b + 1 = a + Len(Append(q, v))
    BY <1>1, <1>2
  <1> QED
    BY <1>1, <1>2, <1>3, <1>4 DEF Holds

-----------------------------------------------------------------------------
(* The layout.                                                             *)

(* The words in front of part k; what it gets of the image per line.       *)
Left(k)       == (k - 1) * PartWords
FirstWord(k)  == IF k = 1 THEN 0 ELSE Left(k) - Overhang
WordsIn(k)    == WordsOf(k) + (IF Kind(k) = "C" THEN 2 * Overhang ELSE Overhang)
FirstPixel(k) == IF k = 1 THEN 0 ELSE Left(k) * Vect - Radius
PixelsIn(k)   == WidthOf(k) + (IF Kind(k) = "C" THEN 2 * Radius ELSE Radius)

(* The pixels split drops at the start of a line; the columns after which  *)
(* process begins to write.                                                *)
Skip(k)  == IF k = 1 THEN 0 ELSE LeftSkip
Delay(k) == IF k = 1 THEN Radius ELSE 2 * Radius

(* distribute and collect cut the image in the same place.                 *)
CutsAgree == DealtWords = PartWords

(* They do in a layout, but for distribute2 and collect2 of an image that  *)
(* is narrower than the largest.                                           *)
CutsMeet(c) == c.parts = 2 /\ ~c.fixed => c.maxWidth \div 2 = c.cut

LEMMA CallFacts ==
  ASSUME call \in Call
  PROVE  /\ Vect \in Nat \ {0} /\ Radius \in Nat \ {0} /\ PartWords \in Nat
         /\ call.parts \in Nat \ {0, 1}
         /\ call.width \in Nat /\ call.height \in Nat
         /\ call.height > 2 * Radius /\ call.padding \in Paddings
         /\ PartWords >= 2 * Overhang
         /\ call.width - (call.parts - 1) * PartWords >= 2 * Overhang
  BY LayoutsAreKnown, PartsAreWideEnough
     DEF Vect, Radius, PartWords, Overhang, Paddings

(* The overhang in pixels, and how much of it split keeps.                 *)
LEMMA OverhangFacts ==
  ASSUME call \in Call
  PROVE  /\ Overhang \in Nat \ {0} /\ Overhang * Vect \in Nat
         /\ LeftSkip \in Nat /\ LeftSkip < Vect
         /\ Overhang * Vect = Radius + LeftSkip
         /\ (Overhang - 1) * Vect + RightKeep = Radius
         /\ (2 * Overhang - 1) * Vect + RightKeep = Overhang * Vect + Radius
         /\ 2 * Overhang * Vect = Overhang * Vect + Overhang * Vect
  <1>1. Vect \in Nat \ {0} /\ Radius \in Nat \ {0}
    BY CallFacts
  <1>2. Overhang = IF Radius <= Vect THEN 1 ELSE Begun(Radius, Vect)
    BY DEF Overhang, Apron, Radius, Vect, Begun
  <1>3. LeftSkip = IF Radius % Vect = 0 THEN 0 ELSE Vect - (Radius % Vect)
    BY DEF LeftSkip
  <1>4. RightKeep = IF Radius % Vect = 0 THEN Vect ELSE Radius % Vect
    BY DEF RightKeep
  <1> HIDE DEF Vect, Radius, Overhang, LeftSkip, RightKeep
  <1>5. PICK q \in Nat, m \in 0..(Vect - 1) :
          /\ Radius = q * Vect + m /\ Radius \div Vect = q /\ Radius % Vect = m
    BY <1>1, Quotient
  <1>6. Begun(Radius, Vect) = IF m = 0 THEN q ELSE q + 1
    <2>1. /\ Radius % Vect = 0 => Begun(Radius, Vect) = Radius \div Vect
          /\ Radius % Vect # 0 => Begun(Radius, Vect) = Radius \div Vect + 1
      <3>1. Radius \in Nat
        BY <1>1
      <3> QED
        BY <1>1, <3>1, BegunIs
    <2> QED
      BY <1>5, <2>1
  <1>7. /\ q * Vect \in Nat /\ (q + 1) * Vect = q * Vect + Vect
        /\ 1 * Vect = Vect /\ 0 * Vect = 0
    BY <1>1, OneMore
  <1>8. q >= 1 => q * Vect >= Vect
    <2>1. q >= 1 => 1 * Vect <= q * Vect
      BY <1>1, Product
    <2> QED
      BY <1>1, <1>7, <2>1
  <1>9. q >= 2 => q * Vect >= Vect + Vect
    <2>1. q >= 2 => 2 * Vect <= q * Vect
      BY <1>1, Product
    <2>2. 2 * Vect = Vect + Vect
      BY <1>1
    <2> QED
      BY <1>1, <1>7, <2>1, <2>2
  <1>10. q = 0 => Radius = m
    BY <1>1, <1>5, <1>7
  <1>11. q = 1 => Radius = Vect + m
    BY <1>1, <1>5, <1>7
  <1>12. PICK Q \in Nat : Q = q * Vect
    BY <1>7
  <1>13. Overhang = IF m = 0 THEN q ELSE q + 1
    BY <1>1, <1>2, <1>5, <1>6, <1>8, <1>9, <1>10, <1>11, <1>12
  <1>14. Overhang \in Nat \ {0}
    BY <1>1, <1>5, <1>10, <1>13
  <1>15. Overhang * Vect = IF m = 0 THEN Q ELSE Q + Vect
    <2>1. CASE m = 0
      BY <1>12, <1>13, <2>1
    <2>2. CASE m # 0
      BY <1>7, <1>12, <1>13, <2>2
    <2> QED
      BY <2>1, <2>2
  <1>16. PICK o \in Nat : Overhang = o + 1
    <2>1. Overhang - 1 \in Nat /\ Overhang = (Overhang - 1) + 1
      BY <1>14
    <2> QED
      BY <2>1
  <1>17. /\ o * Vect \in Nat /\ Overhang * Vect = o * Vect + Vect
         /\ Overhang - 1 = o
    BY <1>1, <1>16, OneMore
  <1>18. PICK p \in Nat : p = o * Vect
    BY <1>17
  <1>19. (2 * Overhang - 1) * Vect = p + (p + Vect)
    <2>1. 2 * Overhang - 1 = (o + o) + 1
      BY <1>16
    <2>2. ((o + o) + 1) * Vect = (o + o) * Vect + Vect
      BY <1>1, OneMore
    <2>3. (o + o) * Vect = o * Vect + o * Vect
      BY <1>1
    <2> QED
      BY <1>1, <1>18, <2>1, <2>2, <2>3
  <1>20. 2 * Overhang * Vect = Overhang * Vect + Overhang * Vect
    BY <1>1, <1>14
  <1>21. Radius = Q + m
    BY <1>5, <1>12
  <1>22. Overhang * Vect = p + Vect /\ (Overhang - 1) * Vect = p
    BY <1>17, <1>18
  <1> QED
    BY <1>1, <1>3, <1>4, <1>5, <1>14, <1>15, <1>19, <1>20, <1>21, <1>22

LEMMA KindIs ==
  ASSUME NEW k
  PROVE  /\ Kind(k) = "L" <=> k = 1
         /\ Kind(k) = "R" <=> k # 1 /\ k = call.parts
         /\ Kind(k) = "C" <=> k # 1 /\ k # call.parts
  BY DEF Kind

LEMMA PartFacts ==
  ASSUME call \in Call, NEW k \in Parts
  PROVE  /\ k \in Nat \ {0} /\ k <= call.parts
         /\ Left(k) \in Nat /\ WordsOf(k) \in Nat
         /\ WordsOf(k) >= 2 * Overhang
         /\ k > 1 => Left(k) >= 2 * Overhang
         /\ k < call.parts => /\ WordsOf(k) = PartWords
                              /\ Left(k) + WordsOf(k) = k * PartWords
                              /\ Left(k) + WordsOf(k) + 2 * Overhang <= call.width
         /\ k = call.parts => Left(k) + WordsOf(k) = call.width
         /\ k = 1 => Left(k) = 0
  <1>1. /\ PartWords \in Nat /\ call.parts \in Nat \ {0, 1} /\ call.width \in Nat
        /\ PartWords >= 2 * Overhang
        /\ call.width - (call.parts - 1) * PartWords >= 2 * Overhang
    BY CallFacts
  <1>2. Overhang \in Nat
    BY OverhangFacts
  <1>3. k \in 1..call.parts
    BY DEF Parts
  <1>4. WordsOf(k) = IF k < call.parts THEN PartWords
                     ELSE call.width - (call.parts - 1) * PartWords
    BY DEF WordsOf
  <1>5. Left(k) = (k - 1) * PartWords
    BY DEF Left
  <1> HIDE DEF PartWords, Overhang, Left, WordsOf
  <1>6. PICK j \in Nat : k = j + 1
    <2>1. k - 1 \in Nat /\ k = (k - 1) + 1
      BY <1>1, <1>3
    <2> QED
      BY <2>1
  <1>7. j * PartWords \in Nat /\ k * PartWords = j * PartWords + PartWords
    BY <1>1, <1>6, OneMore
  <1>8. PICK m \in Nat : call.parts = m + 1
    <2>1. PICK n \in Nat : n = call.parts
      BY <1>1
    <2>2. n - 1 \in Nat /\ n = (n - 1) + 1
      BY <1>1, <2>1
    <2> QED
      BY <2>1, <2>2
  <1>9. k - 1 = j /\ call.parts - 1 = m
    BY <1>6, <1>8
  <1>10. m * PartWords \in Nat
    BY <1>1, OneMore
  <1>11. k < call.parts => k * PartWords <= m * PartWords
    <2>1. k < call.parts => k \in Nat /\ k <= m
      BY <1>3, <1>8
    <2> QED
      BY <1>1, <2>1, Product
  <1>12. k > 1 => 1 * PartWords <= j * PartWords
    <2>1. k > 1 => 1 <= j
      BY <1>6
    <2> QED
      BY <1>1, <2>1, Product
  <1>13. 1 * PartWords = PartWords
    BY <1>1
  <1>14. PICK M \in Nat : M = m * PartWords
    BY <1>10
  <1>15. PICK J \in Nat : J = j * PartWords
    BY <1>7
  <1>16. k = 1 => J = 0
    BY <1>1, <1>6, <1>15
  <1>17. k = call.parts => J = M
    BY <1>6, <1>8, <1>14, <1>15
  <1>18. PICK K : K = k * PartWords
    OBVIOUS
  <1>19. K = J + PartWords
    BY <1>7, <1>15, <1>18
  <1>20. Left(k) = J
    BY <1>5, <1>9, <1>15
  <1>21. call.width - M >= 2 * Overhang
    BY <1>1, <1>9, <1>14
  <1>22. WordsOf(k) = IF k < call.parts THEN PartWords ELSE call.width - M
    BY <1>4, <1>9, <1>14
  <1>23. k < call.parts => K <= M
    BY <1>11, <1>14, <1>18
  <1>24. k > 1 => PartWords <= J
    BY <1>12, <1>13, <1>15
  <1>25. k \in Nat \ {0} /\ k <= call.parts
    BY <1>1, <1>3
  <1> QED
    BY <1>1, <1>2, <1>16, <1>17, <1>18, <1>19, <1>20, <1>21, <1>22, <1>23, <1>24,
       <1>25

(* A part lies behind all that come before it.                             *)
LEMMA PartsFollow ==
  ASSUME call \in Call, NEW k \in Parts, NEW l \in Parts, k < l
  PROVE  Left(k) + PartWords <= Left(l)
  <1>1. k \in Nat \ {0} /\ l \in Nat \ {0} /\ PartWords \in Nat
    BY PartFacts, CallFacts
  <1>2. k - 1 \in Nat /\ l - 1 \in Nat /\ k = (k - 1) + 1 /\ k <= l - 1
    BY <1>1
  <1>3. k * PartWords = (k - 1) * PartWords + PartWords
    BY <1>1, <1>2, OneMore
  <1>4. k * PartWords <= (l - 1) * PartWords
    BY <1>1, <1>2, Product
  <1> QED
    BY <1>3, <1>4 DEF Left

(* The same in pixels.                                                     *)
LEMMA PixelFacts ==
  ASSUME call \in Call, NEW k \in Parts
  PROVE  /\ WidthOf(k) \in Nat /\ WidthOf(k) >= 2 * (Overhang * Vect)
         /\ Left(k) * Vect \in Nat /\ call.width * Vect \in Nat
         /\ k > 1 => Left(k) * Vect >= 2 * (Overhang * Vect)
         /\ k < call.parts =>
              Left(k) * Vect + WidthOf(k) + 2 * (Overhang * Vect) <= call.width * Vect
         /\ k = call.parts => Left(k) * Vect + WidthOf(k) = call.width * Vect
         /\ k = 1 => Left(k) * Vect = 0
  <1>1. Vect \in Nat \ {0} /\ Overhang \in Nat /\ call.width \in Nat
    BY CallFacts, OverhangFacts
  <1>2. /\ k \in Nat \ {0} /\ k <= call.parts
        /\ Left(k) \in Nat /\ WordsOf(k) \in Nat
        /\ WordsOf(k) >= 2 * Overhang
        /\ k > 1 => Left(k) >= 2 * Overhang
        /\ k < call.parts => Left(k) + WordsOf(k) + 2 * Overhang <= call.width
        /\ k = call.parts => Left(k) + WordsOf(k) = call.width
        /\ k = 1 => Left(k) = 0
    BY PartFacts
  <1>3. WidthOf(k) = WordsOf(k) * Vect
    BY DEF WidthOf
  <1> HIDE DEF Vect, Overhang, Left, WordsOf, WidthOf
  <1>4. PICK L \in Nat : L = Left(k)
    BY <1>2
  <1>5. PICK W \in Nat : W = WordsOf(k)
    BY <1>2
  <1>6. /\ L * Vect \in Nat /\ W * Vect \in Nat /\ call.width * Vect \in Nat
        /\ Overhang * Vect \in Nat
    BY <1>1, OneMore
  <1>7. (2 * Overhang) * Vect = 2 * (Overhang * Vect)
    BY <1>1
  <1>8. (2 * Overhang) * Vect <= W * Vect
    <2>1. 2 * Overhang \in Nat /\ 2 * Overhang <= W
      BY <1>1, <1>2, <1>5
    <2> QED
      BY <1>1, <2>1, Product
  <1>9. k > 1 => (2 * Overhang) * Vect <= L * Vect
    <2>1. 2 * Overhang \in Nat /\ (k > 1 => 2 * Overhang <= L)
      BY <1>1, <1>2, <1>4
    <2> QED
      BY <1>1, <2>1, Product
  <1>10. ((L + W) + 2 * Overhang) * Vect = (L * Vect + W * Vect) + (2 * Overhang) * Vect
    BY <1>1
  <1>11. (L + W) * Vect = L * Vect + W * Vect
    BY <1>1
  <1>12. k < call.parts => ((L + W) + 2 * Overhang) * Vect <= call.width * Vect
    <2>1. (L + W) + 2 * Overhang \in Nat
      BY <1>1
    <2>2. k < call.parts => (L + W) + 2 * Overhang <= call.width
      BY <1>2, <1>4, <1>5
    <2> QED
      BY <1>1, <2>1, <2>2, Product
  <1>13. k = call.parts => (L + W) * Vect = call.width * Vect
    BY <1>2, <1>4, <1>5
  <1>14. k = 1 => L * Vect = 0
    BY <1>1, <1>2, <1>4
  <1>15. PICK LV \in Nat : LV = L * Vect
    BY <1>6
  <1>16. PICK WV \in Nat : WV = W * Vect
    BY <1>6
  <1>17. PICK OV \in Nat : OV = Overhang * Vect
    BY <1>6
  <1>18. PICK IV \in Nat : IV = call.width * Vect
    BY <1>6
  <1>19. /\ WV >= 2 * OV
         /\ k > 1 => LV >= 2 * OV
         /\ k < call.parts => LV + WV + 2 * OV <= IV
         /\ k = call.parts => LV + WV = IV
         /\ k = 1 => LV = 0
    BY <1>7, <1>8, <1>9, <1>10, <1>11, <1>12, <1>13, <1>14, <1>15, <1>16, <1>17, <1>18
  <1>20. /\ Left(k) * Vect = LV /\ WidthOf(k) = WV /\ Overhang * Vect = OV
         /\ call.width * Vect = IV
    BY <1>3, <1>4, <1>5, <1>15, <1>16, <1>17, <1>18
  <1> QED
    BY <1>19, <1>20

-----------------------------------------------------------------------------
(* The inductive invariant.                                                *)

(* What has been written to a stream of part k before column c of row r of *)
(* the loop that writes it, and read from it before that of its reader.    *)
DealtAt(k, r, c)     == Line(WordsIn(k), FirstWord(k), r, c)
UnpackedAt(k, r, c)  == LineBegun(WordsIn(k), Vect, r, c)
CastAt(k, r, c)      == Line(PixelsIn(k), Skip(k), r, c)
SeenAt(k, r, c)      == IF r < call.height THEN Line(PixelsIn(k), 0, r, c)
                                           ELSE Line(PixelsIn(k), 0, call.height, 0)
FilteredAt(k, r, c)  == IF r >= Radius THEN Line(WidthOf(k), Delay(k), r - Radius, c)
                                       ELSE 0
GatheredAt(k, r, c)  == Line(WidthOf(k), 0, r, c)
PackedAt(k, r, c)    == LineEnded(WordsOf(k), Vect, r, c)
CollectedAt(k, r, c) == Line(WordsOf(k), Left(k), r, c)

WriterOf(s) == CASE s[1] = "words"   -> Distributor
                 [] s[1] = "pixels"  -> <<"split", s[2]>>
                 [] s[1] = "results" -> <<"process", s[2]>>
                 [] s[1] = "packed"  -> <<"assemble", s[2]>>
ReaderOf(s) == CASE s[1] = "words"   -> <<"split", s[2]>>
                 [] s[1] = "pixels"  -> <<"process", s[2]>>
                 [] s[1] = "results" -> <<"assemble", s[2]>>
                 [] s[1] = "packed"  -> Collector

GivenAt(s, r, c) == CASE s[1] = "words"   -> DealtAt(s[2], r, c)
                      [] s[1] = "pixels"  -> CastAt(s[2], r, c)
                      [] s[1] = "results" -> FilteredAt(s[2], r, c)
                      [] s[1] = "packed"  -> PackedAt(s[2], r, c)
TakenAt(s, r, c) == CASE s[1] = "words"   -> UnpackedAt(s[2], r, c)
                      [] s[1] = "pixels"  -> SeenAt(s[2], r, c)
                      [] s[1] = "results" -> GatheredAt(s[2], r, c)
                      [] s[1] = "packed"  -> CollectedAt(s[2], r, c)

Given(s) == GivenAt(s, Row(WriterOf(s)), Col(WriterOf(s)))
Taken(s) == TakenAt(s, Row(ReaderOf(s)), Col(ReaderOf(s)))

(* Pixel x of line y of part k is filtered exactly.                        *)
IsExact(k, y, x) ==
  /\ y + Radius < call.height \/ k = call.parts
  /\ k = call.parts => x + Radius < WidthOf(k) \/ call.padding = "CLAMP"

Fits(k, y, x, w) ==
  IsExact(k, y, x) => w = Neighbourhood(y, Left(k) * Vect + x, SplitOrder(k))

LaneFits(k, y, x, r) ==
  IsExact(k, y, x) =>
    r = Stored(Neighbourhood(y, Left(k) * Vect + x, SplitOrder(k)))

WordFits(k, y, c, v) == \A l \in Lanes : LaneFits(k, y, c * Vect + l, v[l])

(* What the n-th value of a stream has to be.                              *)
Promised(s, n) ==
  LET k == s[2] IN
  CASE s[1] = "words"   -> {<<n \div WordsIn(k), FirstWord(k) + (n % WordsIn(k))>>}
    [] s[1] = "pixels"  -> {<<n \div PixelsIn(k), FirstPixel(k) + (n % PixelsIn(k)),
                              SplitOrder(k)>>}
    [] s[1] = "results" -> {w \in Windows :
                              Fits(k, n \div WidthOf(k), n % WidthOf(k), w)}
    [] s[1] = "packed"  -> {v \in [Lanes -> Results] :
                              WordFits(k, n \div WordsOf(k), n % WordsOf(k), v)}

Contents(s) == [n \in Nat |-> Promised(s, n)]

StreamOK(s) ==
  /\ Holds(fifo[s], Payload(s[1]), Contents(s), Taken(s), Given(s))
  /\ Len(fifo[s]) <= Depth

StreamsOK == \A s \in Streams : StreamOK(s)

(* The loops stop at the end of a line.                                    *)
LoopsOK ==
  /\ pos \in [Process -> [row : Nat, col : Nat]]
  /\ \A p \in Process : /\ Row(p) <= Lines(p) /\ Col(p) < Columns(p)
                        /\ Finished(p) => Col(p) = 0

Buffers(k) == [0..(Kernel - 2) -> [0..(WidthOf(k) + 2 * Radius - 1) -> Pixels]]

ShapesOK ==
  /\ DOMAIN held = {"split", "assemble"} \X Parts
  /\ inPixel \in [Parts -> Pixels]
  /\ winTmp \in [Parts -> Windows]
  /\ DOMAIN lineBuff = Parts
  /\ \A k \in Parts : /\ held[<<"split", k>>] \in Words
                      /\ held[<<"assemble", k>>] \in [Lanes -> Results]
                      /\ lineBuff[k] \in Buffers(k)
  /\ out \in [Lanes -> Results]

(* split holds the word it is taking apart, ...                            *)
SplitOK(k) ==
  LET c == Col(<<"split", k>>) IN
  c % Vect # 0 /\ c \div Vect < WordsIn(k) =>
    held[<<"split", k>>] = <<Row(<<"split", k>>), FirstWord(k) + (c \div Vect)>>

(* ... assemble the pixels of a word that is not complete.                 *)
LanesFit(k, y, c, v) ==
  \A l \in Lanes : l < c % Vect => LaneFits(k, y, (c \div Vect) * Vect + l, v[l])

AssembleOK(k) ==
  Col(<<"assemble", k>>) < WidthOf(k) =>
    LanesFit(k, Row(<<"assemble", k>>), Col(<<"assemble", k>>), held[<<"assemble", k>>])

(* The columns in which process moves the window, while it does; the last  *)
(* part goes on with the last pixel of the line.                           *)
LoadCols(k) == IF k = call.parts THEN WidthOf(k) + 2 * Radius ELSE PixelsIn(k)
Moves(k)    == Row(<<"process", k>>) < call.height \/ k = call.parts

InPart(k, y, c)    == y \in 0..(call.height - 1) /\ c \in 0..(LoadCols(k) - 1)
PartPixel(k, y, c) ==
  <<y, FirstPixel(k) + Min2(c, PixelsIn(k) - 1), SplitOrder(k)>>

PixelOK(k) ==
  Row(<<"process", k>>) < call.height /\ Col(<<"process", k>>) > 0 =>
    inPixel[k] = PartPixel(k, Row(<<"process", k>>), Col(<<"process", k>>) - 1)

(* The line buffer holds the newest lines of the part.                     *)
LineOf(i, c, row, col) == (IF c < col THEN row ELSE row - 1) - (Kernel - 2 - i)

HasLines(k, buff, row, col) ==
  \A i \in 0..(Kernel - 2) : \A c \in 0..(LoadCols(k) - 1) :
    LineOf(i, c, row, col) \in 0..(call.height - 1) =>
      buff[i][c] = PartPixel(k, LineOf(i, c, row, col), c)

LinesOK(k) ==
  Moves(k) =>
    HasLines(k, lineBuff[k], Row(<<"process", k>>), Col(<<"process", k>>))

(* A window that has just taken in pixel x of line y shows what is around. *)
Shows(k, w, y, x) ==
  \A i \in Win : \A j \in Win :
    InPart(k, y - 2 * Radius + i, x - 2 * Radius + j) =>
      w[i][j] = PartPixel(k, y - 2 * Radius + i, x - 2 * Radius + j)

WindowOK(k) ==
  Moves(k) /\ Col(<<"process", k>>) <= LoadCols(k) =>
    Shows(k, winTmp[k], Row(<<"process", k>>), Col(<<"process", k>>) - 1)

PartsOK ==
  \A k \in Parts : /\ SplitOK(k) /\ AssembleOK(k)
                   /\ PixelOK(k) /\ LinesOK(k) /\ WindowOK(k)

(* The last word collect wrote holds its windows of the image.             *)
OutOK ==
  Collected > 0 =>
    \A l \in Lanes : HasWindow(LastLine, LastWord, l) =>
      out[l] = Stored(Neighbourhood(LastLine, LastWord * Vect + l,
                                    SplitOrder(CollectsFrom(LastWord))))

IInv ==
  /\ call \in Call /\ CutsAgree
  /\ LoopsOK /\ ShapesOK /\ StreamsOK /\ PartsOK /\ OutOK

-----------------------------------------------------------------------------
(* A step keeps the layout.                                                *)
LEMMA CallStays ==
  ASSUME call' = call
  PROVE  /\ Vect' = Vect /\ Radius' = Radius /\ Kernel' = Kernel
         /\ Overhang' = Overhang /\ Parts' = Parts /\ Lanes' = Lanes /\ Win' = Win
         /\ PartWords' = PartWords
         /\ Process' = Process /\ Streams' = Streams
         /\ \A k : Kind(k)' = Kind(k)
         /\ \A k : SplitOrder(k)' = SplitOrder(k)
         /\ \A k : WordsOf(k)' = WordsOf(k)
         /\ \A k : WidthOf(k)' = WidthOf(k)
         /\ \A k : Left(k)' = Left(k)
         /\ \A k : FirstWord(k)' = FirstWord(k)
         /\ \A k : WordsIn(k)' = WordsIn(k)
         /\ \A k : FirstPixel(k)' = FirstPixel(k)
         /\ \A k : PixelsIn(k)' = PixelsIn(k)
         /\ \A k : Skip(k)' = Skip(k)
         /\ \A k : Delay(k)' = Delay(k)
         /\ \A k : LoadCols(k)' = LoadCols(k)
  <1>1. /\ Vect' = Vect /\ Radius' = Radius /\ Kernel' = Kernel
        /\ Overhang' = Overhang /\ Parts' = Parts /\ Lanes' = Lanes /\ Win' = Win
        /\ PartWords' = PartWords /\ LeftSkip' = LeftSkip
    BY DEF Vect, Radius, Kernel, Overhang, Parts, Lanes, Win, PartWords, LeftSkip
  <1>2. Process' = Process /\ Streams' = Streams
    BY <1>1 DEF Process, Streams
  <1>3. \A k : Kind(k)' = Kind(k)
    BY DEF Kind
  <1>4. \A k : WordsOf(k)' = WordsOf(k)
    BY <1>1 DEF WordsOf
  <1>5. \A k : WidthOf(k)' = WidthOf(k)
    BY <1>1, <1>4 DEF WidthOf
  <1>6. \A k : Left(k)' = Left(k)
    BY <1>1 DEF Left
  <1>7. \A k : FirstWord(k)' = FirstWord(k)
    BY <1>1, <1>6 DEF FirstWord
  <1>8. \A k : WordsIn(k)' = WordsIn(k)
    BY <1>1, <1>3, <1>4 DEF WordsIn
  <1>9. \A k : FirstPixel(k)' = FirstPixel(k)
    BY <1>1, <1>6 DEF FirstPixel
  <1>10. \A k : PixelsIn(k)' = PixelsIn(k)
    BY <1>1, <1>3, <1>5 DEF PixelsIn
  <1>11. \A k : Skip(k)' = Skip(k) /\ Delay(k)' = Delay(k)
    BY <1>1 DEF Skip, Delay
  <1>12. \A k : LoadCols(k)' = LoadCols(k)
    BY <1>1, <1>5, <1>10 DEF LoadCols
  <1>13. \A k : SplitOrder(k)' = SplitOrder(k)
    BY <1>3 DEF SplitOrder, Packed, Reversed
  <1> QED
    BY <1>1, <1>2, <1>3, <1>4, <1>5, <1>6, <1>7, <1>8, <1>9, <1>10, <1>11, <1>12,
       <1>13

LEMMA CutsStay ==
  ASSUME call' = call, CutsAgree
  PROVE  CutsAgree'
  BY DEF CutsAgree, DealtWords, PartWords

LEMMA LoopsStay ==
  ASSUME call' = call
  PROVE  /\ \A p : Columns(p)' = Columns(p)
         /\ \A p : Lines(p)' = Lines(p)
  <1>1. /\ Vect' = Vect /\ Radius' = Radius /\ Overhang' = Overhang
        /\ \A k : WidthOf(k)' = WidthOf(k)
    BY CallStays
  <1> QED
    BY <1>1 DEF Columns, Lines

LEMMA ContentsStay ==
  ASSUME call' = call
  PROVE  /\ Pixels' = Pixels /\ Windows' = Windows /\ Words' = Words
         /\ Results' = Results
         /\ \A t : Payload(t)' = Payload(t)
         /\ \A k : Buffers(k)' = Buffers(k)
         /\ \A y, x, b : Neighbourhood(y, x, b)' = Neighbourhood(y, x, b)
         /\ \A k, y, x : IsExact(k, y, x)' = IsExact(k, y, x)
         /\ \A k, y, x, w : Fits(k, y, x, w)' = Fits(k, y, x, w)
         /\ \A k, y, x, r : LaneFits(k, y, x, r)' = LaneFits(k, y, x, r)
         /\ \A k, y, c, v : WordFits(k, y, c, v)' = WordFits(k, y, c, v)
         /\ \A s : Contents(s)' = Contents(s)
  <1>1. /\ Vect' = Vect /\ Radius' = Radius /\ Kernel' = Kernel
        /\ Lanes' = Lanes /\ Win' = Win
        /\ \A k : WordsOf(k)' = WordsOf(k)
        /\ \A k : WidthOf(k)' = WidthOf(k)
        /\ \A k : Left(k)' = Left(k)
        /\ \A k : FirstWord(k)' = FirstWord(k)
        /\ \A k : WordsIn(k)' = WordsIn(k)
        /\ \A k : FirstPixel(k)' = FirstPixel(k)
        /\ \A k : PixelsIn(k)' = PixelsIn(k)
        /\ \A k : SplitOrder(k)' = SplitOrder(k)
    BY CallStays
  <1>2. Pixels' = Pixels /\ Words' = Words
    BY <1>1 DEF Pixels, Words, Orders, Junk, NoWord
  <1>3. Windows' = Windows /\ Results' = Results
    <2>1. Windows' = Windows
      BY <1>1, <1>2 DEF Windows
    <2> QED
      BY <2>1 DEF Results, Orders
  <1>4. \A t : Payload(t)' = Payload(t)
    BY <1>1, <1>2, <1>3 DEF Payload
  <1>5. \A k : Buffers(k)' = Buffers(k)
    BY <1>1, <1>2 DEF Buffers
  <1>6. \A y, x, b : Neighbourhood(y, x, b)' = Neighbourhood(y, x, b)
    BY <1>1 DEF Neighbourhood
  <1>7. \A k, y, x : IsExact(k, y, x)' = IsExact(k, y, x)
    BY <1>1 DEF IsExact
  <1>8. \A k, y, x, w : Fits(k, y, x, w)' = Fits(k, y, x, w)
    BY <1>1, <1>6, <1>7 DEF Fits
  <1>9. \A k, y, x, r : LaneFits(k, y, x, r)' = LaneFits(k, y, x, r)
    BY <1>1, <1>6, <1>7 DEF LaneFits, Stored, Reversed
  <1>10. \A k, y, c, v : WordFits(k, y, c, v)' = WordFits(k, y, c, v)
    BY <1>1, <1>9 DEF WordFits
  <1>11. \A s : Contents(s)' = Contents(s)
    <2>1. \A s, n : Promised(s, n)' = Promised(s, n)
      BY <1>1, <1>3, <1>8, <1>10 DEF Promised
    <2> QED
      BY <2>1 DEF Contents
  <1> QED
    BY <1>2, <1>3, <1>4, <1>5, <1>6, <1>7, <1>8, <1>9, <1>10, <1>11

-----------------------------------------------------------------------------
(* The loops.                                                              *)
LEMMA ProcessIs ==
  /\ Distributor \in Process /\ Collector \in Process
  /\ \A k \in Parts : /\ <<"split", k>> \in Process
                      /\ <<"process", k>> \in Process
                      /\ <<"assemble", k>> \in Process
  /\ \A p \in Process : \/ p = Distributor
                        \/ p = Collector
                        \/ \E k \in Parts : \/ p = <<"split", k>>
                                            \/ p = <<"process", k>>
                                            \/ p = <<"assemble", k>>
  BY DEF Process

LEMMA LoopIs ==
  /\ Columns(Distributor) = call.width + 2 * Overhang * Vect
  /\ Columns(Collector) = call.width
  /\ Lines(Distributor) = call.height /\ Lines(Collector) = call.height
  /\ \A k : /\ Columns(<<"split", k>>) = WidthOf(k) + 2 * Overhang * Vect
            /\ Columns(<<"process", k>>) = WidthOf(k) + 2 * Radius
            /\ Columns(<<"assemble", k>>) = WidthOf(k) + 2 * Overhang * Vect
            /\ Lines(<<"split", k>>) = call.height
            /\ Lines(<<"process", k>>) = call.height + Radius
            /\ Lines(<<"assemble", k>>) = call.height
  BY DEF Columns, Lines, Distributor, Collector

LEMMA LoopFacts ==
  ASSUME call \in Call, NEW p \in Process
  PROVE  Columns(p) \in Nat \ {0} /\ Lines(p) \in Nat
  <1>1. /\ Radius \in Nat \ {0} /\ call.width \in Nat /\ call.height \in Nat
        /\ call.parts \in Nat \ {0, 1}
    BY CallFacts
  <1>2. 2 * Overhang * Vect \in Nat /\ Overhang \in Nat \ {0}
    BY OverhangFacts
  <1>3. \A k \in Parts : WidthOf(k) \in Nat
    BY PixelFacts
  <1>4. call.width >= 1
    <2>1. 1 \in Parts /\ 1 < call.parts
      BY <1>1 DEF Parts
    <2>2. /\ WordsOf(1) \in Nat /\ Left(1) \in Nat
          /\ Left(1) + WordsOf(1) + 2 * Overhang <= call.width
      BY <2>1, PartFacts
    <2> QED
      BY <1>1, <1>2, <2>2
  <1>5. \A k \in Parts : WidthOf(k) + 2 * Overhang * Vect \in Nat \ {0}
    <2>1. SUFFICES ASSUME NEW k \in Parts
                   PROVE  WidthOf(k) + 2 * Overhang * Vect \in Nat \ {0}
      OBVIOUS
    <2>2. 2 * Overhang * Vect = Overhang * Vect + Overhang * Vect
      BY OverhangFacts
    <2>3. Overhang * Vect = Radius + LeftSkip /\ LeftSkip \in Nat
      BY OverhangFacts
    <2>4. WidthOf(k) \in Nat
      BY <1>3
    <2> QED
      BY <1>1, <2>2, <2>3, <2>4
  <1> HIDE DEF Overhang, Vect, Radius, WidthOf
  <1>6. CASE p = Distributor
    BY <1>1, <1>2, <1>4, <1>6, LoopIs
  <1>7. CASE p = Collector
    BY <1>1, <1>4, <1>7, LoopIs
  <1>8. CASE \E k \in Parts : \/ p = <<"split", k>>
                              \/ p = <<"process", k>>
                              \/ p = <<"assemble", k>>
    <2>1. PICK k \in Parts : \/ p = <<"split", k>>
                             \/ p = <<"process", k>>
                             \/ p = <<"assemble", k>>
      BY <1>8
    <2>2. WidthOf(k) + 2 * Radius \in Nat \ {0} /\ call.height + Radius \in Nat
      BY <1>1, <1>3
    <2>3. WidthOf(k) + 2 * Overhang * Vect \in Nat \ {0}
      BY <1>5
    <2> QED
      BY <1>1, <2>1, <2>2, <2>3, LoopIs
  <1> QED
    BY <1>6, <1>7, <1>8, ProcessIs

AfterRow(p) == IF Col(p) + 1 < Columns(p) THEN Row(p) ELSE Row(p) + 1
AfterCol(p) == IF Col(p) + 1 < Columns(p) THEN Col(p) + 1 ELSE 0

LEMMA LoopTypes ==
  ASSUME call \in Call, LoopsOK, NEW p \in Process
  PROVE  /\ Row(p) \in Nat /\ Col(p) \in Nat
         /\ Row(p) <= Lines(p) /\ Col(p) < Columns(p)
         /\ Columns(p) \in Nat \ {0} /\ Lines(p) \in Nat
         /\ Finished(p) => Col(p) = 0
         /\ ~Finished(p) => Row(p) < Lines(p)
  <1>1. pos[p] \in [row : Nat, col : Nat]
    BY DEF LoopsOK
  <1>2. Row(p) \in Nat /\ Col(p) \in Nat
    BY <1>1 DEF Row, Col
  <1>3. Columns(p) \in Nat \ {0} /\ Lines(p) \in Nat
    BY LoopFacts
  <1>4. Row(p) <= Lines(p) /\ Col(p) < Columns(p) /\ (Finished(p) => Col(p) = 0)
    BY DEF LoopsOK
  <1>5. ~Finished(p) => Row(p) < Lines(p)
    BY <1>2, <1>3, <1>4 DEF Finished
  <1> QED
    BY <1>2, <1>3, <1>4, <1>5

LEMMA Advanced ==
  ASSUME call \in Call, LoopsOK, NEW p \in Process, Advance(p)
  PROVE  /\ Row(p)' = AfterRow(p) /\ Col(p)' = AfterCol(p)
         /\ \A q \in Process : q # p => Row(q)' = Row(q) /\ Col(q)' = Col(q)
         /\ pos' \in [Process -> [row : Nat, col : Nat]]
  <1>1. pos \in [Process -> [row : Nat, col : Nat]]
    BY DEF LoopsOK
  <1>2. Row(p) \in Nat /\ Col(p) \in Nat
    BY LoopTypes
  <1>3. pos' = [pos EXCEPT ![p] = [row |-> AfterRow(p), col |-> AfterCol(p)]]
    BY DEF Advance, AfterRow, AfterCol
  <1>4. AfterRow(p) \in Nat /\ AfterCol(p) \in Nat
    BY <1>2 DEF AfterRow, AfterCol
  <1> HIDE DEF AfterRow, AfterCol
  <1>5. [row |-> AfterRow(p), col |-> AfterCol(p)] \in [row : Nat, col : Nat]
    BY <1>4
  <1>6. pos' \in [Process -> [row : Nat, col : Nat]]
    BY <1>1, <1>3, <1>5
  <1>7. pos'[p] = [row |-> AfterRow(p), col |-> AfterCol(p)]
    BY <1>1, <1>3
  <1>8. \A q \in Process : q # p => pos'[q] = pos[q]
    BY <1>1, <1>3
  <1> QED
    BY <1>6, <1>7, <1>8 DEF Row, Col

(* After a step the loop is one column on, or at the start of the next     *)
(* line.                                                                   *)
LEMMA Moving ==
  ASSUME call \in Call, LoopsOK, NEW p \in Process, ~Finished(p)
  PROVE  \/ /\ AfterRow(p) = Row(p) /\ AfterCol(p) = Col(p) + 1
            /\ Col(p) + 1 < Columns(p)
         \/ /\ AfterRow(p) = Row(p) + 1 /\ AfterCol(p) = 0
            /\ Col(p) + 1 = Columns(p)
  BY LoopTypes DEF AfterRow, AfterCol

LEMMA LoopsStep ==
  ASSUME call \in Call, LoopsOK, NEW p \in Process, ~Finished(p), Advance(p),
         call' = call
  PROVE  LoopsOK'
  <1>1. /\ Row(p)' = AfterRow(p) /\ Col(p)' = AfterCol(p)
        /\ \A q \in Process : q # p => Row(q)' = Row(q) /\ Col(q)' = Col(q)
        /\ pos' \in [Process -> [row : Nat, col : Nat]]
    BY Advanced
  <1>2. /\ Process' = Process
        /\ \A q : Columns(q)' = Columns(q)
        /\ \A q : Lines(q)' = Lines(q)
    BY CallStays, LoopsStay
  <1>3. /\ Row(p) \in Nat /\ Col(p) \in Nat
        /\ Row(p) <= Lines(p) /\ Col(p) < Columns(p)
        /\ Columns(p) \in Nat \ {0} /\ Lines(p) \in Nat
        /\ Row(p) < Lines(p)
    BY LoopTypes
  <1>4. /\ AfterRow(p) <= Lines(p) /\ AfterCol(p) < Columns(p)
        /\ AfterRow(p) = Lines(p) => AfterCol(p) = 0
    BY <1>3 DEF AfterRow, AfterCol
  <1>5. ASSUME NEW q \in Process
        PROVE  /\ Row(q)' <= Lines(q) /\ Col(q)' < Columns(q)
               /\ Row(q)' = Lines(q) => Col(q)' = 0
    <2>1. CASE q = p
      BY <1>1, <1>4, <2>1
    <2>2. CASE q # p
      <3>1. /\ Row(q) <= Lines(q) /\ Col(q) < Columns(q)
            /\ Row(q) = Lines(q) => Col(q) = 0
        BY DEF LoopsOK, Finished
      <3> QED
        BY <1>1, <2>2, <3>1
    <2> QED
      BY <2>1, <2>2
  <1>6. \A q \in Process : Finished(q)' <=> Row(q)' = Lines(q)
    BY <1>2 DEF Finished
  <1>7. ASSUME NEW q \in Process'
        PROVE  /\ Row(q)' <= Lines(q)' /\ Col(q)' < Columns(q)'
               /\ Finished(q)' => Col(q)' = 0
    BY <1>2, <1>5, <1>6, <1>7
  <1> QED
    BY <1>1, <1>2, <1>7 DEF LoopsOK

-----------------------------------------------------------------------------
(* Which words a part gets.                                                *)
LEMMA WordFacts ==
  ASSUME call \in Call, NEW k \in Parts
  PROVE  /\ FirstWord(k) \in Nat /\ WordsIn(k) \in Nat \ {0}
         /\ k = 1 => FirstWord(k) = 0
         /\ k # 1 => FirstWord(k) = Left(k) - Overhang
         /\ k < call.parts => FirstWord(k) + WordsIn(k) = k * PartWords + Overhang
         /\ k = call.parts => FirstWord(k) + WordsIn(k) = call.width
         /\ FirstWord(k) + WordsIn(k) <= call.width
  <1>1. /\ k \in Nat \ {0} /\ k <= call.parts
        /\ Left(k) \in Nat /\ WordsOf(k) \in Nat
        /\ WordsOf(k) >= 2 * Overhang
        /\ k > 1 => Left(k) >= 2 * Overhang
        /\ k < call.parts => /\ Left(k) + WordsOf(k) = k * PartWords
                             /\ Left(k) + WordsOf(k) + 2 * Overhang <= call.width
        /\ k = call.parts => Left(k) + WordsOf(k) = call.width
        /\ k = 1 => Left(k) = 0
    BY PartFacts
  <1>2. Overhang \in Nat \ {0} /\ call.width \in Nat /\ call.parts \in Nat \ {0, 1}
    BY OverhangFacts, CallFacts
  <1>3. WordsIn(k) = IF k # 1 /\ k # call.parts THEN WordsOf(k) + 2 * Overhang
                     ELSE WordsOf(k) + Overhang
    BY KindIs DEF WordsIn
  <1>4. FirstWord(k) = IF k = 1 THEN 0 ELSE Left(k) - Overhang
    BY DEF FirstWord
  <1>5. PICK e : e = k * PartWords
    OBVIOUS
  <1> HIDE DEF Overhang, Left, WordsOf, FirstWord, WordsIn
  <1> QED
    BY <1>1, <1>2, <1>3, <1>4, <1>5

LEMMA TargetsIs ==
  ASSUME call \in Call, CutsAgree, NEW k \in Parts, NEW c \in Nat, c < call.width
  PROVE  k \in Targets(c) <=> c - FirstWord(k) \in 0..(WordsIn(k) - 1)
  <1> DEFINE ahead == {j \in 1..(call.parts - 1) : c < j * PartWords + Overhang}
             first == CHOOSE j \in ahead : \A l \in ahead : j <= l
  <1>1. /\ call.parts \in Nat \ {0, 1} /\ Overhang \in Nat \ {0} /\ PartWords \in Nat
        /\ PartWords >= 2 * Overhang /\ call.width \in Nat
    BY CallFacts, OverhangFacts
  <1>2. k \in 1..call.parts /\ call.parts \in Parts
    BY <1>1 DEF Parts
  <1>3. /\ FirstWord(k) \in Nat /\ WordsIn(k) \in Nat \ {0}
        /\ k = 1 => FirstWord(k) = 0
        /\ k # 1 => FirstWord(k) = Left(k) - Overhang
        /\ k < call.parts => FirstWord(k) + WordsIn(k) = k * PartWords + Overhang
        /\ k = call.parts => FirstWord(k) + WordsIn(k) = call.width
    BY WordFacts
  <1>4. \A j \in Parts : /\ Left(j) \in Nat
                         /\ j < call.parts => j * PartWords = Left(j) + PartWords
    <2>1. SUFFICES ASSUME NEW j \in Parts
                   PROVE  /\ Left(j) \in Nat
                          /\ j < call.parts => j * PartWords = Left(j) + PartWords
      OBVIOUS
    <2>2. /\ Left(j) \in Nat
          /\ j < call.parts => /\ WordsOf(j) = PartWords
                               /\ Left(j) + WordsOf(j) = j * PartWords
      BY PartFacts
    <2> QED
      BY <2>2
  <1>5. \A j \in 1..(call.parts - 1) : Left(j + 1) = j * PartWords
    BY <1>1 DEF Left
  <1>6. CASE ahead = {}
    <2>1. Targets(c) = {call.parts}
      BY <1>6 DEF Targets, CutsAgree
    <2>2. \A j \in 1..(call.parts - 1) : c >= j * PartWords + Overhang
      <3>1. SUFFICES ASSUME NEW j \in 1..(call.parts - 1)
                     PROVE  c >= j * PartWords + Overhang
        OBVIOUS
      <3>2. ~(c < j * PartWords + Overhang)
        BY <1>6
      <3>3. j * PartWords \in Nat
        BY <1>1, OneMore
      <3> QED
        BY <1>1, <3>2, <3>3
    <2>3. CASE k = call.parts
      <3>1. k - 1 \in 1..(call.parts - 1) /\ k = (k - 1) + 1
        BY <1>1, <2>3
      <3>2. c >= (k - 1) * PartWords + Overhang /\ Left(k) = (k - 1) * PartWords
        BY <2>2, <3>1 DEF Left
      <3>3. Left(k) \in Nat
        BY <1>4
      <3> QED
        BY <1>1, <1>3, <2>1, <2>3, <3>1, <3>2, <3>3
    <2>4. CASE k # call.parts
      <3>1. k \in 1..(call.parts - 1)
        BY <1>1, <1>2, <2>4
      <3>2. c >= k * PartWords + Overhang
        BY <2>2, <3>1
      <3>3. k * PartWords \in Nat
        BY <1>1, <1>2, OneMore
      <3> QED
        BY <1>1, <1>3, <2>1, <2>4, <3>1, <3>2, <3>3
    <2> QED
      BY <2>3, <2>4
  <1>7. CASE ahead # {}
    <2>1. \E j \in ahead : \A l \in ahead : j <= l
      <3>1. ahead \subseteq Nat
        BY <1>1
      <3> HIDE DEF ahead
      <3> QED
        BY <1>7, <3>1, LeastOf
    <2>2. first \in ahead /\ \A l \in ahead : first <= l
      <3> HIDE DEF ahead
      <3> QED
        BY <2>1
    <2>3. Targets(c) = IF c < first * PartWords - Overhang THEN {first}
                       ELSE {first, first + 1}
      BY <1>7 DEF Targets, CutsAgree
    <2> HIDE DEF first
    <2>4. PICK j : j = first
      OBVIOUS
    <2>5. j \in 1..(call.parts - 1) /\ c < j * PartWords + Overhang
      BY <2>2, <2>4
    <2>6. \A l \in 1..(call.parts - 1) : l < j => c >= l * PartWords + Overhang
      <3>1. SUFFICES ASSUME NEW l \in 1..(call.parts - 1), l < j
                     PROVE  c >= l * PartWords + Overhang
        OBVIOUS
      <3>2. l \notin ahead
        <4>1. ~(j <= l)
          BY <2>5, <3>1
        <4> HIDE DEF ahead
        <4> QED
          BY <2>2, <2>4, <4>1
      <3>3. l * PartWords \in Nat
        BY <1>1, OneMore
      <3> QED
        BY <1>1, <3>1, <3>2, <3>3
    <2>7. PICK e \in Nat : e = j * PartWords
      <3>1. j * PartWords \in Nat
        BY <1>1, <2>5, OneMore
      <3> QED
        BY <3>1
    <2>8. Targets(c) = IF c < e - Overhang THEN {j} ELSE {j, j + 1}
      BY <2>3, <2>4, <2>7
    <2>9. j \in Parts /\ j + 1 \in Parts /\ j \in Nat \ {0} /\ j < call.parts
      BY <1>1, <2>5 DEF Parts
    <2>10. c < e + Overhang /\ Left(j + 1) = e /\ e = Left(j) + PartWords
           /\ Left(j) \in Nat
      BY <1>4, <1>5, <2>5, <2>7, <2>9
    <2>11. CASE k < j
      <3>1. k \in 1..(call.parts - 1)
        BY <1>1, <1>2, <2>5, <2>11
      <3>2. c >= k * PartWords + Overhang /\ k * PartWords \in Nat
        BY <1>1, <1>2, <2>6, <2>11, <3>1, OneMore
      <3>3. PICK d \in Nat : d = k * PartWords
        BY <3>2
      <3>4. ~(c - FirstWord(k) \in 0..(WordsIn(k) - 1))
        BY <1>1, <1>3, <3>1, <3>2, <3>3
      <3>5. k \notin {j, j + 1}
        BY <1>2, <2>9, <2>11
      <3> QED
        BY <2>8, <3>4, <3>5
    <2>12. CASE k = j
      <3>1. k \in Targets(c)
        BY <2>8, <2>12
      <3>2. FirstWord(k) <= c
        <4>1. CASE k = 1
          BY <1>3, <4>1
        <4>2. CASE k # 1
          <5>1. k - 1 \in 1..(call.parts - 1) /\ k - 1 < j
            BY <1>2, <1>1, <2>9, <2>12, <4>2
          <5>2. c >= (k - 1) * PartWords + Overhang /\ Left(k) = (k - 1) * PartWords
            BY <2>6, <5>1 DEF Left
          <5>3. Left(k) \in Nat
            BY <1>4
          <5> QED
            BY <1>1, <1>3, <4>2, <5>2, <5>3
        <4> QED
          BY <4>1, <4>2
      <3>3. FirstWord(k) + WordsIn(k) = e + Overhang
        BY <1>3, <2>7, <2>9, <2>12
      <3> QED
        BY <1>1, <1>3, <2>10, <3>1, <3>2, <3>3
    <2>13. CASE k = j + 1
      <3>1. k \in Targets(c) <=> ~(c < e - Overhang)
        BY <2>8, <2>9, <2>13
      <3>2. k # 1 /\ FirstWord(k) = e - Overhang
        BY <1>3, <2>9, <2>10, <2>13
      <3>3. c < FirstWord(k) + WordsIn(k)
        <4>1. CASE k = call.parts
          BY <1>3, <4>1
        <4>2. CASE k # call.parts
          <5>1. k < call.parts /\ k * PartWords = Left(k) + PartWords
            BY <1>1, <1>2, <1>4, <4>2
          <5>2. Left(k) = e
            BY <2>10, <2>13
          <5> QED
            BY <1>1, <1>3, <2>10, <5>1, <5>2
        <4> QED
          BY <4>1, <4>2
      <3> QED
        BY <1>1, <1>3, <3>1, <3>2, <3>3
    <2>14. CASE k > j + 1
      <3>1. k # 1 /\ k \notin {j, j + 1}
        BY <1>2, <2>9, <2>14
      <3>2. Left(j + 1) + PartWords <= Left(k)
        <4>1. j + 1 < k
          BY <1>2, <2>9, <2>14
        <4> QED
          BY <2>9, <4>1, PartsFollow
      <3>3. Left(k) \in Nat
        BY <1>4
      <3>4. c < FirstWord(k)
        BY <1>1, <1>3, <2>10, <3>1, <3>2, <3>3
      <3> QED
        BY <1>3, <2>8, <3>1, <3>4
    <2> QED
      BY <1>2, <2>9, <2>11, <2>12, <2>13, <2>14
  <1> QED
    BY <1>6, <1>7

-----------------------------------------------------------------------------
(* The counts go on with the loops.                                        *)

(* Column c of row r, and the column after it in a loop of C columns.      *)
Follows(q, e, r, c, C) ==
  \/ q = r /\ e = c + 1 /\ c + 1 < C
  \/ q = r + 1 /\ e = 0 /\ c + 1 = C

LEMMA MovingOn ==
  ASSUME call \in Call, LoopsOK, NEW p \in Process, ~Finished(p)
  PROVE  Follows(AfterRow(p), AfterCol(p), Row(p), Col(p), Columns(p))
  BY Moving DEF Follows

One(b) == IF b THEN 1 ELSE 0

(* Of C columns, the n from column o on are counted.                       *)
LEMMA LineCount ==
  ASSUME NEW n \in Nat, NEW o \in Nat, NEW C \in Nat, o + n <= C,
         NEW r \in Nat, NEW c \in Nat, c < C, NEW q \in Nat, NEW e \in Nat,
         Follows(q, e, r, c, C)
  PROVE  Line(n, o, q, e) = Line(n, o, r, c) + One(c - o \in 0..(n - 1))
  <1>1. PICK d \in {0, 1} : d = IF c - o \in 0..(n - 1) THEN 1 ELSE 0
    OBVIOUS
  <1>2. PICK f \in Nat : f = Within(c - o, n)
    BY WithinStep
  <1>3. PICK g \in Nat : g = Within(e - o, n)
    BY WithinStep
  <1>4. CASE q = r /\ e = c + 1
    <2>1. e - o = (c - o) + 1
      BY <1>4
    <2>2. Within((c - o) + 1, n) = f + d
      <3>1. Within((c - o) + 1, n) =
              Within(c - o, n) + (IF c - o \in 0..(n - 1) THEN 1 ELSE 0)
        <4>1. c - o \in Int
          OBVIOUS
        <4> QED
          BY <4>1, WithinStep
      <3> QED
        BY <1>1, <1>2, <3>1
    <2>3. g = f + d
      BY <1>3, <2>1, <2>2
    <2>4. q * n + g = (r * n + f) + d
      BY <1>4, <2>3, CountStep
    <2> QED
      BY <1>1, <1>2, <1>3, <2>4 DEF Line, One
  <1>5. CASE q = r + 1 /\ e = 0 /\ c + 1 = C
    <2>1. e - o <= 0 /\ (c - o) + 1 >= n /\ c - o \in Int /\ e - o \in Int
      BY <1>5
    <2>2. g = 0
      BY <1>3, <2>1, WithinStep
    <2>3. f + d = n
      <3>1. Within((c - o) + 1, n) = n
        BY <2>1, WithinStep
      <3>2. Within((c - o) + 1, n) =
              Within(c - o, n) + (IF c - o \in 0..(n - 1) THEN 1 ELSE 0)
        BY <2>1, WithinStep
      <3> QED
        BY <1>1, <1>2, <3>1, <3>2
    <2>4. q * n + g = (r * n + f) + d
      BY <1>5, <2>2, <2>3, CountStep
    <2> QED
      BY <1>1, <1>2, <1>3, <2>4 DEF Line, One
  <1> QED
    BY <1>4, <1>5 DEF Follows

(* Of a line of n words, a word is counted when its first pixel is, ...    *)
LEMMA BegunCount ==
  ASSUME NEW V \in Nat \ {0}, NEW n \in Nat, NEW C \in Nat, n * V <= C,
         NEW r \in Nat, NEW c \in Nat, c < C, NEW q \in Nat, NEW e \in Nat,
         Follows(q, e, r, c, C)
  PROVE  LineBegun(n, V, q, e) =
           LineBegun(n, V, r, c) + One(c % V = 0 /\ c < n * V)
  <1>1. PICK d \in {0, 1} : d = IF c % V = 0 /\ c < n * V THEN 1 ELSE 0
    OBVIOUS
  <1>2. /\ Begun(c, V) \in Nat
        /\ c % V = 0 => Begun(c, V) = c \div V
        /\ Begun(c + 1, V) = c \div V + 1
        /\ c % V # 0 => Begun(c, V) = c \div V + 1
        /\ Begun(0, V) = 0
    BY BegunIs
  <1>3. c < n * V <=> c \div V < n
    BY WordIsIn
  <1>4. c \div V \in Nat
    BY Quotient
  <1>5. PICK f \in Nat : f = Min2(Begun(c, V), n)
    BY <1>2 DEF Min2
  <1>6. Min2(Begun(c + 1, V), n) = f + d
    BY <1>1, <1>2, <1>3, <1>4, <1>5 DEF Min2
  <1>7. CASE q = r /\ e = c + 1
    <2>1. q * n + (f + d) = (r * n + f) + d
      <3>1. f + d \in Nat
        BY <1>1, <1>5
      <3> QED
        BY <1>7, <3>1, CountStep
    <2> QED
      BY <1>1, <1>5, <1>6, <1>7, <2>1 DEF LineBegun, One
  <1>8. CASE q = r + 1 /\ e = 0 /\ c + 1 = C
    <2>1. n <= c \div V + 1
      <3>1. SUFFICES ASSUME c \div V + 1 < n
                     PROVE  FALSE
        BY <1>4
      <3>2. PICK b \in Nat : b = c \div V
        BY <1>4
      <3>3. PICK m \in 0..(V - 1) : c = b * V + m
        <4>1. c % V \in 0..(V - 1) /\ c = (c \div V) * V + (c % V)
          BY Quotient
        <4> QED
          BY <3>2, <4>1
      <3>4. (b + 1) * V = b * V + V /\ b * V \in Nat
            /\ (b + 1 + 1) * V = (b + 1) * V + V
        BY OneMore
      <3>5. (b + 1 + 1) * V <= n * V
        <4>1. b + 1 + 1 \in Nat /\ b + 1 + 1 <= n
          BY <3>1, <3>2
        <4> QED
          BY <4>1, Product
      <3>6. n * V \in Nat
        BY OneMore
      <3> QED
        BY <1>8, <3>3, <3>4, <3>5, <3>6
    <2>2. f + d = n
      BY <1>2, <1>4, <1>6, <2>1 DEF Min2
    <2>3. Min2(Begun(e, V), n) = 0
      BY <1>2, <1>8 DEF Min2
    <2>4. q * n + 0 = (r * n + f) + d
      BY <1>8, <2>2, CountStep
    <2> QED
      BY <1>1, <1>5, <1>8, <2>3, <2>4 DEF LineBegun, One
  <1> QED
    BY <1>7, <1>8 DEF Follows

(* ... or when its last pixel is.                                          *)
LEMMA EndedCount ==
  ASSUME NEW V \in Nat \ {0}, NEW n \in Nat, NEW C \in Nat, n * V <= C,
         NEW r \in Nat, NEW c \in Nat, c < C, NEW q \in Nat, NEW e \in Nat,
         Follows(q, e, r, c, C)
  PROVE  LineEnded(n, V, q, e) =
           LineEnded(n, V, r, c) + One(c % V = V - 1 /\ c < n * V)
  <1>1. PICK d \in {0, 1} : d = IF c % V = V - 1 /\ c < n * V THEN 1 ELSE 0
    OBVIOUS
  <1>2. IF c % V = V - 1 THEN (c + 1) \div V = c \div V + 1
                         ELSE (c + 1) \div V = c \div V
    BY NextPixel
  <1>3. c < n * V <=> c \div V < n
    BY WordIsIn
  <1>4. c \div V \in Nat /\ (c + 1) \div V \in Nat
    <2>1. c + 1 \in Nat
      OBVIOUS
    <2> QED
      BY <2>1, Quotient
  <1>5. PICK f \in Nat : f = Min2(c \div V, n)
    BY <1>4 DEF Min2
  <1>6. Min2((c + 1) \div V, n) = f + d
    BY <1>1, <1>2, <1>3, <1>4, <1>5 DEF Min2
  <1>7. CASE q = r /\ e = c + 1
    <2>1. q * n + (f + d) = (r * n + f) + d
      <3>1. f + d \in Nat
        BY <1>1, <1>5
      <3> QED
        BY <1>7, <3>1, CountStep
    <2> QED
      BY <1>1, <1>5, <1>6, <1>7, <2>1 DEF LineEnded, One
  <1>8. CASE q = r + 1 /\ e = 0 /\ c + 1 = C
    <2>1. ~((c + 1) \div V < n)
      <3>1. ~(c + 1 < n * V)
        <4>1. n * V \in Nat
          BY OneMore
        <4> QED
          BY <1>8, <4>1
      <3>2. c + 1 \in Nat
        OBVIOUS
      <3> QED
        BY <3>1, <3>2, WordIsIn
    <2>2. f + d = n
      BY <1>4, <1>6, <2>1 DEF Min2
    <2>3. Min2(e \div V, n) = 0
      <3>1. 0 \div V = 0
        OBVIOUS
      <3> QED
        BY <1>8, <3>1 DEF Min2
    <2>4. q * n + 0 = (r * n + f) + d
      BY <1>8, <2>2, CountStep
    <2> QED
      BY <1>1, <1>5, <1>8, <2>3, <2>4 DEF LineEnded, One
  <1> QED
    BY <1>7, <1>8 DEF Follows

-----------------------------------------------------------------------------
(* When the operators read and write.                                      *)
LEMMA PixelsInFacts ==
  ASSUME call \in Call, NEW k \in Parts
  PROVE  /\ PixelsIn(k) \in Nat \ {0} /\ FirstPixel(k) \in Nat
         /\ PixelsIn(k) = IF k # 1 /\ k # call.parts THEN WidthOf(k) + 2 * Radius
                          ELSE WidthOf(k) + Radius
         /\ WidthOf(k) >= 2 * Radius
         /\ FirstPixel(k) + PixelsIn(k) <= call.width * Vect
         /\ WordsIn(k) * Vect =
              IF k # 1 /\ k # call.parts THEN WidthOf(k) + 2 * (Overhang * Vect)
              ELSE WidthOf(k) + Overhang * Vect
         /\ FirstWord(k) * Vect = IF k = 1 THEN 0 ELSE Left(k) * Vect - Overhang * Vect
         /\ FirstWord(k) * Vect + Skip(k) = FirstPixel(k)
         /\ Skip(k) \in Nat /\ Skip(k) + PixelsIn(k) <= WordsIn(k) * Vect
  <1>1. /\ WidthOf(k) \in Nat /\ WidthOf(k) >= 2 * (Overhang * Vect)
        /\ Left(k) * Vect \in Nat /\ call.width * Vect \in Nat
        /\ k > 1 => Left(k) * Vect >= 2 * (Overhang * Vect)
        /\ k < call.parts =>
              Left(k) * Vect + WidthOf(k) + 2 * (Overhang * Vect) <= call.width * Vect
        /\ k = call.parts => Left(k) * Vect + WidthOf(k) = call.width * Vect
        /\ k = 1 => Left(k) * Vect = 0
    BY PixelFacts
  <1>2. /\ Overhang \in Nat \ {0} /\ Overhang * Vect \in Nat
        /\ LeftSkip \in Nat /\ Overhang * Vect = Radius + LeftSkip
    BY OverhangFacts
  <1>3. /\ Vect \in Nat \ {0} /\ Radius \in Nat \ {0} /\ call.parts \in Nat \ {0, 1}
    BY CallFacts
  <1>4. /\ k \in Nat \ {0} /\ k <= call.parts
        /\ Left(k) \in Nat /\ WordsOf(k) \in Nat
        /\ k > 1 => Left(k) >= 2 * Overhang
    BY PartFacts
  <1>5. PixelsIn(k) = IF k # 1 /\ k # call.parts THEN WidthOf(k) + 2 * Radius
                      ELSE WidthOf(k) + Radius
    BY KindIs DEF PixelsIn
  <1>6. WordsIn(k) = IF k # 1 /\ k # call.parts THEN WordsOf(k) + 2 * Overhang
                     ELSE WordsOf(k) + Overhang
    BY KindIs DEF WordsIn
  <1>7. WidthOf(k) = WordsOf(k) * Vect
    BY DEF WidthOf
  <1>8. FirstWord(k) = IF k = 1 THEN 0 ELSE Left(k) - Overhang
    BY DEF FirstWord
  <1>9. FirstPixel(k) = IF k = 1 THEN 0 ELSE Left(k) * Vect - Radius
    BY DEF FirstPixel
  <1>10. Skip(k) = IF k = 1 THEN 0 ELSE LeftSkip
    BY DEF Skip
  <1> HIDE DEF Overhang, Vect, Radius, LeftSkip, WidthOf, WordsOf, PixelsIn, WordsIn,
               FirstWord, FirstPixel, Left, Skip
  <1>11. WordsIn(k) * Vect =
           IF k # 1 /\ k # call.parts THEN WidthOf(k) + 2 * (Overhang * Vect)
           ELSE WidthOf(k) + Overhang * Vect
    <2>1. (WordsOf(k) + 2 * Overhang) * Vect = WordsOf(k) * Vect + 2 * (Overhang * Vect)
      BY <1>2, <1>3, <1>4
    <2>2. (WordsOf(k) + Overhang) * Vect = WordsOf(k) * Vect + Overhang * Vect
      BY <1>2, <1>3, <1>4
    <2>3. CASE k # 1 /\ k # call.parts
      BY <1>6, <1>7, <2>1, <2>3
    <2>4. CASE ~(k # 1 /\ k # call.parts)
      BY <1>6, <1>7, <2>2, <2>4
    <2> QED
      BY <2>3, <2>4
  <1>12. FirstWord(k) * Vect = IF k = 1 THEN 0 ELSE Left(k) * Vect - Overhang * Vect
    <2>1. CASE k = 1
      BY <1>3, <1>8, <2>1
    <2>2. CASE k # 1
      <3>1. FirstWord(k) = Left(k) - Overhang
        BY <1>8, <2>2
      <3>2. PICK m \in Nat : Left(k) = m + Overhang
        <4>1. Left(k) - Overhang \in Nat /\ Left(k) = (Left(k) - Overhang) + Overhang
          BY <1>2, <1>4, <2>2
        <4> QED
          BY <4>1
      <3>3. FirstWord(k) = m
        BY <1>2, <3>1, <3>2
      <3>4. (m + Overhang) * Vect = m * Vect + Overhang * Vect /\ m * Vect \in Nat
        BY <1>2, <1>3
      <3> QED
        BY <1>2, <2>2, <3>2, <3>3, <3>4
    <2> QED
      BY <2>1, <2>2
  <1>13. PICK O \in Nat : O = Overhang * Vect
    BY <1>2
  <1>14. PICK L \in Nat : L = Left(k) * Vect
    BY <1>1
  <1>15. PICK I \in Nat : I = call.width * Vect
    BY <1>1
  <1>16. PICK F : F = FirstWord(k) * Vect
    OBVIOUS
  <1>17. PICK N : N = WordsIn(k) * Vect
    OBVIOUS
  <1>18. PixelsIn(k) \in Nat \ {0} /\ FirstPixel(k) \in Nat
    BY <1>1, <1>2, <1>3, <1>4, <1>5, <1>9, <1>13, <1>14
  <1>19. WidthOf(k) >= 2 * Radius
    BY <1>1, <1>2, <1>3, <1>13
  <1>20. FirstPixel(k) + PixelsIn(k) <= I
    BY <1>1, <1>2, <1>3, <1>4, <1>5, <1>9, <1>13, <1>14, <1>15
  <1>21. F + Skip(k) = FirstPixel(k)
    BY <1>2, <1>3, <1>9, <1>10, <1>12, <1>13, <1>14, <1>16
  <1>22. Skip(k) \in Nat /\ Skip(k) + PixelsIn(k) <= N
    BY <1>1, <1>2, <1>3, <1>5, <1>10, <1>11, <1>13, <1>17
  <1> QED
    BY <1>5, <1>11, <1>12, <1>15, <1>16, <1>17, <1>18, <1>19, <1>20, <1>21, <1>22

LEMMA SplitReadsIs ==
  ASSUME call \in Call, NEW k \in Parts, NEW c \in Nat, c < Columns(<<"split", k>>)
  PROVE  SplitReads(k, c) <=> c % Vect = 0 /\ c < WordsIn(k) * Vect
  <1>1. WordsIn(k) * Vect =
          IF k # 1 /\ k # call.parts THEN WidthOf(k) + 2 * (Overhang * Vect)
          ELSE WidthOf(k) + Overhang * Vect
    BY PixelsInFacts
  <1>2. Overhang * Vect \in Nat /\ 2 * Overhang * Vect = Overhang * Vect + Overhang * Vect
    BY OverhangFacts
  <1>3. Columns(<<"split", k>>) = WidthOf(k) + 2 * Overhang * Vect
    BY LoopIs
  <1>4. SplitReads(k, c) <=> /\ c % Vect = 0
                             /\ ~(k # 1 /\ k # call.parts) =>
                                  c < WidthOf(k) + Overhang * Vect
    BY KindIs DEF SplitReads
  <1>5. WidthOf(k) \in Nat
    BY PixelFacts
  <1> HIDE DEF Vect, Overhang, WidthOf, WordsIn
  <1>6. PICK O \in Nat : O = Overhang * Vect
    BY <1>2
  <1>7. PICK D : D = 2 * Overhang * Vect
    OBVIOUS
  <1>8. PICK N : N = WordsIn(k) * Vect
    OBVIOUS
  <1>9. N = IF k # 1 /\ k # call.parts THEN WidthOf(k) + 2 * O ELSE WidthOf(k) + O
    BY <1>1, <1>6, <1>8
  <1>10. c < WidthOf(k) + (O + O)
    BY <1>2, <1>3, <1>6, <1>7
  <1>11. (~(k # 1 /\ k # call.parts) => c < WidthOf(k) + O) <=> c < N
    BY <1>5, <1>9, <1>10
  <1> QED
    BY <1>4, <1>6, <1>8, <1>11

LEMMA SplitWritesIs ==
  ASSUME call \in Call, NEW k \in Parts, NEW c \in Nat
  PROVE  SplitWrites(k, c) <=> c - Skip(k) \in 0..(PixelsIn(k) - 1)
  <1>1. /\ Overhang \in Nat \ {0} /\ Overhang * Vect \in Nat
        /\ LeftSkip \in Nat
        /\ Overhang * Vect = Radius + LeftSkip
        /\ (Overhang - 1) * Vect + RightKeep = Radius
        /\ (2 * Overhang - 1) * Vect + RightKeep = Overhang * Vect + Radius
    BY OverhangFacts
  <1>2. Vect \in Nat \ {0} /\ Radius \in Nat \ {0} /\ WidthOf(k) \in Nat
        /\ call.parts \in Nat \ {0, 1}
    BY CallFacts, PixelFacts
  <1>3. PixelsIn(k) = IF k # 1 /\ k # call.parts THEN WidthOf(k) + 2 * Radius
                      ELSE WidthOf(k) + Radius
    BY PixelsInFacts
  <1>4. Skip(k) = IF k = 1 THEN 0 ELSE LeftSkip
    BY DEF Skip
  <1>5. RightKeep \in Nat
    <2>1. Radius % Vect \in Nat
      BY <1>2, Quotient
    <2> QED
      BY <1>2, <2>1 DEF RightKeep
  <1>6. PICK A : A = (Overhang - 1) * Vect
    OBVIOUS
  <1>7. PICK B : B = (2 * Overhang - 1) * Vect
    OBVIOUS
  <1>8. A \in Int /\ B \in Int
    BY <1>1, <1>2, <1>6, <1>7
  <1>9. PICK O \in Nat : O = Overhang * Vect
    BY <1>1
  <1>10. CASE k = 1
    <2>1. SplitWrites(k, c) <=> c < WidthOf(k) + A + RightKeep
      BY <1>6, <1>10, KindIs DEF SplitWrites
    <2>2. A + RightKeep = Radius
      BY <1>1, <1>6
    <2> HIDE DEF Vect, Overhang, WidthOf, Radius, RightKeep, LeftSkip, PixelsIn, Skip
    <2>3. WidthOf(k) + A + RightKeep = WidthOf(k) + Radius
      BY <1>2, <1>5, <1>8, <2>2
    <2> QED
      BY <1>2, <1>3, <1>4, <1>10, <2>1, <2>3
  <1>11. CASE k # 1 /\ k # call.parts
    <2>1. SplitWrites(k, c) <=> c \in LeftSkip..(WidthOf(k) + B + RightKeep - 1)
      BY <1>7, <1>11, KindIs DEF SplitWrites
    <2>2. B + RightKeep = O + Radius
      BY <1>1, <1>7, <1>9
    <2>3. O = Radius + LeftSkip
      BY <1>1, <1>9
    <2> HIDE DEF Vect, Overhang, WidthOf, Radius, RightKeep, LeftSkip, PixelsIn, Skip
    <2>4. WidthOf(k) + B + RightKeep - 1 = LeftSkip + (WidthOf(k) + 2 * Radius) - 1
      BY <1>1, <1>2, <1>5, <1>8, <2>2, <2>3
    <2> QED
      BY <1>1, <1>2, <1>3, <1>4, <1>11, <2>1, <2>4
  <1>12. CASE k # 1 /\ k = call.parts
    <2>1. SplitWrites(k, c) <=> c \in LeftSkip..(WidthOf(k) + O - 1)
      BY <1>9, <1>12, KindIs DEF SplitWrites
    <2>2. O = Radius + LeftSkip
      BY <1>1, <1>9
    <2> HIDE DEF Vect, Overhang, WidthOf, Radius, RightKeep, LeftSkip, PixelsIn, Skip
    <2>3. WidthOf(k) + O - 1 = LeftSkip + (WidthOf(k) + Radius) - 1
      BY <1>1, <1>2, <2>2
    <2> QED
      BY <1>1, <1>2, <1>3, <1>4, <1>12, <2>1, <2>3
  <1> QED
    BY <1>10, <1>11, <1>12

LEMMA ProcessReadsIs ==
  ASSUME call \in Call, NEW k \in Parts, NEW r \in Nat, NEW c \in Nat
  PROVE  ProcessReads(k, r, c) <=> r < call.height /\ c < PixelsIn(k)
  BY DEF ProcessReads, PixelsIn

LEMMA ProcessWritesIs ==
  ASSUME call \in Call, NEW k \in Parts, NEW r \in Nat, NEW c \in Nat,
         c < Columns(<<"process", k>>)
  PROVE  /\ ProcessWrites(k, r, c) <=> /\ r >= Radius
                                       /\ c - Delay(k) \in 0..(WidthOf(k) - 1)
         /\ Delay(k) \in Nat /\ Delay(k) + WidthOf(k) <= Columns(<<"process", k>>)
  <1>1. Radius \in Nat \ {0} /\ WidthOf(k) \in Nat
    BY CallFacts, PixelFacts
  <1>2. Columns(<<"process", k>>) = WidthOf(k) + 2 * Radius
    BY LoopIs
  <1>3. ProcessWrites(k, r, c) <=>
          /\ r >= Radius
          /\ IF k = 1 THEN c >= Radius /\ c < WidthOf(k) + Radius ELSE c >= 2 * Radius
    BY KindIs DEF ProcessWrites
  <1>4. Delay(k) = IF k = 1 THEN Radius ELSE 2 * Radius
    BY DEF Delay
  <1> HIDE DEF Radius, WidthOf, Delay
  <1> QED
    BY <1>1, <1>2, <1>3, <1>4

LEMMA CollectsFromIs ==
  ASSUME call \in Call, NEW k \in Parts, NEW c \in Nat, c < call.width
  PROVE  CollectsFrom(c) = k <=> c - Left(k) \in 0..(WordsOf(k) - 1)
  <1>1. /\ PartWords \in Nat /\ call.parts \in Nat \ {0, 1} /\ call.width \in Nat
        /\ PartWords >= 2 * Overhang /\ Overhang \in Nat \ {0}
    BY CallFacts, OverhangFacts
  <1>2. /\ k \in Nat \ {0} /\ k <= call.parts
        /\ Left(k) \in Nat /\ WordsOf(k) \in Nat
        /\ k < call.parts => /\ WordsOf(k) = PartWords
                             /\ Left(k) + WordsOf(k) = k * PartWords
        /\ k = call.parts => Left(k) + WordsOf(k) = call.width
    BY PartFacts
  <1>3. call.parts \in Parts
    BY <1>1 DEF Parts
  <1>4. PICK M \in Nat : M = Left(call.parts)
    BY <1>3, PartFacts
  <1>5. M = (call.parts - 1) * PartWords
    BY <1>4 DEF Left
  <1>6. PartWords \in Nat \ {0}
    BY <1>1
  <1>7. c \div PartWords \in Nat
    BY <1>6, Quotient
  <1>8. CollectsFrom(c) = IF c >= M THEN call.parts ELSE c \div PartWords + 1
    BY <1>5 DEF CollectsFrom
  <1>9. c < M <=> c \div PartWords < call.parts - 1
    <2>1. call.parts - 1 \in Nat
      BY <1>1
    <2>2. c < (call.parts - 1) * PartWords <=> c \div PartWords < call.parts - 1
      BY <1>6, <2>1, WordIsIn
    <2> QED
      BY <1>5, <2>2
  <1>10. c < Left(k) <=> c \div PartWords < k - 1
    <2>1. k - 1 \in Nat
      BY <1>2
    <2>2. c < (k - 1) * PartWords <=> c \div PartWords < k - 1
      BY <1>6, <2>1, WordIsIn
    <2> QED
      BY <2>2 DEF Left
  <1>11. c < k * PartWords <=> c \div PartWords < k
    BY <1>2, <1>6, WordIsIn
  <1>12. PICK K : K = k * PartWords
    OBVIOUS
  <1>13. PICK d \in Nat : d = c \div PartWords
    BY <1>7
  <1>14. k = call.parts => Left(k) = M
    BY <1>4
  <1> HIDE DEF PartWords, Left, WordsOf, CollectsFrom
  <1>15. CASE k = call.parts
    <2>1. CollectsFrom(c) = k <=> c >= M
      BY <1>1, <1>4, <1>8, <1>9, <1>13, <1>15
    <2>2. Left(k) + WordsOf(k) = call.width /\ Left(k) = M
      BY <1>2, <1>14, <1>15
    <2>3. c >= M <=> c - Left(k) \in 0..(WordsOf(k) - 1)
      BY <1>2, <1>4, <2>2
    <2> QED
      BY <2>1, <2>3
  <1>16. CASE k # call.parts
    <2>1. k < call.parts
      BY <1>1, <1>2, <1>16
    <2>2. CollectsFrom(c) = k <=> d = k - 1
      BY <1>1, <1>2, <1>4, <1>8, <1>9, <1>13, <2>1
    <2>3. Left(k) + WordsOf(k) = K
      BY <1>2, <1>12, <2>1
    <2>4. c < Left(k) <=> d < k - 1
      BY <1>10, <1>13
    <2>5. c < K <=> d < k
      BY <1>11, <1>12, <1>13
    <2>6. d = k - 1 <=> ~(c < Left(k)) /\ c < K
      BY <1>2, <2>4, <2>5
    <2>7. (~(c < Left(k)) /\ c < K) <=> c - Left(k) \in 0..(WordsOf(k) - 1)
      BY <1>2, <2>3
    <2> QED
      BY <2>2, <2>6, <2>7
  <1> QED
    BY <1>15, <1>16

-----------------------------------------------------------------------------
(* What an iteration writes and reads.                                     *)
LEMMA PushesIs ==
  ASSUME NEW k
  PROVE  /\ <<"words", k>> \in Pushes(Distributor) <=>
              Col(Distributor) < call.width /\ k \in Targets(Col(Distributor))
         /\ \A s : s \in Pushes(<<"split", k>>) <=>
              s = <<"pixels", k>> /\ SplitWrites(k, Col(<<"split", k>>))
         /\ \A s : s \in Pushes(<<"process", k>>) <=>
              s = <<"results", k>>
              /\ ProcessWrites(k, Row(<<"process", k>>), Col(<<"process", k>>))
         /\ \A s : s \in Pushes(<<"assemble", k>>) <=>
              s = <<"packed", k>> /\ AssembleWrites(k, Col(<<"assemble", k>>))
         /\ Pushes(Collector) = {}
         /\ \A s \in Pushes(Distributor) : s[1] = "words"
  BY DEF Pushes, Only, Distributor, Collector

LEMMA PopsIs ==
  ASSUME NEW k
  PROVE  /\ Pops(Distributor) = {}
         /\ Pops(<<"split", k>>) = IF SplitReads(k, Col(<<"split", k>>))
                                   THEN {<<"words", k>>} ELSE {}
         /\ Pops(<<"process", k>>) =
              IF ProcessReads(k, Row(<<"process", k>>), Col(<<"process", k>>))
              THEN {<<"pixels", k>>} ELSE {}
         /\ Pops(<<"assemble", k>>) = IF AssembleReads(k, Col(<<"assemble", k>>))
                                      THEN {<<"results", k>>} ELSE {}
         /\ Pops(Collector) = {<<"packed", CollectsFrom(Col(Collector))>>}
  BY DEF Pops, Only, Distributor, Collector

LEMMA StreamIs ==
  ASSUME NEW s \in Streams
  PROVE  \E k \in Parts : \/ s = <<"words", k>> \/ s = <<"pixels", k>>
                          \/ s = <<"results", k>> \/ s = <<"packed", k>>
  BY DEF Streams

LEMMA EndsAre ==
  ASSUME NEW k
  PROVE  /\ WriterOf(<<"words", k>>) = Distributor
         /\ WriterOf(<<"pixels", k>>) = <<"split", k>>
         /\ WriterOf(<<"results", k>>) = <<"process", k>>
         /\ WriterOf(<<"packed", k>>) = <<"assemble", k>>
         /\ ReaderOf(<<"words", k>>) = <<"split", k>>
         /\ ReaderOf(<<"pixels", k>>) = <<"process", k>>
         /\ ReaderOf(<<"results", k>>) = <<"assemble", k>>
         /\ ReaderOf(<<"packed", k>>) = Collector
  BY DEF WriterOf, ReaderOf

LEMMA EndsOf ==
  ASSUME NEW s \in Streams
  PROVE  \E k \in Parts :
           \/ s = <<"words", k>> /\ WriterOf(s) = Distributor
                                /\ ReaderOf(s) = <<"split", k>>
           \/ s = <<"pixels", k>> /\ WriterOf(s) = <<"split", k>>
                                 /\ ReaderOf(s) = <<"process", k>>
           \/ s = <<"results", k>> /\ WriterOf(s) = <<"process", k>>
                                  /\ ReaderOf(s) = <<"assemble", k>>
           \/ s = <<"packed", k>> /\ WriterOf(s) = <<"assemble", k>>
                                 /\ ReaderOf(s) = Collector
  BY DEF Streams, WriterOf, ReaderOf

LEMMA CountsAre ==
  ASSUME NEW k, NEW r, NEW c
  PROVE  /\ GivenAt(<<"words", k>>, r, c) = DealtAt(k, r, c)
         /\ GivenAt(<<"pixels", k>>, r, c) = CastAt(k, r, c)
         /\ GivenAt(<<"results", k>>, r, c) = FilteredAt(k, r, c)
         /\ GivenAt(<<"packed", k>>, r, c) = PackedAt(k, r, c)
         /\ TakenAt(<<"words", k>>, r, c) = UnpackedAt(k, r, c)
         /\ TakenAt(<<"pixels", k>>, r, c) = SeenAt(k, r, c)
         /\ TakenAt(<<"results", k>>, r, c) = GatheredAt(k, r, c)
         /\ TakenAt(<<"packed", k>>, r, c) = CollectedAt(k, r, c)
  BY DEF GivenAt, TakenAt

(* A stream is written by one operator and read by one.                    *)
LEMMA OneWriter ==
  ASSUME NEW s \in Streams, NEW p \in Process
  PROVE  /\ s \in Pushes(p) => WriterOf(s) = p
         /\ s \in Pops(p) => ReaderOf(s) = p
         /\ WriterOf(s) \in Process /\ ReaderOf(s) \in Process
         /\ WriterOf(s) # ReaderOf(s)
  <1>1. PICK k \in Parts : \/ s = <<"words", k>> \/ s = <<"pixels", k>>
                           \/ s = <<"results", k>> \/ s = <<"packed", k>>
    BY StreamIs
  <1>2. WriterOf(s) \in Process /\ ReaderOf(s) \in Process
    BY EndsOf, ProcessIs
  <1>3. WriterOf(s) # ReaderOf(s)
    BY EndsOf DEF Distributor, Collector
  <1>4. /\ s[1] = "words" => s = <<"words", k>>
        /\ s[1] = "packed" => s = <<"packed", k>>
    BY <1>1
  <1>5. CASE p = Distributor
    <2>1. s \in Pushes(p) => s[1] = "words"
      BY <1>5, PushesIs
    <2>2. s \in Pops(p) => ReaderOf(s) = p
      BY <1>5, PopsIs
    <2>3. s[1] = "words" => WriterOf(s) = p
      BY <1>5, <1>4, EndsAre
    <2> QED
      BY <1>2, <1>3, <2>1, <2>2, <2>3
  <1>6. CASE p = Collector
    <2>1. s \notin Pushes(p)
      BY <1>6, PushesIs
    <2>2. s \in Pops(p) => s[1] = "packed"
      <3>1. PICK l : Pops(p) = {<<"packed", l>>}
        BY <1>6, PopsIs
      <3> QED
        BY <3>1
    <2>3. s[1] = "packed" => ReaderOf(s) = p
      BY <1>6, <1>4, EndsAre
    <2> QED
      BY <1>2, <1>3, <2>1, <2>2, <2>3
  <1>7. CASE \E l \in Parts : \/ p = <<"split", l>>
                              \/ p = <<"process", l>>
                              \/ p = <<"assemble", l>>
    <2>1. PICK l \in Parts : \/ p = <<"split", l>>
                             \/ p = <<"process", l>>
                             \/ p = <<"assemble", l>>
      BY <1>7
    <2>2. CASE p = <<"split", l>>
      BY <1>2, <1>3, <2>2, PushesIs, PopsIs, EndsAre
    <2>3. CASE p = <<"process", l>>
      BY <1>2, <1>3, <2>3, PushesIs, PopsIs, EndsAre
    <2>4. CASE p = <<"assemble", l>>
      BY <1>2, <1>3, <2>4, PushesIs, PopsIs, EndsAre
    <2> QED
      BY <2>1, <2>2, <2>3, <2>4
  <1> QED
    BY <1>5, <1>6, <1>7, ProcessIs

-----------------------------------------------------------------------------
(* A line of a stream does not end behind the loop.                        *)
LEMMA LineIs ==
  /\ \A n, r \in Nat : \A o, c \in Nat : Line(n, o, r, c) \in Nat
  /\ \A n, o \in Nat : Line(n, o, 0, 0) = 0
  <1>1. ASSUME NEW n \in Nat, NEW r \in Nat, NEW o \in Nat, NEW c \in Nat
        PROVE  Line(n, o, r, c) \in Nat
    <2>1. c - o \in Int
      OBVIOUS
    <2>2. Within(c - o, n) \in Nat
      BY <2>1, WithinStep
    <2>3. r * n \in Nat
      BY OneMore
    <2> QED
      BY <2>2, <2>3 DEF Line
  <1>2. ASSUME NEW n \in Nat, NEW o \in Nat
        PROVE  Line(n, o, 0, 0) = 0
    <2>1. 0 - o \in Int /\ 0 - o <= 0
      OBVIOUS
    <2>2. Within(0 - o, n) = 0
      BY <2>1, WithinStep
    <2>3. 0 * n = 0
      OBVIOUS
    <2> QED
      BY <2>2, <2>3 DEF Line
  <1> QED
    BY <1>1, <1>2

LEMMA SplitColumns ==
  ASSUME call \in Call, NEW k \in Parts
  PROVE  WordsIn(k) * Vect <= Columns(<<"split", k>>) /\ WordsIn(k) * Vect \in Nat
  <1>1. WordsIn(k) * Vect =
          IF k # 1 /\ k # call.parts THEN WidthOf(k) + 2 * (Overhang * Vect)
          ELSE WidthOf(k) + Overhang * Vect
    BY PixelsInFacts
  <1>2. Columns(<<"split", k>>) = WidthOf(k) + 2 * Overhang * Vect
    BY LoopIs
  <1>3. 2 * Overhang * Vect = Overhang * Vect + Overhang * Vect
    BY OverhangFacts
  <1>4. PICK O \in Nat : O = Overhang * Vect
    BY OverhangFacts
  <1>5. PICK W \in Nat : W = WidthOf(k)
    BY PixelFacts
  <1>6. PICK N : N = WordsIn(k) * Vect
    OBVIOUS
  <1>7. N = IF k # 1 /\ k # call.parts THEN W + 2 * O ELSE W + O
    BY <1>1, <1>4, <1>5, <1>6
  <1>8. Columns(<<"split", k>>) = W + (O + O)
    BY <1>2, <1>3, <1>4, <1>5
  <1>9. N <= W + (O + O) /\ N \in Nat
    BY <1>7
  <1> QED
    BY <1>6, <1>8, <1>9

LEMMA AssembleColumns ==
  ASSUME call \in Call, NEW k \in Parts
  PROVE  WidthOf(k) <= Columns(<<"assemble", k>>)
  <1>1. Columns(<<"assemble", k>>) = WidthOf(k) + 2 * Overhang * Vect
    BY LoopIs
  <1>2. 2 * Overhang * Vect = Overhang * Vect + Overhang * Vect
    BY OverhangFacts
  <1>3. PICK O \in Nat : O = Overhang * Vect
    BY OverhangFacts
  <1>4. PICK W \in Nat : W = WidthOf(k)
    BY PixelFacts
  <1>5. Columns(<<"assemble", k>>) = W + (O + O)
    BY <1>1, <1>2, <1>3, <1>4
  <1> QED
    BY <1>4, <1>5

-----------------------------------------------------------------------------
(* The counts of a stream go on with the loop that writes or reads it: of  *)
(* column c of line r one more if it is written or read there.             *)
StepsTo(p, r, c, q, e) ==
  /\ r \in Nat /\ c \in Nat /\ q \in Nat /\ e \in Nat
  /\ c < Columns(p) /\ r < Lines(p)
  /\ Follows(q, e, r, c, Columns(p))

LEMMA DealtStep ==
  ASSUME call \in Call, CutsAgree, NEW k \in Parts, NEW r, NEW c, NEW q, NEW e,
         StepsTo(Distributor, r, c, q, e)
  PROVE  DealtAt(k, q, e) = DealtAt(k, r, c) + One(c < call.width /\ k \in Targets(c))
  <1>1. PICK C \in Nat : C = Columns(Distributor)
    BY LoopFacts, ProcessIs
  <1>2. /\ r \in Nat /\ c \in Nat /\ q \in Nat /\ e \in Nat
        /\ c < C /\ Follows(q, e, r, c, C)
    BY <1>1 DEF StepsTo
  <1>3. PICK o \in Nat, n \in Nat : o = FirstWord(k) /\ n = WordsIn(k)
    BY WordFacts
  <1>4. o + n <= call.width /\ call.width \in Nat
    BY <1>3, WordFacts, CallFacts
  <1>5. o + n <= C
    <2>1. C = call.width + 2 * Overhang * Vect
      BY <1>1, LoopIs
    <2>2. PICK v \in Nat : v = 2 * Overhang * Vect
      <3>1. 2 * Overhang * Vect = Overhang * Vect + Overhang * Vect /\ Overhang * Vect \in Nat
        BY OverhangFacts
      <3> QED
        BY <3>1
    <2> HIDE DEF Overhang, Vect
    <2> QED
      BY <1>4, <2>1, <2>2
  <1>6. (c < call.width /\ k \in Targets(c)) <=> c - o \in 0..(n - 1)
    <2>1. c < call.width => (k \in Targets(c) <=> c - o \in 0..(n - 1))
      BY <1>2, <1>3, TargetsIs
    <2>2. c - o \in 0..(n - 1) => c < call.width
      BY <1>2, <1>3, <1>4
    <2> QED
      BY <2>1, <2>2
  <1>7. Line(n, o, q, e) = Line(n, o, r, c) + One(c - o \in 0..(n - 1))
    BY <1>2, <1>5, LineCount
  <1> QED
    BY <1>3, <1>6, <1>7 DEF DealtAt, One

LEMMA UnpackedStep ==
  ASSUME call \in Call, NEW k \in Parts, NEW r, NEW c, NEW q, NEW e,
         StepsTo(<<"split", k>>, r, c, q, e)
  PROVE  UnpackedAt(k, q, e) = UnpackedAt(k, r, c) + One(SplitReads(k, c))
  <1>1. PICK C \in Nat : C = Columns(<<"split", k>>)
    BY LoopFacts, ProcessIs
  <1>2. /\ r \in Nat /\ c \in Nat /\ q \in Nat /\ e \in Nat
        /\ c < C /\ Follows(q, e, r, c, C)
    BY <1>1 DEF StepsTo
  <1>3. PICK n \in Nat : n = WordsIn(k)
    BY WordFacts
  <1>4. PICK V \in Nat \ {0} : V = Vect
    BY CallFacts
  <1>5. n * V <= C
    BY <1>1, <1>3, <1>4, SplitColumns
  <1>6. SplitReads(k, c) <=> c % V = 0 /\ c < n * V
    BY <1>1, <1>2, <1>3, <1>4, SplitReadsIs
  <1>7. LineBegun(n, V, q, e) = LineBegun(n, V, r, c) + One(c % V = 0 /\ c < n * V)
    BY <1>2, <1>5, BegunCount
  <1> QED
    BY <1>3, <1>4, <1>6, <1>7 DEF UnpackedAt, One

LEMMA CastStep ==
  ASSUME call \in Call, NEW k \in Parts, NEW r, NEW c, NEW q, NEW e,
         StepsTo(<<"split", k>>, r, c, q, e)
  PROVE  CastAt(k, q, e) = CastAt(k, r, c) + One(SplitWrites(k, c))
  <1>1. PICK C \in Nat : C = Columns(<<"split", k>>)
    BY LoopFacts, ProcessIs
  <1>2. /\ r \in Nat /\ c \in Nat /\ q \in Nat /\ e \in Nat
        /\ c < C /\ Follows(q, e, r, c, C)
    BY <1>1 DEF StepsTo
  <1>3. PICK o \in Nat, n \in Nat : o = Skip(k) /\ n = PixelsIn(k)
    BY PixelsInFacts
  <1>4. PICK w : w = WordsIn(k) * Vect
    OBVIOUS
  <1>5. o + n <= w
    BY <1>3, <1>4, PixelsInFacts
  <1>6. w <= C /\ w \in Nat
    BY <1>1, <1>4, SplitColumns
  <1>7. o + n <= C
    BY <1>5, <1>6
  <1>8. SplitWrites(k, c) <=> c - o \in 0..(n - 1)
    BY <1>2, <1>3, SplitWritesIs
  <1>9. Line(n, o, q, e) = Line(n, o, r, c) + One(c - o \in 0..(n - 1))
    BY <1>2, <1>7, LineCount
  <1> QED
    BY <1>3, <1>8, <1>9 DEF CastAt, One

LEMMA SeenStep ==
  ASSUME call \in Call, NEW k \in Parts, NEW r, NEW c, NEW q, NEW e,
         StepsTo(<<"process", k>>, r, c, q, e)
  PROVE  SeenAt(k, q, e) = SeenAt(k, r, c) + One(ProcessReads(k, r, c))
  <1>1. PICK C \in Nat : C = Columns(<<"process", k>>)
    BY LoopFacts, ProcessIs
  <1>2. /\ r \in Nat /\ c \in Nat /\ q \in Nat /\ e \in Nat
        /\ c < C /\ Follows(q, e, r, c, C)
    BY <1>1 DEF StepsTo
  <1>3. PICK n \in Nat : n = PixelsIn(k)
    BY PixelsInFacts
  <1>4. 0 + n <= C
    <2>1. C = WidthOf(k) + 2 * Radius
      BY <1>1, LoopIs
    <2>2. n = IF k # 1 /\ k # call.parts THEN WidthOf(k) + 2 * Radius
              ELSE WidthOf(k) + Radius
      BY <1>3, PixelsInFacts
    <2>3. WidthOf(k) \in Nat /\ Radius \in Nat
      BY PixelFacts, CallFacts
    <2> HIDE DEF WidthOf, Radius
    <2> QED
      BY <2>1, <2>2, <2>3
  <1>5. PICK h \in Nat : h = call.height
    BY CallFacts
  <1>6. ProcessReads(k, r, c) <=> r < h /\ c - 0 \in 0..(n - 1)
    BY <1>2, <1>3, <1>5, ProcessReadsIs
  <1>7. Line(n, 0, q, e) = Line(n, 0, r, c) + One(c - 0 \in 0..(n - 1))
    BY <1>2, <1>4, LineCount
  <1>8. CASE r < h
    <2>1. q < h \/ (q = h /\ e = 0)
      BY <1>2, <1>5, <1>8 DEF Follows
    <2>2. SeenAt(k, q, e) = Line(n, 0, q, e)
      <3>1. CASE q < h
        BY <1>3, <1>5, <3>1 DEF SeenAt
      <3>2. CASE ~(q < h)
        BY <1>3, <1>5, <2>1, <3>2 DEF SeenAt
      <3> QED
        BY <3>1, <3>2
    <2>3. SeenAt(k, r, c) = Line(n, 0, r, c)
      BY <1>3, <1>5, <1>8 DEF SeenAt
    <2> QED
      BY <1>6, <1>7, <1>8, <2>2, <2>3 DEF One
  <1>9. CASE ~(r < h)
    <2>1. ~(q < h)
      BY <1>2, <1>5, <1>9 DEF Follows
    <2>2. SeenAt(k, q, e) = Line(n, 0, h, 0) /\ SeenAt(k, r, c) = Line(n, 0, h, 0)
      BY <1>3, <1>5, <1>9, <2>1 DEF SeenAt
    <2>3. Line(n, 0, h, 0) \in Nat
      BY <1>3, <1>5, LineIs
    <2> QED
      BY <1>6, <1>9, <2>2, <2>3 DEF One
  <1> QED
    BY <1>8, <1>9

LEMMA FilteredStep ==
  ASSUME call \in Call, NEW k \in Parts, NEW r, NEW c, NEW q, NEW e,
         StepsTo(<<"process", k>>, r, c, q, e)
  PROVE  FilteredAt(k, q, e) = FilteredAt(k, r, c) + One(ProcessWrites(k, r, c))
  <1>1. PICK C \in Nat : C = Columns(<<"process", k>>)
    BY LoopFacts, ProcessIs
  <1>2. /\ r \in Nat /\ c \in Nat /\ q \in Nat /\ e \in Nat
        /\ c < C /\ Follows(q, e, r, c, C)
    BY <1>1 DEF StepsTo
  <1>3. PICK o \in Nat, n \in Nat : o = Delay(k) /\ n = WidthOf(k)
    <2>1. Delay(k) \in Nat
      BY <1>1, <1>2, ProcessWritesIs
    <2> QED
      BY <2>1, PixelFacts
  <1>4. ProcessWrites(k, r, c) <=> r >= Radius /\ c - o \in 0..(n - 1)
    BY <1>1, <1>2, <1>3, ProcessWritesIs
  <1>5. o + n <= C
    BY <1>1, <1>2, <1>3, ProcessWritesIs
  <1>6. PICK R \in Nat : R = Radius
    BY CallFacts
  <1>7. CASE r >= R
    <2>1. PICK a \in Nat : a = r - R
      BY <1>2, <1>7
    <2>2. PICK b \in Nat : b = q - R
      BY <1>2, <1>7 DEF Follows
    <2>3. Follows(b, e, a, c, C) /\ q >= R
      BY <1>2, <1>7, <2>1, <2>2 DEF Follows
    <2>4. Line(n, o, b, e) = Line(n, o, a, c) + One(c - o \in 0..(n - 1))
      BY <1>2, <1>5, <2>3, LineCount
    <2>5. FilteredAt(k, q, e) = Line(n, o, b, e)
      BY <1>3, <1>6, <2>2, <2>3 DEF FilteredAt
    <2>6. FilteredAt(k, r, c) = Line(n, o, a, c)
      BY <1>3, <1>6, <1>7, <2>1 DEF FilteredAt
    <2> QED
      BY <1>4, <1>6, <1>7, <2>4, <2>5, <2>6 DEF One
  <1>8. CASE ~(r >= R)
    <2>1. q >= R => e = 0 /\ q - R = 0
      BY <1>2, <1>8 DEF Follows
    <2>2. Line(n, o, 0, 0) = 0
      BY LineIs
    <2>3. FilteredAt(k, r, c) = 0
      BY <1>6, <1>8 DEF FilteredAt
    <2>4. FilteredAt(k, q, e) = 0
      BY <1>3, <1>6, <2>1, <2>2 DEF FilteredAt
    <2> QED
      BY <1>4, <1>6, <1>8, <2>3, <2>4 DEF One
  <1> QED
    BY <1>7, <1>8

LEMMA GatheredStep ==
  ASSUME call \in Call, NEW k \in Parts, NEW r, NEW c, NEW q, NEW e,
         StepsTo(<<"assemble", k>>, r, c, q, e)
  PROVE  GatheredAt(k, q, e) = GatheredAt(k, r, c) + One(AssembleReads(k, c))
  <1>1. PICK C \in Nat : C = Columns(<<"assemble", k>>)
    BY LoopFacts, ProcessIs
  <1>2. /\ r \in Nat /\ c \in Nat /\ q \in Nat /\ e \in Nat
        /\ c < C /\ Follows(q, e, r, c, C)
    BY <1>1 DEF StepsTo
  <1>3. PICK n \in Nat : n = WidthOf(k)
    BY PixelFacts
  <1>4. 0 + n <= C
    BY <1>1, <1>3, AssembleColumns
  <1>5. AssembleReads(k, c) <=> c - 0 \in 0..(n - 1)
    BY <1>2, <1>3 DEF AssembleReads
  <1>6. Line(n, 0, q, e) = Line(n, 0, r, c) + One(c - 0 \in 0..(n - 1))
    BY <1>2, <1>4, LineCount
  <1> QED
    BY <1>3, <1>5, <1>6 DEF GatheredAt, One

LEMMA PackedStep ==
  ASSUME call \in Call, NEW k \in Parts, NEW r, NEW c, NEW q, NEW e,
         StepsTo(<<"assemble", k>>, r, c, q, e)
  PROVE  PackedAt(k, q, e) = PackedAt(k, r, c) + One(AssembleWrites(k, c))
  <1>1. PICK C \in Nat : C = Columns(<<"assemble", k>>)
    BY LoopFacts, ProcessIs
  <1>2. /\ r \in Nat /\ c \in Nat /\ q \in Nat /\ e \in Nat
        /\ c < C /\ Follows(q, e, r, c, C)
    BY <1>1 DEF StepsTo
  <1>3. PICK n \in Nat : n = WordsOf(k)
    BY PartFacts
  <1>4. PICK V \in Nat \ {0} : V = Vect
    BY CallFacts
  <1>5. WidthOf(k) = n * V
    BY <1>3, <1>4 DEF WidthOf
  <1>6. n * V <= C
    BY <1>1, <1>5, AssembleColumns
  <1>7. AssembleWrites(k, c) <=> c % V = V - 1 /\ c < n * V
    BY <1>4, <1>5 DEF AssembleWrites
  <1>8. LineEnded(n, V, q, e) = LineEnded(n, V, r, c) + One(c % V = V - 1 /\ c < n * V)
    BY <1>2, <1>6, EndedCount
  <1> QED
    BY <1>3, <1>4, <1>7, <1>8 DEF PackedAt, One

LEMMA CollectedStep ==
  ASSUME call \in Call, NEW k \in Parts, NEW r, NEW c, NEW q, NEW e,
         StepsTo(Collector, r, c, q, e)
  PROVE  CollectedAt(k, q, e) = CollectedAt(k, r, c) + One(CollectsFrom(c) = k)
  <1>1. PICK C \in Nat : C = Columns(Collector)
    BY LoopFacts, ProcessIs
  <1>2. /\ r \in Nat /\ c \in Nat /\ q \in Nat /\ e \in Nat
        /\ c < C /\ Follows(q, e, r, c, C)
    BY <1>1 DEF StepsTo
  <1>3. PICK o \in Nat, n \in Nat : o = Left(k) /\ n = WordsOf(k)
    BY PartFacts
  <1>4. C = call.width /\ call.width \in Nat
    BY <1>1, LoopIs, CallFacts
  <1>5. o + n <= C
    <2>1. /\ k <= call.parts /\ k \in Nat /\ call.parts \in Nat
          /\ k < call.parts => Left(k) + WordsOf(k) + 2 * Overhang <= call.width
          /\ k = call.parts => Left(k) + WordsOf(k) = call.width
      BY PartFacts, CallFacts
    <2>2. Overhang \in Nat
      BY OverhangFacts
    <2> HIDE DEF Left, WordsOf, Overhang
    <2> QED
      BY <1>3, <1>4, <2>1, <2>2
  <1>6. CollectsFrom(c) = k <=> c - o \in 0..(n - 1)
    BY <1>2, <1>3, <1>4, CollectsFromIs
  <1>7. Line(n, o, q, e) = Line(n, o, r, c) + One(c - o \in 0..(n - 1))
    BY <1>2, <1>5, LineCount
  <1> QED
    BY <1>3, <1>6, <1>7 DEF CollectedAt, One

LEMMA LoopStep ==
  ASSUME call \in Call, LoopsOK, NEW p \in Process, ~Finished(p)
  PROVE  StepsTo(p, Row(p), Col(p), AfterRow(p), AfterCol(p))
  <1>1. /\ Row(p) \in Nat /\ Col(p) \in Nat /\ Col(p) < Columns(p)
        /\ Row(p) < Lines(p)
    BY LoopTypes
  <1>2. AfterRow(p) \in Nat /\ AfterCol(p) \in Nat
    BY <1>1 DEF AfterRow, AfterCol
  <1> QED
    BY <1>1, <1>2, MovingOn DEF StepsTo

LEMMA GivenStep ==
  ASSUME call \in Call, CutsAgree, LoopsOK, NEW s \in Streams, NEW p \in Process,
         p = WriterOf(s), ~Finished(p)
  PROVE  GivenAt(s, AfterRow(p), AfterCol(p)) = Given(s) + One(s \in Pushes(p))
  <1>1. PICK r, c, q, e : /\ r = Row(p) /\ c = Col(p)
                          /\ q = AfterRow(p) /\ e = AfterCol(p)
    OBVIOUS
  <1>2. StepsTo(p, r, c, q, e)
    BY <1>1, LoopStep
  <1>3. Given(s) = GivenAt(s, r, c)
    BY <1>1 DEF Given
  <1>4. PICK k \in Parts :
          \/ s = <<"words", k>> /\ p = Distributor
          \/ s = <<"pixels", k>> /\ p = <<"split", k>>
          \/ s = <<"results", k>> /\ p = <<"process", k>>
          \/ s = <<"packed", k>> /\ p = <<"assemble", k>>
    BY EndsOf
  <1>5. CASE s = <<"words", k>> /\ p = Distributor
    <2>1. DealtAt(k, q, e) = DealtAt(k, r, c) + One(c < call.width /\ k \in Targets(c))
      BY <1>2, <1>5, DealtStep
    <2>2. s \in Pushes(p) <=> c < call.width /\ k \in Targets(c)
      BY <1>1, <1>5, PushesIs
    <2> QED
      BY <1>1, <1>3, <1>5, <2>1, <2>2, CountsAre DEF One
  <1>6. CASE s = <<"pixels", k>> /\ p = <<"split", k>>
    <2>1. CastAt(k, q, e) = CastAt(k, r, c) + One(SplitWrites(k, c))
      BY <1>2, <1>6, CastStep
    <2>2. s \in Pushes(p) <=> SplitWrites(k, c)
      BY <1>1, <1>6, PushesIs
    <2> QED
      BY <1>1, <1>3, <1>6, <2>1, <2>2, CountsAre DEF One
  <1>7. CASE s = <<"results", k>> /\ p = <<"process", k>>
    <2>1. FilteredAt(k, q, e) = FilteredAt(k, r, c) + One(ProcessWrites(k, r, c))
      BY <1>2, <1>7, FilteredStep
    <2>2. s \in Pushes(p) <=> ProcessWrites(k, r, c)
      BY <1>1, <1>7, PushesIs
    <2> QED
      BY <1>1, <1>3, <1>7, <2>1, <2>2, CountsAre DEF One
  <1>8. CASE s = <<"packed", k>> /\ p = <<"assemble", k>>
    <2>1. PackedAt(k, q, e) = PackedAt(k, r, c) + One(AssembleWrites(k, c))
      BY <1>2, <1>8, PackedStep
    <2>2. s \in Pushes(p) <=> AssembleWrites(k, c)
      BY <1>1, <1>8, PushesIs
    <2> QED
      BY <1>1, <1>3, <1>8, <2>1, <2>2, CountsAre DEF One
  <1> QED
    BY <1>4, <1>5, <1>6, <1>7, <1>8

LEMMA TakenStep ==
  ASSUME call \in Call, LoopsOK, NEW s \in Streams, NEW p \in Process,
         p = ReaderOf(s), ~Finished(p)
  PROVE  TakenAt(s, AfterRow(p), AfterCol(p)) = Taken(s) + One(s \in Pops(p))
  <1>1. PICK r, c, q, e : /\ r = Row(p) /\ c = Col(p)
                          /\ q = AfterRow(p) /\ e = AfterCol(p)
    OBVIOUS
  <1>2. StepsTo(p, r, c, q, e)
    BY <1>1, LoopStep
  <1>3. Taken(s) = TakenAt(s, r, c)
    BY <1>1 DEF Taken
  <1>4. PICK k \in Parts :
          \/ s = <<"words", k>> /\ p = <<"split", k>>
          \/ s = <<"pixels", k>> /\ p = <<"process", k>>
          \/ s = <<"results", k>> /\ p = <<"assemble", k>>
          \/ s = <<"packed", k>> /\ p = Collector
    BY EndsOf
  <1>5. CASE s = <<"words", k>> /\ p = <<"split", k>>
    <2>1. UnpackedAt(k, q, e) = UnpackedAt(k, r, c) + One(SplitReads(k, c))
      BY <1>2, <1>5, UnpackedStep
    <2>2. s \in Pops(p) <=> SplitReads(k, c)
      BY <1>1, <1>5, PopsIs
    <2> QED
      BY <1>1, <1>3, <1>5, <2>1, <2>2, CountsAre DEF One
  <1>6. CASE s = <<"pixels", k>> /\ p = <<"process", k>>
    <2>1. SeenAt(k, q, e) = SeenAt(k, r, c) + One(ProcessReads(k, r, c))
      BY <1>2, <1>6, SeenStep
    <2>2. s \in Pops(p) <=> ProcessReads(k, r, c)
      BY <1>1, <1>6, PopsIs
    <2> QED
      BY <1>1, <1>3, <1>6, <2>1, <2>2, CountsAre DEF One
  <1>7. CASE s = <<"results", k>> /\ p = <<"assemble", k>>
    <2>1. GatheredAt(k, q, e) = GatheredAt(k, r, c) + One(AssembleReads(k, c))
      BY <1>2, <1>7, GatheredStep
    <2>2. s \in Pops(p) <=> AssembleReads(k, c)
      BY <1>1, <1>7, PopsIs
    <2> QED
      BY <1>1, <1>3, <1>7, <2>1, <2>2, CountsAre DEF One
  <1>8. CASE s = <<"packed", k>> /\ p = Collector
    <2>1. CollectedAt(k, q, e) = CollectedAt(k, r, c) + One(CollectsFrom(c) = k)
      BY <1>2, <1>8, CollectedStep
    <2>2. s \in Pops(p) <=> CollectsFrom(c) = k
      <3>1. PICK l : l = CollectsFrom(c)
        OBVIOUS
      <3>2. Pops(p) = {<<"packed", l>>}
        BY <1>1, <1>8, <3>1, PopsIs
      <3> QED
        BY <1>8, <3>1, <3>2
    <2>3. /\ TakenAt(s, q, e) = CollectedAt(k, q, e)
          /\ TakenAt(s, r, c) = CollectedAt(k, r, c)
      BY <1>8, CountsAre
    <2> QED
      BY <1>1, <1>3, <2>1, <2>2, <2>3 DEF One
  <1> QED
    BY <1>4, <1>5, <1>6, <1>7, <1>8

(* The counts after a step.                                                *)
LEMMA GivenThen ==
  ASSUME call' = call, NEW s \in Streams, NEW r, NEW c,
         r = Row(WriterOf(s))', c = Col(WriterOf(s))'
  PROVE  Given(s)' = GivenAt(s, r, c)
  <1>1. /\ Vect' = Vect /\ Radius' = Radius
        /\ \A k : WordsOf(k)' = WordsOf(k)
        /\ \A k : WidthOf(k)' = WidthOf(k)
        /\ \A k : FirstWord(k)' = FirstWord(k)
        /\ \A k : WordsIn(k)' = WordsIn(k)
        /\ \A k : PixelsIn(k)' = PixelsIn(k)
        /\ \A k : Skip(k)' = Skip(k)
        /\ \A k : Delay(k)' = Delay(k)
    BY CallStays
  <1>2. PICK k \in Parts : \/ s = <<"words", k>> \/ s = <<"pixels", k>>
                           \/ s = <<"results", k>> \/ s = <<"packed", k>>
    BY StreamIs
  <1>3. /\ DealtAt(k, r, c)' = DealtAt(k, r, c)
        /\ CastAt(k, r, c)' = CastAt(k, r, c)
        /\ FilteredAt(k, r, c)' = FilteredAt(k, r, c)
        /\ PackedAt(k, r, c)' = PackedAt(k, r, c)
    BY <1>1 DEF DealtAt, CastAt, FilteredAt, PackedAt
  <1>4. GivenAt(s, r, c)' = GivenAt(s, r, c)
    BY <1>2, <1>3 DEF GivenAt
  <1>5. Given(s)' = GivenAt(s, r, c)'
    BY DEF Given, GivenAt, DealtAt, CastAt, FilteredAt, PackedAt
  <1> QED
    BY <1>4, <1>5

LEMMA TakenThen ==
  ASSUME call' = call, NEW s \in Streams, NEW r, NEW c,
         r = Row(ReaderOf(s))', c = Col(ReaderOf(s))'
  PROVE  Taken(s)' = TakenAt(s, r, c)
  <1>1. /\ Vect' = Vect /\ Radius' = Radius
        /\ \A k : WordsOf(k)' = WordsOf(k)
        /\ \A k : WidthOf(k)' = WidthOf(k)
        /\ \A k : WordsIn(k)' = WordsIn(k)
        /\ \A k : PixelsIn(k)' = PixelsIn(k)
        /\ \A k : Left(k)' = Left(k)
    BY CallStays
  <1>2. PICK k \in Parts : \/ s = <<"words", k>> \/ s = <<"pixels", k>>
                           \/ s = <<"results", k>> \/ s = <<"packed", k>>
    BY StreamIs
  <1>3. /\ UnpackedAt(k, r, c)' = UnpackedAt(k, r, c)
        /\ SeenAt(k, r, c)' = SeenAt(k, r, c)
        /\ GatheredAt(k, r, c)' = GatheredAt(k, r, c)
        /\ CollectedAt(k, r, c)' = CollectedAt(k, r, c)
    BY <1>1 DEF UnpackedAt, SeenAt, GatheredAt, CollectedAt
  <1>4. TakenAt(s, r, c)' = TakenAt(s, r, c)
    BY <1>2, <1>3 DEF TakenAt
  <1>5. Taken(s)' = TakenAt(s, r, c)'
    BY DEF Taken, TakenAt, UnpackedAt, SeenAt, GatheredAt, CollectedAt
  <1> QED
    BY <1>4, <1>5

-----------------------------------------------------------------------------
(* A step keeps every stream what it promises, if what is written is.      *)
Gives(p, v) == \A s \in Streams : s \in Pushes(p) => /\ v \in Payload(s[1])
                                                     /\ v \in Contents(s)[Given(s)]

LEMMA HoldsTypes ==
  ASSUME NEW q, NEW T, NEW F, NEW a, NEW b, Holds(q, T, F, a, b)
  PROVE  q \in Seq(T) /\ Len(q) \in Nat /\ a \in Nat /\ b \in Nat
  BY DEF Holds

LEMMA TurnFacts ==
  ASSUME NEW p, HasTurn(p)
  PROVE  /\ ~Finished(p)
         /\ \A s \in Pops(p) : fifo[s] # <<>>
         /\ \A s \in Pushes(p) : Len(fifo[s]) < Depth
  BY DEF HasTurn, CanRun

LEMMA MovedIs ==
  ASSUME NEW s \in Streams, NEW p \in Process, NEW v, Moved(p, v)
  PROVE  /\ s \in Pushes(p) => fifo'[s] = Append(fifo[s], v)
         /\ s \in Pops(p) => fifo'[s] = Tail(fifo[s])
         /\ s \notin Pushes(p) /\ s \notin Pops(p) => fifo'[s] = fifo[s]
         /\ s \in Pushes(p) => s \notin Pops(p)
  <1>1. s \in Pushes(p) => s \notin Pops(p)
    BY OneWriter
  <1> QED
    BY <1>1 DEF Moved

LEMMA StreamStep ==
  ASSUME call \in Call, CutsAgree, call' = call, LoopsOK, NEW s \in Streams, StreamOK(s),
         NEW p \in Process, HasTurn(p), NEW v, Gives(p, v), Moved(p, v), Advance(p)
  PROVE  StreamOK(s)'
  <1>1. PICK T, F, a, b, f, g : /\ T = Payload(s[1]) /\ F = Contents(s)
                                /\ a = Taken(s) /\ b = Given(s)
                                /\ f = fifo[s] /\ g = fifo'[s]
    OBVIOUS
  <1>2. Holds(f, T, F, a, b) /\ Len(f) <= Depth
    BY <1>1 DEF StreamOK
  <1>3. ~Finished(p) /\ (s \in Pops(p) => f # <<>>) /\ (s \in Pushes(p) => Len(f) < Depth)
    BY <1>1, TurnFacts
  <1>4. PICK w \in Process, d \in Process :
          /\ w = WriterOf(s) /\ d = ReaderOf(s) /\ w # d
          /\ s \in Pushes(p) => w = p
          /\ s \in Pops(p) => d = p
    BY OneWriter
  <1>5. /\ Row(p)' = AfterRow(p) /\ Col(p)' = AfterCol(p)
        /\ \A q \in Process : q # p => Row(q)' = Row(q) /\ Col(q)' = Col(q)
    BY Advanced
  <1>6. Given(s)' = b + One(s \in Pushes(p))
    <2>1. PICK r, c : r = Row(WriterOf(s))' /\ c = Col(WriterOf(s))'
      OBVIOUS
    <2>2. Given(s)' = GivenAt(s, r, c)
      BY <2>1, GivenThen
    <2>3. r = Row(w)' /\ c = Col(w)'
      BY <1>4, <2>1 DEF Row, Col
    <2>4. CASE w = p
      <3>1. r = AfterRow(p) /\ c = AfterCol(p)
        BY <1>5, <2>3, <2>4 DEF Row, Col
      <3>2. GivenAt(s, AfterRow(p), AfterCol(p)) = Given(s) + One(s \in Pushes(p))
        BY <1>3, <1>4, <2>4, GivenStep
      <3> QED
        BY <1>1, <2>2, <3>1, <3>2
    <2>5. CASE w # p
      <3>1. r = Row(w) /\ c = Col(w)
        BY <1>5, <2>3, <2>5 DEF Row, Col
      <3>2. Given(s) = GivenAt(s, r, c)
        BY <1>4, <3>1 DEF Given
      <3>3. One(s \in Pushes(p)) = 0
        BY <1>4, <2>5 DEF One
      <3>4. b \in Nat
        BY <1>2, HoldsTypes
      <3> QED
        BY <1>1, <2>2, <3>2, <3>3, <3>4
    <2> QED
      BY <2>4, <2>5
  <1>7. Taken(s)' = a + One(s \in Pops(p))
    <2>1. PICK r, c : r = Row(ReaderOf(s))' /\ c = Col(ReaderOf(s))'
      OBVIOUS
    <2>2. Taken(s)' = TakenAt(s, r, c)
      BY <2>1, TakenThen
    <2>3. r = Row(d)' /\ c = Col(d)'
      BY <1>4, <2>1 DEF Row, Col
    <2>4. CASE d = p
      <3>1. r = AfterRow(p) /\ c = AfterCol(p)
        BY <1>5, <2>3, <2>4 DEF Row, Col
      <3>2. TakenAt(s, AfterRow(p), AfterCol(p)) = Taken(s) + One(s \in Pops(p))
        BY <1>3, <1>4, <2>4, TakenStep
      <3> QED
        BY <1>1, <2>2, <3>1, <3>2
    <2>5. CASE d # p
      <3>1. r = Row(d) /\ c = Col(d)
        BY <1>5, <2>3, <2>5 DEF Row, Col
      <3>2. Taken(s) = TakenAt(s, r, c)
        BY <1>4, <3>1 DEF Taken
      <3>3. One(s \in Pops(p)) = 0
        BY <1>4, <2>5 DEF One
      <3>4. a \in Nat
        BY <1>2, HoldsTypes
      <3> QED
        BY <1>1, <2>2, <3>2, <3>3, <3>4
    <2> QED
      BY <2>4, <2>5
  <1>8. Holds(g, T, F, a + One(s \in Pops(p)), b + One(s \in Pushes(p))) /\ Len(g) <= Depth
    <2>1. Depth \in Nat /\ a \in Nat /\ b \in Nat /\ f \in Seq(T) /\ Len(f) \in Nat
      BY <1>2, DepthIsPositive, HoldsTypes
    <2>2. CASE s \in Pushes(p)
      <3>1. g = Append(f, v) /\ s \notin Pops(p)
        BY <1>1, <2>2, MovedIs
      <3>2. v \in T /\ v \in F[b]
        BY <1>1, <2>2 DEF Gives
      <3>3. Holds(Append(f, v), T, F, a, b + 1) /\ Len(Append(f, v)) = Len(f) + 1
        BY <1>2, <3>2, Appended
      <3>4. One(s \in Pops(p)) = 0 /\ One(s \in Pushes(p)) = 1
        BY <2>2, <3>1 DEF One
      <3>5. a + 0 = a /\ Len(f) + 1 <= Depth
        BY <1>3, <2>1, <2>2
      <3> QED
        BY <3>1, <3>3, <3>4, <3>5
    <2>3. CASE s \in Pops(p)
      <3>1. g = Tail(f) /\ s \notin Pushes(p)
        BY <1>1, <2>3, MovedIs
      <3>2. Holds(Tail(f), T, F, a + 1, b) /\ Len(Tail(f)) <= Len(f)
        BY <1>2, <1>3, <2>3, Popped
      <3>3. Len(Tail(f)) \in Nat
        BY <3>2, HoldsTypes
      <3>4. One(s \in Pops(p)) = 1 /\ One(s \in Pushes(p)) = 0
        BY <2>3, <3>1 DEF One
      <3>5. b + 0 = b /\ Len(Tail(f)) <= Depth
        BY <1>2, <2>1, <3>2, <3>3
      <3> QED
        BY <3>1, <3>2, <3>4, <3>5
    <2>4. CASE s \notin Pushes(p) /\ s \notin Pops(p)
      <3>1. g = f
        BY <1>1, <2>4, MovedIs
      <3>2. One(s \in Pops(p)) = 0 /\ One(s \in Pushes(p)) = 0
        BY <2>4 DEF One
      <3>3. b + 0 = b /\ a + 0 = a
        BY <2>1
      <3> QED
        BY <1>2, <3>1, <3>2, <3>3
    <2> QED
      BY <2>2, <2>3, <2>4
  <1>9. Payload(s[1])' = T /\ Contents(s)' = F
    <2>1. /\ \A t : Payload(t)' = Payload(t)
          /\ \A t : Contents(t)' = Contents(t)
      BY ContentsStay
    <2> QED
      BY <1>1, <2>1
  <1>10. /\ Holds(fifo[s], Payload(s[1]), Contents(s), Taken(s), Given(s))'
         /\ (Len(fifo[s]) <= Depth)'
    BY <1>1, <1>6, <1>7, <1>8, <1>9 DEF Holds
  <1> QED
    BY <1>10 DEF StreamOK

LEMMA StreamsStep ==
  ASSUME call \in Call, CutsAgree, call' = call, LoopsOK, StreamsOK,
         NEW p \in Process, HasTurn(p), NEW v, Gives(p, v), Moved(p, v), Advance(p)
  PROVE  StreamsOK'
  <1>1. Streams' = Streams
    BY CallStays
  <1>2. ASSUME NEW s \in Streams
        PROVE  StreamOK(s)'
    BY StreamStep DEF StreamsOK
  <1> QED
    BY <1>1, <1>2 DEF StreamsOK

(* What an operator reads is what its stream promises.                     *)
LEMMA IncomingIs ==
  ASSUME StreamsOK, NEW p \in Process, HasTurn(p), NEW s \in Streams, Pops(p) = {s}
  PROVE  /\ Incoming(p) \in Payload(s[1])
         /\ Incoming(p) \in Contents(s)[Taken(s)]
         /\ Taken(s) \in Nat
  <1>1. (CHOOSE t \in Pops(p) : TRUE) = s
    OBVIOUS
  <1>2. PICK q, T, F, a, b : /\ q = fifo[s] /\ T = Payload(s[1]) /\ F = Contents(s)
                             /\ a = Taken(s) /\ b = Given(s)
    OBVIOUS
  <1>3. Incoming(p) = Head(q)
    BY <1>1, <1>2 DEF Incoming
  <1>4. q # <<>>
    BY <1>2, TurnFacts
  <1>5. Holds(q, T, F, a, b)
    BY <1>2 DEF StreamsOK, StreamOK
  <1>6. Head(q) \in T /\ Head(q) \in F[a] /\ a \in Nat
    BY <1>4, <1>5, Popped, HoldsTypes
  <1> QED
    BY <1>2, <1>3, <1>6

-----------------------------------------------------------------------------
(* Which value of a stream a column writes or reads.                       *)
LEMMA LinePlace ==
  ASSUME NEW n \in Nat \ {0}, NEW o \in Nat, NEW r \in Nat, NEW c \in Nat,
         c - o \in 0..(n - 1)
  PROVE  /\ Line(n, o, r, c) \in Nat
         /\ Line(n, o, r, c) \div n = r /\ Line(n, o, r, c) % n = c - o
  <1>1. PICK x \in 0..(n - 1) : x = c - o
    OBVIOUS
  <1>2. Within(x, n) = x
    <2>1. x \in Int /\ x \in 0..n
      OBVIOUS
    <2> QED
      BY <2>1, WithinStep
  <1>3. Line(n, o, r, c) = r * n + x
    BY <1>1, <1>2 DEF Line
  <1>4. (r * n + x) \div n = r /\ (r * n + x) % n = x
    BY DivMod
  <1>5. r * n \in Nat
    BY OneMore
  <1>6. r * n + x \in Nat
    BY <1>5
  <1> QED
    BY <1>1, <1>3, <1>4, <1>6

LEMMA BegunPlace ==
  ASSUME NEW V \in Nat \ {0}, NEW n \in Nat \ {0}, NEW r \in Nat, NEW c \in Nat,
         c % V = 0, c < n * V
  PROVE  /\ LineBegun(n, V, r, c) \div n = r
         /\ LineBegun(n, V, r, c) % n = c \div V
  <1>1. c \div V < n /\ c \div V \in Nat
    BY WordIsIn, Quotient
  <1>2. Begun(c, V) = c \div V
    BY BegunIs
  <1>3. PICK x \in 0..(n - 1) : x = c \div V
    BY <1>1
  <1>4. Min2(x, n) = x
    BY DEF Min2
  <1>5. LineBegun(n, V, r, c) = r * n + x
    BY <1>2, <1>3, <1>4 DEF LineBegun
  <1>6. (r * n + x) \div n = r /\ (r * n + x) % n = x
    BY DivMod
  <1> QED
    BY <1>3, <1>5, <1>6

IsPlace(i, n, y, x) == i \in Nat /\ i \div n = y /\ i % n = x

LEMMA EndedPlace ==
  ASSUME NEW V \in Nat \ {0}, NEW n \in Nat \ {0}, NEW r \in Nat, NEW c \in Nat,
         NEW q \in 0..(n - 1), q = c \div V
  PROVE  IsPlace(LineEnded(n, V, r, c), n, r, q)
  <1>1. Min2(q, n) = q
    BY DEF Min2
  <1>2. LineEnded(n, V, r, c) = r * n + q
    BY <1>1 DEF LineEnded
  <1>3. (r * n + q) \div n = r /\ (r * n + q) % n = q
    BY DivMod
  <1>4. r * n \in Nat
    BY OneMore
  <1>5. r * n + q \in Nat
    BY <1>4
  <1> QED
    BY <1>2, <1>3, <1>5 DEF IsPlace

LEMMA ContentsAre ==
  ASSUME NEW k, NEW n \in Nat
  PROVE  /\ Contents(<<"words", k>>)[n] =
              {<<n \div WordsIn(k), FirstWord(k) + (n % WordsIn(k))>>}
         /\ Contents(<<"pixels", k>>)[n] =
              {<<n \div PixelsIn(k), FirstPixel(k) + (n % PixelsIn(k)), SplitOrder(k)>>}
  BY DEF Contents, Promised

LEMMA ResultsAre ==
  ASSUME NEW k, NEW n \in Nat, NEW y, NEW x, y = n \div WidthOf(k), x = n % WidthOf(k),
         NEW w
  PROVE  w \in Contents(<<"results", k>>)[n] <=> w \in Windows /\ Fits(k, y, x, w)
  BY DEF Contents, Promised

LEMMA PackedAre ==
  ASSUME NEW k, NEW n \in Nat, NEW y, NEW c, y = n \div WordsOf(k), c = n % WordsOf(k),
         NEW v
  PROVE  v \in Contents(<<"packed", k>>)[n] <=>
           v \in [Lanes -> Results] /\ WordFits(k, y, c, v)
  BY DEF Contents, Promised

LEMMA PayloadsAre ==
  /\ Payload("words") = Words /\ Payload("pixels") = Pixels
  /\ Payload("results") = Windows /\ Payload("packed") = [Lanes -> Results]
  BY DEF Payload

LEMMA StreamsAre ==
  ASSUME NEW k \in Parts
  PROVE  /\ <<"words", k>> \in Streams /\ <<"pixels", k>> \in Streams
         /\ <<"results", k>> \in Streams /\ <<"packed", k>> \in Streams
  BY DEF Streams

-----------------------------------------------------------------------------
(* What a step leaves alone.                                               *)
Still(p) == Row(p)' = Row(p) /\ Col(p)' = Col(p)

LEMMA OthersStill ==
  ASSUME call \in Call, LoopsOK, NEW p \in Process, Advance(p),
         NEW q \in Process, q # p
  PROVE  Still(q)
  BY Advanced DEF Still

LEMMA SplitStays ==
  ASSUME call' = call, NEW k, SplitOK(k), Still(<<"split", k>>),
         held'[<<"split", k>>] = held[<<"split", k>>]
  PROVE  SplitOK(k)'
  <1>1. /\ Vect' = Vect
        /\ \A j : FirstWord(j)' = FirstWord(j)
        /\ \A j : WordsIn(j)' = WordsIn(j)
    BY CallStays
  <1> QED
    BY <1>1 DEF SplitOK, Still

LEMMA AssembleStays ==
  ASSUME call' = call, NEW k, AssembleOK(k), Still(<<"assemble", k>>),
         held'[<<"assemble", k>>] = held[<<"assemble", k>>]
  PROVE  AssembleOK(k)'
  <1>1. /\ Vect' = Vect /\ Lanes' = Lanes
        /\ \A j : WidthOf(j)' = WidthOf(j)
    BY CallStays
  <1>2. \A j, y, x, r : LaneFits(j, y, x, r)' = LaneFits(j, y, x, r)
    BY ContentsStay
  <1>3. PICK y, c, v : /\ y = Row(<<"assemble", k>>) /\ c = Col(<<"assemble", k>>)
                       /\ v = held[<<"assemble", k>>]
    OBVIOUS
  <1>4. c < WidthOf(k) => LanesFit(k, y, c, v)
    BY <1>3 DEF AssembleOK
  <1>5. LanesFit(k, y, c, v)' <=> LanesFit(k, y, c, v)
    BY <1>1, <1>2 DEF LanesFit
  <1>6. AssembleOK(k)' <=> (c < WidthOf(k) => LanesFit(k, y, c, v)')
    BY <1>1, <1>3 DEF AssembleOK, Still, LanesFit
  <1> QED
    BY <1>4, <1>5, <1>6

LEMMA ProcessStays ==
  ASSUME call' = call, NEW k, Still(<<"process", k>>),
         inPixel'[k] = inPixel[k], lineBuff'[k] = lineBuff[k], winTmp'[k] = winTmp[k]
  PROVE  /\ PixelOK(k) => PixelOK(k)'
         /\ LinesOK(k) => LinesOK(k)'
         /\ WindowOK(k) => WindowOK(k)'
  <1>1. /\ Vect' = Vect /\ Radius' = Radius /\ Kernel' = Kernel /\ Win' = Win
        /\ \A j : FirstPixel(j)' = FirstPixel(j)
        /\ \A j : PixelsIn(j)' = PixelsIn(j)
        /\ \A j : LoadCols(j)' = LoadCols(j)
        /\ \A j : SplitOrder(j)' = SplitOrder(j)
    BY CallStays
  <1>2. Moves(k)' <=> Moves(k)
    BY DEF Moves, Still
  <1>3. \A y, c : PartPixel(k, y, c)' = PartPixel(k, y, c)
    BY <1>1 DEF PartPixel
  <1>4. \A y, c : InPart(k, y, c)' <=> InPart(k, y, c)
    BY <1>1 DEF InPart
  <1>5. \A i, c, y, x : LineOf(i, c, y, x)' = LineOf(i, c, y, x)
    BY <1>1 DEF LineOf
  <1>6. PICK y, x : y = Row(<<"process", k>>) /\ x = Col(<<"process", k>>)
    OBVIOUS
  <1>7. Row(<<"process", k>>)' = y /\ Col(<<"process", k>>)' = x
    BY <1>6 DEF Still
  <1>8. PixelOK(k) => PixelOK(k)'
    <2>1. PixelOK(k) <=> (y < call.height /\ x > 0 => inPixel[k] = PartPixel(k, y, x - 1))
      BY <1>6 DEF PixelOK
    <2>2. PixelOK(k)' <=> (y < call.height /\ x > 0
                             => inPixel'[k] = PartPixel(k, y, x - 1)')
      BY <1>7 DEF PixelOK, PartPixel
    <2> QED
      BY <1>3, <2>1, <2>2
  <1>9. LinesOK(k) => LinesOK(k)'
    <2>1. PICK buff : buff = lineBuff[k]
      OBVIOUS
    <2>2. HasLines(k, buff, y, x)' <=> HasLines(k, buff, y, x)
      BY <1>1, <1>3, <1>5 DEF HasLines
    <2>3. LinesOK(k) <=> (Moves(k) => HasLines(k, buff, y, x))
      BY <1>6, <2>1 DEF LinesOK
    <2>4. LinesOK(k)' <=> (Moves(k)' => HasLines(k, buff, y, x)')
      BY <1>7, <2>1 DEF LinesOK, HasLines, LineOf, PartPixel
    <2> QED
      BY <1>2, <2>2, <2>3, <2>4
  <1>10. WindowOK(k) => WindowOK(k)'
    <2>1. PICK w : w = winTmp[k]
      OBVIOUS
    <2>2. Shows(k, w, y, x - 1)' <=> Shows(k, w, y, x - 1)
      BY <1>1, <1>3, <1>4 DEF Shows
    <2>3. WindowOK(k) <=> (Moves(k) /\ x <= LoadCols(k) => Shows(k, w, y, x - 1))
      BY <1>6, <2>1 DEF WindowOK
    <2>4. WindowOK(k)' <=> (Moves(k)' /\ x <= LoadCols(k) => Shows(k, w, y, x - 1)')
      BY <1>1, <1>7, <2>1 DEF WindowOK, Shows, InPart, PartPixel
    <2> QED
      BY <1>2, <2>2, <2>3, <2>4
  <1> QED
    BY <1>8, <1>9, <1>10

LEMMA OutStays ==
  ASSUME call' = call, OutOK, Still(Collector), out' = out
  PROVE  OutOK'
  <1>1. /\ Vect' = Vect /\ Radius' = Radius /\ Lanes' = Lanes
        /\ PartWords' = PartWords
        /\ \A k : SplitOrder(k)' = SplitOrder(k)
    BY CallStays
  <1>2. \A y, x, b : Neighbourhood(y, x, b)' = Neighbourhood(y, x, b)
    BY ContentsStay
  <1>3. \A c : CollectsFrom(c)' = CollectsFrom(c)
    BY <1>1 DEF CollectsFrom
  <1>4. Collected' = Collected
    BY DEF Collected, Still
  <1>5. LastLine' = LastLine /\ LastWord' = LastWord
    BY <1>4 DEF LastLine, LastWord
  <1>6. \A y, c, l : HasWindow(y, c, l)' <=> HasWindow(y, c, l)
    BY <1>1, <1>3 DEF HasWindow
  <1> QED
    BY <1>1, <1>2, <1>3, <1>4, <1>5, <1>6 DEF OutOK, Stored, Reversed

-----------------------------------------------------------------------------
(* distribute.                                                             *)
LEMMA ProcessesDiffer ==
  ASSUME NEW k, NEW l
  PROVE  /\ <<"split", k>> # Distributor /\ <<"split", k>> # Collector
         /\ <<"process", k>> # Distributor /\ <<"process", k>> # Collector
         /\ <<"assemble", k>> # Distributor /\ <<"assemble", k>> # Collector
         /\ <<"split", k>> # <<"process", l>> /\ <<"split", k>> # <<"assemble", l>>
         /\ <<"process", k>> # <<"assemble", l>> /\ Distributor # Collector
         /\ k # l => /\ <<"split", k>> # <<"split", l>>
                     /\ <<"process", k>> # <<"process", l>>
                     /\ <<"assemble", k>> # <<"assemble", l>>
  BY DEF Distributor, Collector

LEMMA WordsAreDealt ==
  ASSUME call \in Call, CutsAgree, LoopsOK, ~Finished(Distributor), NEW y, NEW c,
         y = Row(Distributor), c = Col(Distributor)
  PROVE  Gives(Distributor, <<y, c>>)
  <1>1. SUFFICES ASSUME NEW s \in Streams, s \in Pushes(Distributor)
                 PROVE  <<y, c>> \in Payload(s[1]) /\ <<y, c>> \in Contents(s)[Given(s)]
    BY DEF Gives
  <1>2. PICK k \in Parts : s = <<"words", k>>
    <2>1. s[1] = "words"
      BY <1>1, PushesIs
    <2> QED
      BY <2>1, StreamIs
  <1>3. /\ y \in Nat /\ c \in Nat /\ y < call.height
    BY LoopTypes, LoopIs, ProcessIs
  <1>4. c < call.width /\ k \in Targets(c)
    BY <1>1, <1>2, PushesIs
  <1>5. PICK o \in Nat, n \in Nat \ {0} : o = FirstWord(k) /\ n = WordsIn(k)
    BY WordFacts
  <1>6. c - o \in 0..(n - 1)
    BY <1>3, <1>4, <1>5, TargetsIs
  <1>7. PICK m : m = Line(n, o, y, c)
    OBVIOUS
  <1>8. m \in Nat /\ m \div n = y /\ m % n = c - o
    BY <1>3, <1>6, <1>7, LinePlace
  <1>9. Given(s) = m
    <2>1. Given(s) = GivenAt(s, y, c)
      BY <1>2, EndsAre DEF Given
    <2>2. GivenAt(s, y, c) = DealtAt(k, y, c)
      BY <1>2, CountsAre
    <2> QED
      BY <1>5, <1>7, <2>1, <2>2 DEF DealtAt
  <1>10. Contents(s)[m] = {<<m \div n, o + (m % n)>>}
    BY <1>2, <1>5, <1>8, ContentsAre
  <1>11. o + (m % n) = c
    BY <1>3, <1>8
  <1>12. <<y, c>> \in Contents(s)[Given(s)]
    BY <1>8, <1>9, <1>10, <1>11
  <1>13. <<y, c>> \in Words
    <2>1. call.width \in Nat /\ call.height \in Nat
      BY CallFacts
    <2>2. y \in 0..(call.height - 1) /\ c \in 0..(call.width - 1)
      BY <1>3, <1>4, <2>1
    <2> QED
      BY <2>2 DEF Words
  <1>14. Payload(s[1]) = Words
    BY <1>2, PayloadsAre
  <1> QED
    BY <1>12, <1>13, <1>14

(* The steps of distribute and collect leave the parts alone.              *)
LEMMA PartsStay ==
  ASSUME call \in Call, call' = call, LoopsOK, PartsOK,
         NEW p \in {Distributor, Collector}, Advance(p),
         UNCHANGED <<held, inPixel, lineBuff, winTmp>>
  PROVE  PartsOK'
  <1>1. Parts' = Parts
    BY CallStays
  <1>2. ASSUME NEW k \in Parts
        PROVE  /\ SplitOK(k)' /\ AssembleOK(k)'
               /\ PixelOK(k)' /\ LinesOK(k)' /\ WindowOK(k)'
    <2>1. p \in Process
      BY ProcessIs
    <2>2. Still(<<"split", k>>) /\ Still(<<"process", k>>) /\ Still(<<"assemble", k>>)
      BY <2>1, OthersStill, ProcessIs, ProcessesDiffer
    <2>3. /\ SplitOK(k) /\ AssembleOK(k)
          /\ PixelOK(k) /\ LinesOK(k) /\ WindowOK(k)
      BY DEF PartsOK
    <2>4. SplitOK(k)' /\ AssembleOK(k)'
      BY <2>2, <2>3, SplitStays, AssembleStays
    <2>5. PixelOK(k)' /\ LinesOK(k)' /\ WindowOK(k)'
      BY <2>2, <2>3, ProcessStays
    <2> QED
      BY <2>4, <2>5
  <1> QED
    BY <1>1, <1>2 DEF PartsOK

LEMMA ShapesStay ==
  ASSUME call' = call, ShapesOK, UNCHANGED <<held, inPixel, lineBuff, winTmp>>,
         out' \in [Lanes -> Results]
  PROVE  ShapesOK'
  <1>1. Parts' = Parts /\ Lanes' = Lanes
    BY CallStays
  <1>2. /\ Pixels' = Pixels /\ Windows' = Windows /\ Words' = Words
        /\ Results' = Results
        /\ \A k : Buffers(k)' = Buffers(k)
    BY ContentsStay
  <1> QED
    BY <1>1, <1>2 DEF ShapesOK

LEMMA Distributing ==
  ASSUME IInv, Distribute
  PROVE  IInv'
  <1>1. /\ call \in Call /\ CutsAgree
        /\ LoopsOK /\ ShapesOK /\ StreamsOK /\ PartsOK /\ OutOK
    BY DEF IInv
  <1>2. /\ HasTurn(Distributor)
        /\ Moved(Distributor, <<Row(Distributor), Col(Distributor)>>)
        /\ Advance(Distributor)
        /\ call' = call /\ out' = out /\ UNCHANGED <<held, inPixel, lineBuff, winTmp>>
    BY DEF Distribute
  <1>3. PICK y, c, v : y = Row(Distributor) /\ c = Col(Distributor) /\ v = <<y, c>>
    OBVIOUS
  <1>4. ~Finished(Distributor) /\ Distributor \in Process /\ Collector \in Process
    BY <1>2, TurnFacts, ProcessIs
  <1>5. Gives(Distributor, v)
    BY <1>1, <1>3, <1>4, WordsAreDealt
  <1>6. Moved(Distributor, v)
    BY <1>2, <1>3
  <1>7. LoopsOK'
    BY <1>1, <1>2, <1>4, LoopsStep
  <1>8. StreamsOK'
    BY <1>1, <1>2, <1>4, <1>5, <1>6, StreamsStep
  <1>9. ShapesOK'
    BY <1>1, <1>2, ShapesStay DEF ShapesOK
  <1>10. PartsOK'
    BY <1>1, <1>2, PartsStay
  <1>11. OutOK'
    <2>1. Still(Collector)
      BY <1>1, <1>2, <1>4, OthersStill, ProcessesDiffer
    <2> QED
      BY <1>1, <1>2, <2>1, OutStays
  <1>12. call' \in Call /\ CutsAgree'
    BY <1>1, <1>2, CutsStay
  <1> QED
    BY <1>7, <1>8, <1>9, <1>10, <1>11, <1>12 DEF IInv

-----------------------------------------------------------------------------
(* collect.                                                                *)
LEMMA CollectsFromAPart ==
  ASSUME call \in Call, NEW c \in Nat
  PROVE  CollectsFrom(c) \in Parts
  <1>1. /\ PartWords \in Nat /\ call.parts \in Nat \ {0, 1}
        /\ PartWords >= 2 * Overhang /\ Overhang \in Nat \ {0}
    BY CallFacts, OverhangFacts
  <1>2. PartWords \in Nat \ {0}
    BY <1>1
  <1>3. PICK n \in Nat : n = call.parts - 1
    BY <1>1
  <1>4. c < n * PartWords <=> c \div PartWords < n
    BY <1>2, WordIsIn
  <1>5. c \div PartWords \in Nat
    BY <1>2, Quotient
  <1>6. n * PartWords \in Nat
    BY <1>2, OneMore
  <1>7. ~(c >= n * PartWords) => c \div PartWords < n
    BY <1>4, <1>6
  <1>8. CollectsFrom(c) = IF c >= n * PartWords THEN call.parts
                          ELSE c \div PartWords + 1
    BY <1>3 DEF CollectsFrom
  <1>9. PICK d \in Nat : d = c \div PartWords
    BY <1>5
  <1>10. CASE c >= n * PartWords
    BY <1>1, <1>8, <1>10 DEF Parts
  <1>11. CASE ~(c >= n * PartWords)
    <2>1. CollectsFrom(c) = d + 1 /\ d < n
      BY <1>7, <1>8, <1>9, <1>11
    <2> QED
      BY <1>1, <1>3, <2>1 DEF Parts
  <1> QED
    BY <1>10, <1>11

LEMMA WordIsCollected ==
  ASSUME IInv, HasTurn(Collector), NEW y, NEW c,
         y = Row(Collector), c = Col(Collector)
  PROVE  /\ y \in Nat /\ c \in Nat /\ c < call.width /\ y < call.height
         /\ \E k \in Parts :
              /\ CollectsFrom(c) = k /\ c - Left(k) \in 0..(WordsOf(k) - 1)
              /\ Incoming(Collector) \in [Lanes -> Results]
              /\ WordFits(k, y, c - Left(k), Incoming(Collector))
  <1>1. call \in Call /\ LoopsOK /\ StreamsOK
    BY DEF IInv
  <1>2. y \in Nat /\ c \in Nat /\ c < call.width /\ y < call.height
    BY <1>1, TurnFacts, LoopTypes, LoopIs, ProcessIs
  <1>3. PICK k : k = CollectsFrom(c)
    OBVIOUS
  <1>4. k \in Parts
    BY <1>1, <1>2, <1>3, CollectsFromAPart
  <1>5. c - Left(k) \in 0..(WordsOf(k) - 1)
    BY <1>1, <1>2, <1>3, <1>4, CollectsFromIs
  <1>6. PICK s : s = <<"packed", k>>
    OBVIOUS
  <1>7. s \in Streams /\ Pops(Collector) = {s}
    BY <1>3, <1>4, <1>6, StreamsAre, PopsIs
  <1>8. /\ Incoming(Collector) \in Payload(s[1])
        /\ Incoming(Collector) \in Contents(s)[Taken(s)]
        /\ Taken(s) \in Nat
    BY <1>1, <1>7, IncomingIs, ProcessIs
  <1>9. PICK o \in Nat, n \in Nat : o = Left(k) /\ n = WordsOf(k)
    BY <1>1, <1>4, PartFacts
  <1>10. PICK m : m = Line(n, o, y, c)
    OBVIOUS
  <1>11. m \in Nat /\ m \div n = y /\ m % n = c - o
    <2>1. n \in Nat \ {0} /\ c - o \in 0..(n - 1)
      BY <1>5, <1>9
    <2> QED
      BY <1>2, <1>10, <2>1, LinePlace
  <1>12. Taken(s) = m
    <2>1. Taken(s) = TakenAt(s, y, c)
      BY <1>6, EndsAre DEF Taken
    <2>2. TakenAt(s, y, c) = CollectedAt(k, y, c)
      BY <1>6, CountsAre
    <2> QED
      BY <1>9, <1>10, <2>1, <2>2 DEF CollectedAt
  <1>13. \A v : v \in Contents(s)[m] =>
                  v \in [Lanes -> Results] /\ WordFits(k, y, c - o, v)
    BY <1>6, <1>9, <1>11, PackedAre
  <1>14. /\ Incoming(Collector) \in [Lanes -> Results]
         /\ WordFits(k, y, c - o, Incoming(Collector))
    BY <1>8, <1>11, <1>12, <1>13
  <1> QED
    BY <1>2, <1>3, <1>4, <1>5, <1>9, <1>14

LEMMA Collecting ==
  ASSUME IInv, Collect
  PROVE  IInv'
  <1>1. /\ call \in Call /\ CutsAgree
        /\ LoopsOK /\ ShapesOK /\ StreamsOK /\ PartsOK /\ OutOK
    BY DEF IInv
  <1>2. /\ HasTurn(Collector) /\ out' = Incoming(Collector)
        /\ Moved(Collector, NoWord) /\ Advance(Collector)
        /\ call' = call /\ UNCHANGED <<held, inPixel, lineBuff, winTmp>>
    BY DEF Collect
  <1>3. ~Finished(Collector) /\ Collector \in Process
    BY <1>2, TurnFacts, ProcessIs
  <1>4. Gives(Collector, NoWord)
    BY PushesIs DEF Gives
  <1>5. PICK y, c : y = Row(Collector) /\ c = Col(Collector)
    OBVIOUS
  <1>6. y \in Nat /\ c \in Nat /\ c < call.width /\ y < call.height
    BY <1>2, <1>5, WordIsCollected
  <1>7. PICK k \in Parts :
          /\ CollectsFrom(c) = k /\ c - Left(k) \in 0..(WordsOf(k) - 1)
          /\ Incoming(Collector) \in [Lanes -> Results]
          /\ WordFits(k, y, c - Left(k), Incoming(Collector))
    BY <1>2, <1>5, WordIsCollected
  <1>8. LoopsOK'
    BY <1>1, <1>2, <1>3, LoopsStep
  <1>9. StreamsOK'
    BY <1>1, <1>2, <1>3, <1>4, StreamsStep
  <1>10. ShapesOK'
    BY <1>1, <1>2, <1>7, ShapesStay
  <1>11. PartsOK'
    BY <1>1, <1>2, PartsStay
  <1>12. PICK w \in Nat \ {0} : w = call.width
    BY <1>1, <1>6, CallFacts
  <1>13. Collected' = y * w + c + 1 /\ y * w \in Nat
    <2>1. y * w \in Nat /\ (y + 1) * w = y * w + w
      BY <1>6, OneMore
    <2>2. /\ Row(Collector)' = AfterRow(Collector)
          /\ Col(Collector)' = AfterCol(Collector)
      BY <1>1, <1>2, <1>3, Advanced
    <2>3. Collected' = AfterRow(Collector) * w + AfterCol(Collector)
      BY <1>2, <1>12, <2>2 DEF Collected
    <2>4. \/ AfterRow(Collector) = y /\ AfterCol(Collector) = c + 1
          \/ AfterRow(Collector) = y + 1 /\ AfterCol(Collector) = 0 /\ c + 1 = w
      BY <1>1, <1>3, <1>5, <1>12, Moving, LoopIs
    <2>5. CASE AfterRow(Collector) = y /\ AfterCol(Collector) = c + 1
      <3>1. Collected' = y * w + (c + 1)
        BY <2>3, <2>5
      <3> QED
        BY <1>6, <2>1, <3>1
    <2>6. CASE AfterRow(Collector) = y + 1 /\ AfterCol(Collector) = 0 /\ c + 1 = w
      <3>1. Collected' = (y + 1) * w + 0
        BY <2>3, <2>6
      <3> QED
        BY <1>6, <2>1, <2>6, <3>1
    <2> QED
      BY <2>4, <2>5, <2>6
  <1>14. (Collected' - 1) \div w = y /\ (Collected' - 1) % w = c
    <2>1. (y * w + c) \div w = y /\ (y * w + c) % w = c
      <3>1. c \in 0..(w - 1)
        BY <1>6, <1>12
      <3> QED
        BY <1>6, <3>1, DivMod
    <2>2. Collected' - 1 = y * w + c
      BY <1>6, <1>13
    <2> QED
      BY <2>1, <2>2
  <1>15. PICK v : v = Incoming(Collector)
    OBVIOUS
  <1>16. ASSUME NEW l \in Lanes,
                y + Radius < call.height \/ CollectsFrom(c) = call.parts,
                (c * Vect + l) + Radius < call.width * Vect \/ call.padding = "CLAMP"
         PROVE  v[l] = Stored(Neighbourhood(y, c * Vect + l, SplitOrder(k)))
    <2>1. Vect \in Nat \ {0} /\ Radius \in Nat /\ l \in Nat
      BY <1>1, CallFacts DEF Lanes
    <2>2. PICK x : x = (c - Left(k)) * Vect + l
      OBVIOUS
    <2>3. LaneFits(k, y, x, v[l])
      BY <1>7, <1>15, <2>2 DEF WordFits
    <2>4. Left(k) \in Nat /\ Left(k) * Vect \in Nat /\ c * Vect \in Nat
      BY <1>1, <1>6, <2>1, PartFacts, OneMore
    <2>5. (c - Left(k)) * Vect = c * Vect - Left(k) * Vect
      <3>1. PICK a \in Nat : a = Left(k)
        BY <2>4
      <3>2. (c - a) * Vect = c * Vect - a * Vect
        BY <1>6, <2>1
      <3> QED
        BY <3>1, <3>2
    <2>6. PICK L \in Nat : L = Left(k) * Vect
      BY <2>4
    <2>7. PICK C \in Nat : C = c * Vect
      BY <2>4
    <2>8. x = C - L + l
      BY <2>2, <2>5, <2>6, <2>7
    <2>9. L + x = C + l
      BY <2>1, <2>8
    <2>10. IsExact(k, y, x)
      <3>1. y + Radius < call.height \/ k = call.parts
        BY <1>7, <1>16
      <3>2. ASSUME k = call.parts, call.padding # "CLAMP"
            PROVE  x + Radius < WidthOf(k)
        <4>1. PICK I \in Nat : I = call.width * Vect
          BY <1>1, PixelFacts
        <4>2. L + WidthOf(k) = I /\ WidthOf(k) \in Nat
          BY <1>1, <2>6, <3>2, <4>1, PixelFacts
        <4>3. (C + l) + Radius < I
          BY <1>16, <2>7, <3>2, <4>1
        <4> QED
          BY <2>1, <2>8, <4>2, <4>3
      <3> QED
        BY <3>1, <3>2 DEF IsExact
    <2>11. v[l] = Stored(Neighbourhood(y, Left(k) * Vect + x, SplitOrder(k)))
      BY <2>3, <2>10 DEF LaneFits
    <2>12. Left(k) * Vect + x = c * Vect + l
      BY <2>6, <2>7, <2>9
    <2> QED
      BY <2>11, <2>12
  <1>17. OutOK'
    <2>1. /\ Vect' = Vect /\ Radius' = Radius /\ Lanes' = Lanes
          /\ PartWords' = PartWords
          /\ \A a : SplitOrder(a)' = SplitOrder(a)
      BY <1>2, CallStays
    <2>2. \A a, d, e : Neighbourhood(a, d, e)' = Neighbourhood(a, d, e)
      BY <1>2, ContentsStay
    <2>3. \A d : CollectsFrom(d)' = CollectsFrom(d)
      BY <1>2, <2>1 DEF CollectsFrom
    <2>4. out' = v /\ call' = call
      BY <1>2, <1>15
    <2>5. LastLine' = y /\ LastWord' = c
      BY <1>12, <1>14, <2>4 DEF LastLine, LastWord
    <2>6. \A l \in Lanes : HasWindow(y, c, l) =>
            v[l] = Stored(Neighbourhood(y, c * Vect + l, SplitOrder(k)))
      BY <1>16 DEF HasWindow
    <2>7. \A l : HasWindow(y, c, l)' <=> HasWindow(y, c, l)
      BY <2>1, <2>3, <2>4 DEF HasWindow
    <2> QED
      BY <1>7, <2>1, <2>2, <2>3, <2>4, <2>5, <2>6, <2>7 DEF OutOK, Stored, Reversed
  <1>18. call' \in Call /\ CutsAgree'
    BY <1>1, <1>2, CutsStay
  <1> QED
    BY <1>8, <1>9, <1>10, <1>11, <1>17, <1>18 DEF IInv

-----------------------------------------------------------------------------
(* split.                                                                  *)
LEMMA HeldStep ==
  ASSUME ShapesOK, NEW p \in {"split", "assemble"} \X Parts, NEW word,
         held' = [held EXCEPT ![p] = word]
  PROVE  /\ DOMAIN held' = {"split", "assemble"} \X Parts
         /\ held'[p] = word
         /\ \A q \in {"split", "assemble"} \X Parts : q # p => held'[q] = held[q]
  BY DEF ShapesOK

SplitWord(k) == IF Pops(<<"split", k>>) = {} THEN held[<<"split", k>>]
                                             ELSE Incoming(<<"split", k>>)

(* The word split takes apart is the one the loop is at.                   *)
LEMMA WordIsHeld ==
  ASSUME IInv, NEW k \in Parts, HasTurn(<<"split", k>>), NEW y, NEW c,
         y = Row(<<"split", k>>), c = Col(<<"split", k>>)
  PROVE  /\ SplitWord(k) \in Words
         /\ c \div Vect < WordsIn(k) => SplitWord(k) = <<y, FirstWord(k) + (c \div Vect)>>
  <1>1. call \in Call /\ LoopsOK /\ StreamsOK /\ ShapesOK /\ SplitOK(k)
    BY DEF IInv, PartsOK
  <1>2. PICK p \in Process : p = <<"split", k>>
    BY ProcessIs
  <1>3. y \in Nat /\ c \in Nat /\ c < Columns(p)
    BY <1>1, <1>2, LoopTypes
  <1>4. PICK V \in Nat \ {0}, n \in Nat \ {0}, o \in Nat :
          V = Vect /\ n = WordsIn(k) /\ o = FirstWord(k)
    BY <1>1, CallFacts, WordFacts
  <1>5. c < n * V <=> c \div V < n
    BY <1>3, WordIsIn
  <1>6. SplitReads(k, c) <=> c % V = 0 /\ c < n * V
    BY <1>1, <1>2, <1>3, <1>4, SplitReadsIs
  <1>7. PICK s : s = <<"words", k>>
    OBVIOUS
  <1>8. Pops(p) = IF SplitReads(k, c) THEN {s} ELSE {}
    BY <1>2, <1>7, PopsIs
  <1>9. CASE SplitReads(k, c)
    <2>1. SplitWord(k) = Incoming(p)
      BY <1>2, <1>8, <1>9 DEF SplitWord
    <2>2. s \in Streams /\ Pops(p) = {s}
      BY <1>7, <1>8, <1>9, StreamsAre
    <2>3. /\ Incoming(p) \in Payload(s[1])
          /\ Incoming(p) \in Contents(s)[Taken(s)]
          /\ Taken(s) \in Nat
      BY <1>1, <1>2, <2>2, IncomingIs
    <2>4. Payload(s[1]) = Words
      BY <1>7, PayloadsAre
    <2>5. PICK m \in Nat : m = Taken(s)
      BY <2>3
    <2>6. m = LineBegun(n, V, y, c)
      <3>1. Taken(s) = TakenAt(s, y, c)
        BY <1>7, EndsAre DEF Taken
      <3>2. TakenAt(s, y, c) = UnpackedAt(k, y, c)
        BY <1>7, CountsAre
      <3> QED
        BY <1>4, <2>5, <3>1, <3>2 DEF UnpackedAt
    <2>7. m \div n = y /\ m % n = c \div V
      BY <1>3, <1>6, <1>9, <2>6, BegunPlace
    <2>8. Contents(s)[m] = {<<m \div n, o + (m % n)>>}
      BY <1>4, <1>7, <2>5, ContentsAre
    <2>9. Incoming(p) = <<y, o + (c \div V)>>
      BY <2>3, <2>5, <2>7, <2>8
    <2> QED
      BY <1>4, <2>1, <2>3, <2>4, <2>9
  <1>10. CASE ~SplitReads(k, c)
    <2>1. SplitWord(k) = held[p]
      BY <1>2, <1>8, <1>10 DEF SplitWord
    <2>2. held[p] \in Words
      BY <1>1, <1>2 DEF ShapesOK
    <2>3. c \div V < n => held[p] = <<y, o + (c \div V)>>
      BY <1>1, <1>2, <1>4, <1>5, <1>6, <1>10 DEF SplitOK
    <2> QED
      BY <1>4, <2>1, <2>2, <2>3
  <1> QED
    BY <1>9, <1>10

LEMMA OrderTypes ==
  /\ \A k : SplitOrder(k) \in Orders
  /\ \A w : w \in Windows => Stored(w) \in Results
  BY DEF SplitOrder, Packed, Reversed, Orders, Stored, Results

LEMMA PixelsAreCast ==
  ASSUME IInv, NEW k \in Parts, HasTurn(<<"split", k>>), NEW v,
         v = PixelOf(SplitWord(k), Col(<<"split", k>>) % Vect, SplitOrder(k))
  PROVE  Gives(<<"split", k>>, v)
  <1>1. call \in Call /\ LoopsOK
    BY DEF IInv
  <1>2. PICK p \in Process : p = <<"split", k>>
    BY ProcessIs
  <1>3. PICK y, c : y = Row(p) /\ c = Col(p)
    OBVIOUS
  <1>4. SUFFICES ASSUME NEW s \in Streams, s \in Pushes(p)
                 PROVE  v \in Payload(s[1]) /\ v \in Contents(s)[Given(s)]
    BY <1>2 DEF Gives
  <1>5. s = <<"pixels", k>> /\ SplitWrites(k, c)
    BY <1>2, <1>3, <1>4, PushesIs
  <1>6. y \in Nat /\ c \in Nat /\ y < call.height
    BY <1>1, <1>2, <1>3, TurnFacts, LoopTypes, LoopIs
  <1>7. PICK o \in Nat, n \in Nat \ {0}, f \in Nat :
          o = Skip(k) /\ n = PixelsIn(k) /\ f = FirstPixel(k)
    BY <1>1, PixelsInFacts
  <1>8. c - o \in 0..(n - 1)
    BY <1>1, <1>5, <1>6, <1>7, SplitWritesIs
  <1>9. PICK V \in Nat \ {0}, N \in Nat, F \in Nat :
          V = Vect /\ N = WordsIn(k) /\ F = FirstWord(k)
    BY <1>1, CallFacts, WordFacts
  <1>10. PICK w \in Nat : w = N * V
    BY <1>9, OneMore
  <1>11. PICK g \in Nat : g = F * V
    BY <1>9, OneMore
  <1>12. o + n <= w /\ g + o = f
    BY <1>1, <1>7, <1>9, <1>10, <1>11, PixelsInFacts
  <1>13. c < N * V
    BY <1>6, <1>8, <1>10, <1>12
  <1>14. PICK q \in Nat, m \in 0..(V - 1) : c = q * V + m /\ c \div V = q /\ c % V = m
    BY <1>6, Quotient
  <1>15. SplitWord(k) = <<y, F + q>>
    <2>1. q < N
      BY <1>6, <1>13, <1>14, WordIsIn
    <2> QED
      BY <1>2, <1>3, <1>4, <1>9, <1>14, <2>1, WordIsHeld
  <1>16. v = <<y, (F + q) * V + m, SplitOrder(k)>>
    <2>1. <<y, F + q>> # NoWord
      BY <1>6 DEF NoWord
    <2>2. v = PixelOf(<<y, F + q>>, m, SplitOrder(k))
      BY <1>2, <1>3, <1>9, <1>14, <1>15
    <2> QED
      BY <1>9, <2>1, <2>2 DEF PixelOf
  <1>17. (F + q) * V + m = g + c
    <2>1. (F + q) * V = F * V + q * V /\ q * V \in Nat
      BY <1>9
    <2> QED
      BY <1>11, <1>14, <2>1
  <1>18. v = <<y, f + (c - o), SplitOrder(k)>>
    BY <1>6, <1>12, <1>16, <1>17
  <1>19. PICK i : i = Line(n, o, y, c)
    OBVIOUS
  <1>20. i \in Nat /\ i \div n = y /\ i % n = c - o
    BY <1>6, <1>8, <1>19, LinePlace
  <1>21. Given(s) = i
    <2>1. Given(s) = GivenAt(s, y, c)
      BY <1>2, <1>3, <1>5, EndsAre DEF Given
    <2>2. GivenAt(s, y, c) = CastAt(k, y, c)
      BY <1>5, CountsAre
    <2> QED
      BY <1>7, <1>19, <2>1, <2>2 DEF CastAt
  <1>22. Contents(s)[i] = {<<i \div n, f + (i % n), SplitOrder(k)>>}
    BY <1>5, <1>7, <1>20, ContentsAre
  <1>23. v \in Contents(s)[Given(s)]
    BY <1>18, <1>20, <1>21, <1>22
  <1>24. v \in Pixels
    <2>1. PICK I \in Nat : I = call.width * Vect
      BY <1>1, PixelFacts
    <2>2. f + n <= I
      BY <1>1, <1>7, <2>1, PixelsInFacts
    <2>3. f + (c - o) \in 0..(I - 1)
      BY <1>6, <1>8, <2>2
    <2>4. y \in 0..(call.height - 1)
      BY <1>1, <1>6, CallFacts
    <2> QED
      BY <1>18, <2>1, <2>3, <2>4, OrderTypes DEF Pixels
  <1>25. Payload(s[1]) = Pixels
    BY <1>5, PayloadsAre
  <1> QED
    BY <1>23, <1>24, <1>25

LEMMA Splitting ==
  ASSUME IInv, NEW k \in Parts, Split(k)
  PROVE  IInv'
  <1>1. /\ call \in Call /\ CutsAgree
        /\ LoopsOK /\ ShapesOK /\ StreamsOK /\ PartsOK /\ OutOK
    BY DEF IInv
  <1>2. PICK p \in Process : p = <<"split", k>>
    BY ProcessIs
  <1>3. PICK word : word = SplitWord(k)
    OBVIOUS
  <1>4. /\ HasTurn(p) /\ held' = [held EXCEPT ![p] = word]
        /\ Moved(p, PixelOf(word, Col(p) % Vect, SplitOrder(k))) /\ Advance(p)
        /\ call' = call /\ out' = out
        /\ UNCHANGED <<inPixel, lineBuff, winTmp>>
    BY <1>2, <1>3 DEF Split, SplitWord
  <1>5. ~Finished(p)
    BY <1>4, TurnFacts
  <1>6. PICK v : v = PixelOf(word, Col(p) % Vect, SplitOrder(k))
    OBVIOUS
  <1>7. Gives(p, v)
    BY <1>2, <1>3, <1>4, <1>6, PixelsAreCast
  <1>8. Moved(p, v)
    BY <1>4, <1>6
  <1>9. LoopsOK'
    BY <1>1, <1>4, <1>5, LoopsStep
  <1>10. StreamsOK'
    BY <1>1, <1>4, <1>7, <1>8, StreamsStep
  <1>11. /\ DOMAIN held' = {"split", "assemble"} \X Parts
         /\ held'[p] = word
         /\ \A q \in {"split", "assemble"} \X Parts : q # p => held'[q] = held[q]
    <2>1. p \in {"split", "assemble"} \X Parts
      BY <1>2
    <2> QED
      BY <1>1, <1>4, <2>1, HeldStep
  <1>12. Parts' = Parts /\ Lanes' = Lanes
    BY <1>4, CallStays
  <1>13. PICK y, c : y = Row(p) /\ c = Col(p)
    OBVIOUS
  <1>14. /\ word \in Words
         /\ c \div Vect < WordsIn(k) => word = <<y, FirstWord(k) + (c \div Vect)>>
    BY <1>2, <1>3, <1>4, <1>13, WordIsHeld
  <1>15. ShapesOK'
    <2>1. /\ Pixels' = Pixels /\ Windows' = Windows /\ Words' = Words
          /\ Results' = Results
          /\ \A j : Buffers(j)' = Buffers(j)
      BY <1>4, ContentsStay
    <2>2. \A j \in Parts : held'[<<"assemble", j>>] = held[<<"assemble", j>>]
      BY <1>2, <1>11, ProcessesDiffer
    <2>3. \A j \in Parts : held'[<<"split", j>>] \in Words
      <3>1. SUFFICES ASSUME NEW j \in Parts
                     PROVE  held'[<<"split", j>>] \in Words
        OBVIOUS
      <3>2. CASE j = k
        BY <1>2, <1>11, <1>14, <3>2
      <3>3. CASE j # k
        <4>1. held'[<<"split", j>>] = held[<<"split", j>>]
          BY <1>2, <1>11, <3>3
        <4> QED
          BY <1>1, <4>1 DEF ShapesOK
      <3> QED
        BY <3>2, <3>3
    <2> QED
      BY <1>1, <1>4, <1>11, <1>12, <2>1, <2>2, <2>3 DEF ShapesOK
  <1>16. SplitOK(k)'
    <2>1. /\ Row(p)' = AfterRow(p) /\ Col(p)' = AfterCol(p)
      BY <1>1, <1>4, Advanced
    <2>2. PICK V \in Nat \ {0} : V = Vect
      BY <1>1, CallFacts
    <2>3. PICK n : n = WordsIn(k)
      OBVIOUS
    <2>4. y \in Nat /\ c \in Nat
      BY <1>1, <1>13, LoopTypes
    <2>5. \/ AfterRow(p) = y /\ AfterCol(p) = c + 1
          \/ AfterCol(p) = 0
      BY <1>1, <1>5, <1>13, Moving
    <2>6. ASSUME AfterCol(p) % V # 0, AfterCol(p) \div V < n
          PROVE  word = <<AfterRow(p), FirstWord(k) + (AfterCol(p) \div V)>>
      <3>1. 0 % V = 0
        BY <2>2
      <3>2. AfterRow(p) = y /\ AfterCol(p) = c + 1
        BY <2>5, <2>6, <3>1
      <3>3. (c + 1) \div V = c \div V
        BY <2>4, <2>6, <3>2, NextPixel
      <3> QED
        BY <1>14, <2>2, <2>6, <2>3, <3>2, <3>3
    <2>7. /\ Vect' = V /\ WordsIn(k)' = n /\ FirstWord(k)' = FirstWord(k)
      BY <1>4, <2>2, <2>3, CallStays
    <2>8. PICK e, q : e = AfterCol(p) /\ q = AfterRow(p)
      OBVIOUS
    <2>9. Col(<<"split", k>>)' = e /\ Row(<<"split", k>>)' = q /\ held'[<<"split", k>>] = word
      BY <1>2, <1>11, <2>1, <2>8 DEF Row, Col
    <2> QED
      BY <2>6, <2>7, <2>8, <2>9 DEF SplitOK
  <1>17. PartsOK'
    <2>1. ASSUME NEW j \in Parts
          PROVE  /\ SplitOK(j)' /\ AssembleOK(j)'
                 /\ PixelOK(j)' /\ LinesOK(j)' /\ WindowOK(j)'
      <3>1. Still(<<"process", j>>) /\ Still(<<"assemble", j>>)
        BY <1>1, <1>2, <1>4, OthersStill, ProcessIs, ProcessesDiffer
      <3>2. /\ SplitOK(j) /\ AssembleOK(j)
            /\ PixelOK(j) /\ LinesOK(j) /\ WindowOK(j)
        BY <1>1 DEF PartsOK
      <3>3. SplitOK(j)'
        <4>1. CASE j = k
          BY <1>16, <4>1
        <4>2. CASE j # k
          <5>1. Still(<<"split", j>>)
            BY <1>1, <1>2, <1>4, <4>2, OthersStill, ProcessIs, ProcessesDiffer
          <5>2. held'[<<"split", j>>] = held[<<"split", j>>]
            BY <1>2, <1>11, <4>2
          <5> QED
            BY <1>4, <3>2, <5>1, <5>2, SplitStays
        <4> QED
          BY <4>1, <4>2
      <3>4. AssembleOK(j)'
        <4>1. held'[<<"assemble", j>>] = held[<<"assemble", j>>]
          BY <1>2, <1>11, ProcessesDiffer
        <4> QED
          BY <1>4, <3>1, <3>2, <4>1, AssembleStays
      <3>5. PixelOK(j)' /\ LinesOK(j)' /\ WindowOK(j)'
        BY <1>4, <3>1, <3>2, ProcessStays
      <3> QED
        BY <3>3, <3>4, <3>5
    <2> QED
      BY <1>12, <2>1 DEF PartsOK
  <1>18. OutOK'
    <2>1. Still(Collector)
      BY <1>1, <1>2, <1>4, OthersStill, ProcessIs, ProcessesDiffer
    <2> QED
      BY <1>1, <1>4, <2>1, OutStays
  <1>19. call' \in Call /\ CutsAgree'
    BY <1>1, <1>4, CutsStay
  <1> QED
    BY <1>9, <1>10, <1>15, <1>17, <1>18, <1>19 DEF IInv

-----------------------------------------------------------------------------
(* assemble.                                                               *)
AssembleWord(k) ==
  IF Pops(<<"assemble", k>>) = {} THEN held[<<"assemble", k>>]
  ELSE [held[<<"assemble", k>>] EXCEPT ![Col(<<"assemble", k>>) % Vect] =
                                          Stored(Incoming(<<"assemble", k>>))]

LEMMA LanesAreHeld ==
  ASSUME IInv, NEW k \in Parts, HasTurn(<<"assemble", k>>), NEW y, NEW c,
         y = Row(<<"assemble", k>>), c = Col(<<"assemble", k>>)
  PROVE  /\ AssembleWord(k) \in [Lanes -> Results]
         /\ c < WidthOf(k) => \A l \in Lanes : l <= c % Vect =>
              LaneFits(k, y, (c \div Vect) * Vect + l, AssembleWord(k)[l])
  <1>1. call \in Call /\ LoopsOK /\ StreamsOK /\ ShapesOK /\ AssembleOK(k)
    BY DEF IInv, PartsOK
  <1>2. PICK p \in Process : p = <<"assemble", k>>
    BY ProcessIs
  <1>3. y \in Nat /\ c \in Nat
    BY <1>1, <1>2, LoopTypes
  <1>4. PICK V \in Nat \ {0}, n \in Nat : V = Vect /\ n = WidthOf(k)
    BY <1>1, CallFacts, PixelFacts
  <1>5. PICK q \in Nat, m \in 0..(V - 1) : c = q * V + m /\ c \div V = q /\ c % V = m
    BY <1>3, Quotient
  <1>6. PICK h : h = held[p]
    OBVIOUS
  <1>7. h \in [Lanes -> Results] /\ Lanes = 0..(V - 1)
    BY <1>1, <1>2, <1>4, <1>6 DEF ShapesOK, Lanes
  <1>8. c < n => \A l \in Lanes : l < m => LaneFits(k, y, q * V + l, h[l])
    BY <1>1, <1>2, <1>4, <1>5, <1>6 DEF AssembleOK, LanesFit
  <1>9. PICK s : s = <<"results", k>>
    OBVIOUS
  <1>10. Pops(p) = IF c < n THEN {s} ELSE {}
    BY <1>2, <1>4, <1>9, PopsIs DEF AssembleReads
  <1>11. CASE c < n
    <2>1. PICK w, z : w = Incoming(p) /\ z = Stored(w)
      OBVIOUS
    <2>2. s \in Streams /\ Pops(p) = {s}
      BY <1>9, <1>10, <1>11, StreamsAre
    <2>3. w \in Contents(s)[Taken(s)] /\ Taken(s) \in Nat
      BY <1>1, <1>2, <2>1, <2>2, IncomingIs
    <2>4. PICK i : i = Line(n, 0, y, c)
      OBVIOUS
    <2>5. i \in Nat /\ i \div n = y /\ i % n = c
      <3>1. n \in Nat \ {0} /\ c - 0 \in 0..(n - 1) /\ 0 \in Nat
        BY <1>3, <1>11
      <3>2. i \in Nat /\ i \div n = y /\ i % n = c - 0
        BY <1>3, <2>4, <3>1, LinePlace
      <3> QED
        BY <1>3, <3>2
    <2>6. Taken(s) = i
      <3>1. Taken(s) = TakenAt(s, y, c)
        BY <1>9, EndsAre DEF Taken
      <3>2. TakenAt(s, y, c) = GatheredAt(k, y, c)
        BY <1>9, CountsAre
      <3> QED
        BY <1>4, <2>4, <3>1, <3>2 DEF GatheredAt
    <2>7. \A x : x \in Contents(s)[i] => x \in Windows /\ Fits(k, y, c, x)
      BY <1>4, <1>9, <2>5, ResultsAre
    <2>8. w \in Windows /\ Fits(k, y, c, w)
      BY <2>3, <2>6, <2>7
    <2>9. AssembleWord(k) = [h EXCEPT ![m] = z]
      BY <1>2, <1>4, <1>5, <1>6, <2>1, <2>2 DEF AssembleWord
    <2>10. z \in Results /\ LaneFits(k, y, c, z)
      BY <2>1, <2>8, OrderTypes DEF Fits, LaneFits
    <2>11. [h EXCEPT ![m] = z] \in [Lanes -> Results]
      BY <1>7, <2>10
    <2>12. ASSUME NEW l \in Lanes, l <= m
           PROVE  LaneFits(k, y, q * V + l, [h EXCEPT ![m] = z][l])
      <3>1. CASE l = m
        BY <1>5, <1>7, <2>10, <3>1
      <3>2. CASE l # m
        <4>1. l < m /\ [h EXCEPT ![m] = z][l] = h[l]
          BY <1>7, <2>12, <3>2
        <4> QED
          BY <1>8, <1>11, <4>1
      <3> QED
        BY <3>1, <3>2
    <2> QED
      BY <1>4, <1>5, <2>9, <2>11, <2>12
  <1>12. CASE ~(c < n)
    <2>1. AssembleWord(k) = h
      BY <1>2, <1>6, <1>10, <1>12 DEF AssembleWord
    <2> QED
      BY <1>4, <1>7, <1>12, <2>1
  <1> QED
    BY <1>11, <1>12

LEMMA WordsArePacked ==
  ASSUME IInv, NEW k \in Parts, HasTurn(<<"assemble", k>>), NEW v, v = AssembleWord(k)
  PROVE  Gives(<<"assemble", k>>, v)
  <1>1. call \in Call /\ LoopsOK
    BY DEF IInv
  <1>2. PICK p \in Process : p = <<"assemble", k>>
    BY ProcessIs
  <1>3. PICK y, c : y = Row(p) /\ c = Col(p)
    OBVIOUS
  <1>4. SUFFICES ASSUME NEW s \in Streams, s \in Pushes(p)
                 PROVE  v \in Payload(s[1]) /\ v \in Contents(s)[Given(s)]
    BY <1>2 DEF Gives
  <1>5. y \in Nat /\ c \in Nat
    BY <1>1, <1>3, LoopTypes
  <1>6. PICK V \in Nat \ {0}, n \in Nat \ {0} : V = Vect /\ n = WordsOf(k)
    <2>1. WordsOf(k) \in Nat /\ WordsOf(k) >= 2 * Overhang /\ Overhang \in Nat \ {0}
      BY <1>1, PartFacts, OverhangFacts
    <2> HIDE DEF WordsOf, Overhang
    <2>2. WordsOf(k) \in Nat \ {0}
      BY <2>1
    <2> QED
      BY <1>1, <2>2, CallFacts
  <1>7. s = <<"packed", k>> /\ c < WidthOf(k) /\ c % V = V - 1
    BY <1>2, <1>3, <1>4, <1>6, PushesIs DEF AssembleWrites
  <1>8. c < n * V
    BY <1>6, <1>7 DEF WidthOf
  <1>9. PICK q \in Nat : q = c \div V
    BY <1>5, Quotient
  <1>10. /\ v \in [Lanes -> Results]
         /\ \A l \in Lanes : l <= V - 1 => LaneFits(k, y, q * V + l, v[l])
    BY <1>2, <1>3, <1>4, <1>6, <1>7, <1>9, LanesAreHeld
  <1>11. WordFits(k, y, q, v)
    <2>1. \A l \in Lanes : l <= V - 1
      BY <1>6 DEF Lanes
    <2> QED
      BY <1>6, <1>10, <2>1 DEF WordFits
  <1>12. PICK i : i = LineEnded(n, V, y, c)
    OBVIOUS
  <1>13. i \in Nat /\ i \div n = y /\ i % n = q
    <2>1. q \in 0..(n - 1)
      <3>1. c \div V < n
        BY <1>5, <1>6, <1>8, WordIsIn
      <3> QED
        BY <1>9, <3>1
    <2>2. IsPlace(LineEnded(n, V, y, c), n, y, q)
      BY <1>5, <1>9, <2>1, EndedPlace
    <2> QED
      BY <1>12, <2>2 DEF IsPlace
  <1>14. Given(s) = i
    <2>1. Given(s) = GivenAt(s, y, c)
      BY <1>2, <1>3, <1>7, EndsAre DEF Given
    <2>2. GivenAt(s, y, c) = PackedAt(k, y, c)
      BY <1>7, CountsAre
    <2> QED
      BY <1>6, <1>12, <2>1, <2>2 DEF PackedAt
  <1>15. v \in Contents(s)[i]
    BY <1>6, <1>7, <1>10, <1>11, <1>13, PackedAre
  <1>16. Payload(s[1]) = [Lanes -> Results]
    BY <1>7, PayloadsAre
  <1> QED
    BY <1>10, <1>14, <1>15, <1>16

LEMMA AssemblingParts ==
  ASSUME IInv, NEW k \in Parts, Assembling(k)
  PROVE  IInv'
  <1>1. /\ call \in Call /\ CutsAgree
        /\ LoopsOK /\ ShapesOK /\ StreamsOK /\ PartsOK /\ OutOK
    BY DEF IInv
  <1>2. PICK p \in Process : p = <<"assemble", k>>
    BY ProcessIs
  <1>3. PICK word : word = AssembleWord(k)
    OBVIOUS
  <1>4. /\ HasTurn(p) /\ held' = [held EXCEPT ![p] = word]
        /\ Moved(p, word) /\ Advance(p)
        /\ call' = call /\ out' = out
        /\ UNCHANGED <<inPixel, lineBuff, winTmp>>
    BY <1>2, <1>3 DEF Assembling, AssembleWord
  <1>5. ~Finished(p)
    BY <1>4, TurnFacts
  <1>6. Gives(p, word)
    BY <1>2, <1>3, <1>4, WordsArePacked
  <1>7. LoopsOK'
    BY <1>1, <1>4, <1>5, LoopsStep
  <1>8. StreamsOK'
    BY <1>1, <1>4, <1>6, StreamsStep
  <1>9. /\ DOMAIN held' = {"split", "assemble"} \X Parts
        /\ held'[p] = word
        /\ \A q \in {"split", "assemble"} \X Parts : q # p => held'[q] = held[q]
    <2>1. p \in {"split", "assemble"} \X Parts
      BY <1>2
    <2> QED
      BY <1>1, <1>4, <2>1, HeldStep
  <1>10. Parts' = Parts /\ Lanes' = Lanes
    BY <1>4, CallStays
  <1>11. PICK y, c : y = Row(p) /\ c = Col(p)
    OBVIOUS
  <1>12. PICK V \in Nat \ {0}, n \in Nat : V = Vect /\ n = WidthOf(k)
    BY <1>1, CallFacts, PixelFacts
  <1>13. /\ word \in [Lanes -> Results]
         /\ c < n => \A l \in Lanes : l <= c % V =>
              LaneFits(k, y, (c \div V) * V + l, word[l])
    BY <1>2, <1>3, <1>4, <1>11, <1>12, LanesAreHeld
  <1>14. ShapesOK'
    <2>1. /\ Pixels' = Pixels /\ Windows' = Windows /\ Words' = Words
          /\ Results' = Results
          /\ \A j : Buffers(j)' = Buffers(j)
      BY <1>4, ContentsStay
    <2>2. \A j \in Parts : held'[<<"split", j>>] = held[<<"split", j>>]
      BY <1>2, <1>9, ProcessesDiffer
    <2>3. \A j \in Parts : held'[<<"assemble", j>>] \in [Lanes -> Results]
      <3>1. SUFFICES ASSUME NEW j \in Parts
                     PROVE  held'[<<"assemble", j>>] \in [Lanes -> Results]
        OBVIOUS
      <3>2. CASE j = k
        BY <1>2, <1>9, <1>13, <3>2
      <3>3. CASE j # k
        <4>1. held'[<<"assemble", j>>] = held[<<"assemble", j>>]
          BY <1>2, <1>9, <3>3
        <4> QED
          BY <1>1, <4>1 DEF ShapesOK
      <3> QED
        BY <3>2, <3>3
    <2> QED
      BY <1>1, <1>4, <1>9, <1>10, <2>1, <2>2, <2>3 DEF ShapesOK
  <1>15. AssembleOK(k)'
    <2>1. PICK e, q : e = AfterCol(p) /\ q = AfterRow(p)
      OBVIOUS
    <2>2. y \in Nat /\ c \in Nat
      BY <1>1, <1>11, LoopTypes
    <2>3. (q = y /\ e = c + 1) \/ e = 0
      BY <1>1, <1>5, <1>11, <2>1, Moving
    <2>4. ASSUME e < n, NEW l \in Lanes, l < e % V
          PROVE  LaneFits(k, q, (e \div V) * V + l, word[l])
      <3>1. 0 % V = 0 /\ l \in Nat
        BY <1>12 DEF Lanes
      <3>2. q = y /\ e = c + 1
        BY <2>3, <2>4, <3>1
      <3>3. c < n
        BY <1>12, <2>2, <2>4, <3>2
      <3>4. e \div V = c \div V /\ e % V = (c % V) + 1 /\ c % V \in Nat
        <4>1. IF c % V = V - 1
              THEN (c + 1) \div V = c \div V + 1 /\ (c + 1) % V = 0
              ELSE (c + 1) \div V = c \div V /\ (c + 1) % V = (c % V) + 1
          BY <2>2, NextPixel
        <4>2. c % V \in Nat
          BY <2>2, Quotient
        <4>3. (c + 1) % V # 0
          BY <2>4, <3>1, <3>2
        <4> QED
          BY <3>2, <4>1, <4>2, <4>3
      <3>5. l <= c % V
        BY <2>4, <3>1, <3>4
      <3> QED
        BY <1>13, <3>2, <3>3, <3>4, <3>5
    <2>5. e < n => LanesFit(k, q, e, word)
      BY <1>12, <2>4 DEF LanesFit
    <2>6. LanesFit(k, q, e, word)' <=> LanesFit(k, q, e, word)
      <3>1. Vect' = Vect
        BY <1>4, CallStays
      <3>2. \A j, a, b, r : LaneFits(j, a, b, r)' = LaneFits(j, a, b, r)
        BY <1>4, ContentsStay
      <3> QED
        BY <1>10, <3>1, <3>2 DEF LanesFit
    <2>7. /\ Row(<<"assemble", k>>)' = q /\ Col(<<"assemble", k>>)' = e
          /\ held'[<<"assemble", k>>] = word
      BY <1>1, <1>2, <1>4, <1>9, <2>1, Advanced DEF Row, Col
    <2>8. WidthOf(k)' = n
      BY <1>4, <1>12, CallStays
    <2>9. AssembleOK(k)' <=> (e < n => LanesFit(k, q, e, word)')
      BY <2>7, <2>8 DEF AssembleOK, LanesFit
    <2> QED
      BY <2>5, <2>6, <2>9
  <1>16. PartsOK'
    <2>1. ASSUME NEW j \in Parts
          PROVE  /\ SplitOK(j)' /\ AssembleOK(j)'
                 /\ PixelOK(j)' /\ LinesOK(j)' /\ WindowOK(j)'
      <3>1. Still(<<"process", j>>) /\ Still(<<"split", j>>)
        BY <1>1, <1>2, <1>4, OthersStill, ProcessIs, ProcessesDiffer
      <3>2. /\ SplitOK(j) /\ AssembleOK(j)
            /\ PixelOK(j) /\ LinesOK(j) /\ WindowOK(j)
        BY <1>1 DEF PartsOK
      <3>3. AssembleOK(j)'
        <4>1. CASE j = k
          BY <1>15, <4>1
        <4>2. CASE j # k
          <5>1. Still(<<"assemble", j>>)
            BY <1>1, <1>2, <1>4, <4>2, OthersStill, ProcessIs, ProcessesDiffer
          <5>2. held'[<<"assemble", j>>] = held[<<"assemble", j>>]
            BY <1>2, <1>9, <4>2
          <5> QED
            BY <1>4, <3>2, <5>1, <5>2, AssembleStays
        <4> QED
          BY <4>1, <4>2
      <3>4. SplitOK(j)'
        <4>1. held'[<<"split", j>>] = held[<<"split", j>>]
          BY <1>2, <1>9, ProcessesDiffer
        <4> QED
          BY <1>4, <3>1, <3>2, <4>1, SplitStays
      <3>5. PixelOK(j)' /\ LinesOK(j)' /\ WindowOK(j)'
        BY <1>4, <3>1, <3>2, ProcessStays
      <3> QED
        BY <3>3, <3>4, <3>5
    <2> QED
      BY <1>10, <2>1 DEF PartsOK
  <1>17. OutOK'
    <2>1. Still(Collector)
      BY <1>1, <1>2, <1>4, OthersStill, ProcessIs, ProcessesDiffer
    <2> QED
      BY <1>1, <1>4, <2>1, OutStays
  <1>18. call' \in Call /\ CutsAgree'
    BY <1>1, <1>4, CutsStay
  <1> QED
    BY <1>7, <1>8, <1>14, <1>16, <1>17, <1>18 DEF IInv

-----------------------------------------------------------------------------
(* process: the pixel it takes in.                                         *)
FilterPixel(k) == IF Pops(<<"process", k>>) = {} THEN inPixel[k]
                                                 ELSE Incoming(<<"process", k>>)

LEMMA PixelIsSeen ==
  ASSUME IInv, NEW k \in Parts, HasTurn(<<"process", k>>), NEW y, NEW c,
         y = Row(<<"process", k>>), c = Col(<<"process", k>>)
  PROVE  /\ FilterPixel(k) \in Pixels
         /\ y < call.height => FilterPixel(k) = PartPixel(k, y, c)
  <1>1. call \in Call /\ LoopsOK /\ StreamsOK /\ ShapesOK /\ PixelOK(k)
    BY DEF IInv, PartsOK
  <1>2. PICK p \in Process : p = <<"process", k>>
    BY ProcessIs
  <1>3. y \in Nat /\ c \in Nat
    BY <1>1, <1>2, LoopTypes
  <1>4. PICK n \in Nat \ {0}, f \in Nat : n = PixelsIn(k) /\ f = FirstPixel(k)
    BY <1>1, PixelsInFacts
  <1>5. PICK s : s = <<"pixels", k>>
    OBVIOUS
  <1>6. ProcessReads(k, y, c) <=> y < call.height /\ c < n
    BY <1>1, <1>3, <1>4, ProcessReadsIs
  <1>7. Pops(p) = IF ProcessReads(k, y, c) THEN {s} ELSE {}
    BY <1>2, <1>5, PopsIs
  <1>8. CASE ProcessReads(k, y, c)
    <2>1. PICK x : x = Incoming(p)
      OBVIOUS
    <2>2. FilterPixel(k) = x
      BY <1>2, <1>7, <1>8, <2>1 DEF FilterPixel
    <2>3. s \in Streams /\ Pops(p) = {s}
      BY <1>5, <1>7, <1>8, StreamsAre
    <2>4. x \in Payload(s[1]) /\ x \in Contents(s)[Taken(s)] /\ Taken(s) \in Nat
      BY <1>1, <1>2, <2>1, <2>3, IncomingIs
    <2>5. PICK i : i = Line(n, 0, y, c)
      OBVIOUS
    <2>6. i \in Nat /\ i \div n = y /\ i % n = c
      <3>1. c - 0 \in 0..(n - 1) /\ 0 \in Nat
        BY <1>3, <1>6, <1>8
      <3>2. i \in Nat /\ i \div n = y /\ i % n = c - 0
        BY <1>3, <2>5, <3>1, LinePlace
      <3> QED
        BY <1>3, <3>2
    <2>7. Taken(s) = i
      <3>1. Taken(s) = TakenAt(s, y, c)
        BY <1>5, EndsAre DEF Taken
      <3>2. TakenAt(s, y, c) = SeenAt(k, y, c)
        BY <1>5, CountsAre
      <3> QED
        BY <1>4, <1>6, <1>8, <2>5, <3>1, <3>2 DEF SeenAt
    <2>8. Contents(s)[i] = {<<i \div n, f + (i % n), SplitOrder(k)>>}
      BY <1>4, <1>5, <2>6, ContentsAre
    <2>9. x = <<y, f + c, SplitOrder(k)>>
      BY <2>4, <2>6, <2>7, <2>8
    <2>10. Min2(c, n - 1) = c
      BY <1>3, <1>6, <1>8 DEF Min2
    <2>11. x = PartPixel(k, y, c)
      BY <1>4, <2>9, <2>10 DEF PartPixel
    <2>12. Payload(s[1]) = Pixels
      BY <1>5, PayloadsAre
    <2> QED
      BY <2>2, <2>4, <2>11, <2>12
  <1>9. CASE ~ProcessReads(k, y, c)
    <2>1. FilterPixel(k) = inPixel[k]
      BY <1>2, <1>7, <1>9 DEF FilterPixel
    <2>2. inPixel[k] \in Pixels
      BY <1>1 DEF ShapesOK
    <2>3. ASSUME y < call.height
          PROVE  inPixel[k] = PartPixel(k, y, c)
      <3>1. c > 0 /\ ~(c < n)
        BY <1>3, <1>6, <1>9, <2>3
      <3>2. inPixel[k] = PartPixel(k, y, c - 1)
        BY <1>1, <2>3, <3>1 DEF PixelOK
      <3>3. Min2(c - 1, n - 1) = Min2(c, n - 1)
        BY <1>3, <3>1 DEF Min2
      <3> QED
        BY <1>4, <3>2, <3>3 DEF PartPixel
    <2> QED
      BY <2>1, <2>2, <2>3
  <1> QED
    BY <1>8, <1>9

(* What process moves on.                                                  *)
LEMMA LoadFacts ==
  ASSUME call \in Call, NEW k \in Parts
  PROVE  /\ LoadCols(k) \in Nat /\ PixelsIn(k) <= LoadCols(k)
         /\ LoadCols(k) <= WidthOf(k) + 2 * Radius
         /\ Columns(<<"process", k>>) = WidthOf(k) + 2 * Radius
         /\ k # call.parts => LoadCols(k) = PixelsIn(k)
         /\ k = call.parts => LoadCols(k) = WidthOf(k) + 2 * Radius
         /\ Kind(k) = "R" <=> k = call.parts
         /\ Kernel = 2 * Radius + 1 /\ Kernel - 1 = 2 * Radius
         /\ Kernel - 2 = 2 * Radius - 1
         /\ Win = 0..(2 * Radius)
  <1>1. /\ Radius \in Nat \ {0} /\ WidthOf(k) \in Nat /\ call.parts \in Nat \ {0, 1}
    BY CallFacts, PixelFacts
  <1>2. PixelsIn(k) = IF k # 1 /\ k # call.parts THEN WidthOf(k) + 2 * Radius
                      ELSE WidthOf(k) + Radius
    BY PixelsInFacts
  <1>3. LoadCols(k) = IF k = call.parts THEN WidthOf(k) + 2 * Radius ELSE PixelsIn(k)
    BY DEF LoadCols
  <1>4. Kernel = 2 * Radius + 1 /\ Win = 0..(2 * Radius)
    BY DEF Kernel, Win
  <1>5. Kind(k) = "R" <=> k = call.parts
    BY <1>1, KindIs
  <1>6. Columns(<<"process", k>>) = WidthOf(k) + 2 * Radius
    BY LoopIs
  <1> HIDE DEF Radius, WidthOf, PixelsIn, LoadCols, Kernel
  <1> QED
    BY <1>1, <1>2, <1>3, <1>4, <1>5, <1>6

LEMMA LoadsIs ==
  ASSUME call \in Call, NEW k \in Parts, NEW y \in Nat, NEW c \in Nat,
         y < call.height + Radius, c < Columns(<<"process", k>>),
         y < call.height \/ k = call.parts
  PROVE  Loads(k, y, c) <=> c < LoadCols(k)
  <1>1. /\ Columns(<<"process", k>>) = WidthOf(k) + 2 * Radius
        /\ k # call.parts => LoadCols(k) = PixelsIn(k)
        /\ k = call.parts => LoadCols(k) = WidthOf(k) + 2 * Radius
        /\ Kind(k) = "R" <=> k = call.parts
    BY LoadFacts
  <1>2. ProcessReads(k, y, c) <=> y < call.height /\ c < PixelsIn(k)
    BY ProcessReadsIs
  <1>3. Loads(k, y, c) <=> IF k = call.parts THEN TRUE ELSE ProcessReads(k, y, c)
    BY <1>1 DEF Loads
  <1> QED
    BY <1>1, <1>2, <1>3

FilterLoads(k) == Loads(k, Row(<<"process", k>>), Col(<<"process", k>>))

FilterWindow(k) ==
  IF FilterLoads(k)
  THEN ShiftedIn(winTmp[k], lineBuff[k], Col(<<"process", k>>), FilterPixel(k))
  ELSE winTmp[k]

FilterLines(k) ==
  IF FilterLoads(k) THEN Pushed(lineBuff[k], Col(<<"process", k>>), FilterPixel(k))
                    ELSE lineBuff[k]

LEMMA FilterTypes ==
  ASSUME IInv, NEW k \in Parts, HasTurn(<<"process", k>>)
  PROVE  FilterWindow(k) \in Windows /\ FilterLines(k) \in Buffers(k)
  <1>1. call \in Call /\ LoopsOK /\ ShapesOK
    BY DEF IInv
  <1>2. PICK p \in Process : p = <<"process", k>>
    BY ProcessIs
  <1>3. PICK c, x, w, b : /\ c = Col(p) /\ x = FilterPixel(k)
                          /\ w = winTmp[k] /\ b = lineBuff[k]
    OBVIOUS
  <1>4. PICK R \in Nat \ {0}, N \in Nat : R = Radius /\ N = WidthOf(k) + 2 * Radius
    BY <1>1, CallFacts, PixelFacts
  <1>5. /\ Win = 0..(2 * R) /\ Kernel - 1 = 2 * R /\ Kernel - 2 = 2 * R - 1
        /\ c \in Nat /\ c < N
    <2>1. c \in Nat /\ c < Columns(p)
      BY <1>1, <1>3, LoopTypes
    <2> QED
      BY <1>1, <1>2, <1>4, <2>1, LoadFacts
  <1>6. Buffers(k) = [0..(2 * R - 1) -> [0..(N - 1) -> Pixels]]
    <2>1. Kernel - 2 = 2 * R - 1
      BY <1>5
    <2>2. WidthOf(k) + 2 * Radius - 1 = N - 1
      <3>1. PICK W \in Nat : W = WidthOf(k)
        BY <1>1, PixelFacts
      <3> QED
        BY <1>4, <3>1
    <2> QED
      BY <2>1, <2>2 DEF Buffers
  <1>7. /\ x \in Pixels /\ w \in [Win -> [Win -> Pixels]]
        /\ b \in [0..(2 * R - 1) -> [0..(N - 1) -> Pixels]]
    <2>1. x \in Pixels
      BY <1>3, PixelIsSeen
    <2>2. w \in Windows /\ b \in Buffers(k)
      BY <1>1, <1>3 DEF ShapesOK
    <2>3. w \in [Win -> [Win -> Pixels]]
      BY <2>2 DEF Windows
    <2> QED
      BY <1>6, <2>1, <2>2, <2>3
  <1>8. ShiftedIn(w, b, c, x) \in [Win -> [Win -> Pixels]]
    <2>1. ASSUME NEW i \in Win, NEW j \in Win
          PROVE  (IF j < 2 * R THEN w[i][j + 1] ELSE IF i < 2 * R THEN b[i][c] ELSE x)
                   \in Pixels
      <3>1. CASE j < 2 * R
        <4>1. j + 1 \in Win
          BY <1>5, <3>1
        <4> QED
          BY <1>7, <3>1, <4>1
      <3>2. CASE ~(j < 2 * R) /\ i < 2 * R
        <4>1. i \in 0..(2 * R - 1) /\ c \in 0..(N - 1)
          BY <1>5, <3>2
        <4> QED
          BY <1>7, <3>2, <4>1
      <3>3. CASE ~(j < 2 * R) /\ ~(i < 2 * R)
        BY <1>7, <3>3
      <3> QED
        BY <3>1, <3>2, <3>3
    <2>2. ShiftedIn(w, b, c, x) =
            [i \in Win |-> [j \in Win |->
               IF j < 2 * R THEN w[i][j + 1] ELSE IF i < 2 * R THEN b[i][c] ELSE x]]
      BY <1>5 DEF ShiftedIn
    <2> QED
      BY <2>1, <2>2
  <1>9. Pushed(b, c, x) \in [0..(2 * R - 1) -> [0..(N - 1) -> Pixels]]
    <2>1. ASSUME NEW i \in 0..(2 * R - 1)
          PROVE  [b[i] EXCEPT ![c] = IF i < 2 * R - 1 THEN b[i + 1][c] ELSE x]
                   \in [0..(N - 1) -> Pixels]
      <3>1. c \in 0..(N - 1)
        BY <1>5
      <3>2. (IF i < 2 * R - 1 THEN b[i + 1][c] ELSE x) \in Pixels
        <4>1. CASE i < 2 * R - 1
          <5>1. i + 1 \in 0..(2 * R - 1)
            BY <4>1
          <5> QED
            BY <1>7, <3>1, <4>1, <5>1
        <4>2. CASE ~(i < 2 * R - 1)
          BY <1>7, <4>2
        <4> QED
          BY <4>1, <4>2
      <3> QED
        BY <1>7, <3>1, <3>2
    <2>2. Pushed(b, c, x) =
            [i \in 0..(2 * R - 1) |->
               [b[i] EXCEPT ![c] = IF i < 2 * R - 1 THEN b[i + 1][c] ELSE x]]
      BY <1>5, <1>7 DEF Pushed
    <2> QED
      BY <2>1, <2>2
  <1>10. FilterWindow(k) \in Windows
    <2>1. FilterWindow(k) = IF FilterLoads(k) THEN ShiftedIn(w, b, c, x) ELSE w
      BY <1>2, <1>3 DEF FilterWindow
    <2> QED
      BY <1>7, <1>8, <2>1 DEF Windows
  <1>11. FilterLines(k) \in Buffers(k)
    <2>1. FilterLines(k) = IF FilterLoads(k) THEN Pushed(b, c, x) ELSE b
      BY <1>2, <1>3 DEF FilterLines
    <2> QED
      BY <1>7, <1>9, <1>6, <2>1
  <1> QED
    BY <1>10, <1>11

-----------------------------------------------------------------------------
(* process: its line buffer and its window.                                *)
LEMMA FilterPlace ==
  ASSUME IInv, NEW k \in Parts, HasTurn(<<"process", k>>), NEW y, NEW c,
         y = Row(<<"process", k>>), c = Col(<<"process", k>>)
  PROVE  /\ call \in Call /\ y \in Nat /\ c \in Nat
         /\ y < call.height + Radius /\ c < WidthOf(k) + 2 * Radius
         /\ FilterLoads(k) <=> Loads(k, y, c)
         /\ y < call.height \/ k = call.parts => (Loads(k, y, c) <=> c < LoadCols(k))
  <1>1. call \in Call /\ LoopsOK
    BY DEF IInv
  <1>2. PICK p \in Process : p = <<"process", k>>
    BY ProcessIs
  <1>3. y \in Nat /\ c \in Nat /\ c < Columns(p) /\ y < Lines(p)
    BY <1>1, <1>2, LoopTypes, TurnFacts
  <1>4. /\ Columns(p) = WidthOf(k) + 2 * Radius
        /\ Lines(p) = call.height + Radius
    BY <1>2, LoopIs
  <1>5. FilterLoads(k) <=> Loads(k, y, c)
    BY DEF FilterLoads
  <1>6. y < call.height \/ k = call.parts => (Loads(k, y, c) <=> c < LoadCols(k))
    BY <1>1, <1>2, <1>3, <1>4, LoadsIs
  <1> QED
    BY <1>1, <1>3, <1>4, <1>5, <1>6

(* The window that has taken in the pixel shows what is around it, ...     *)
LEMMA NewWindowShows ==
  ASSUME IInv, NEW k \in Parts, HasTurn(<<"process", k>>), NEW y, NEW c,
         y = Row(<<"process", k>>), c = Col(<<"process", k>>),
         y < call.height \/ k = call.parts, c < LoadCols(k)
  PROVE  Shows(k, FilterWindow(k), y, c)
  <1>1. /\ call \in Call /\ y \in Nat /\ c \in Nat /\ FilterLoads(k)
        /\ LinesOK(k) /\ WindowOK(k)
    BY FilterPlace DEF IInv, PartsOK
  <1>2. PICK R \in Nat \ {0}, M \in Nat : R = Radius /\ M = LoadCols(k)
    BY <1>1, CallFacts, LoadFacts
  <1>3. Kernel - 1 = 2 * R /\ Kernel - 2 = 2 * R - 1 /\ Win = 0..(2 * R)
    BY <1>1, <1>2, LoadFacts
  <1>4. PICK x, w, b : x = FilterPixel(k) /\ w = winTmp[k] /\ b = lineBuff[k]
    OBVIOUS
  <1>5. y < call.height => x = PartPixel(k, y, c)
    BY <1>4, PixelIsSeen
  <1>6. Moves(k)
    BY DEF Moves
  <1>7. HasLines(k, b, y, c)
    BY <1>1, <1>4, <1>6 DEF LinesOK
  <1>8. Shows(k, w, y, c - 1)
    BY <1>1, <1>2, <1>4, <1>6 DEF WindowOK
  <1>9. FilterWindow(k) = [i \in Win |-> [j \in Win |->
            IF j < 2 * R THEN w[i][j + 1] ELSE IF i < 2 * R THEN b[i][c] ELSE x]]
    BY <1>1, <1>3, <1>4 DEF FilterWindow, ShiftedIn
  <1>10. SUFFICES ASSUME NEW i \in Win, NEW j \in Win,
                         InPart(k, y - 2 * Radius + i, c - 2 * Radius + j)
                  PROVE  FilterWindow(k)[i][j] =
                           PartPixel(k, y - 2 * Radius + i, c - 2 * Radius + j)
    BY DEF Shows
  <1>11. PICK Y \in Int, X \in Int : Y = (y - 2 * R) + i /\ X = (c - 2 * R) + j
    BY <1>1, <1>3
  <1>12. InPart(k, Y, X)
    BY <1>2, <1>10, <1>11
  <1>13. Y \in 0..(call.height - 1) /\ X \in 0..(M - 1)
    BY <1>2, <1>12 DEF InPart
  <1>14. FilterWindow(k)[i][j] =
           IF j < 2 * R THEN w[i][j + 1] ELSE IF i < 2 * R THEN b[i][c] ELSE x
    BY <1>9
  <1>15. CASE j < 2 * R
    <2>1. PICK jj \in Win : jj = j + 1
      BY <1>3, <1>15
    <2>2. ((c - 1) - 2 * R) + jj = X
      <3>1. c \in Nat /\ R \in Nat /\ j \in Nat /\ X = (c - 2 * R) + j
        BY <1>1, <1>3, <1>11
      <3> QED
        BY <2>1, <3>1
    <2>3. InPart(k, (y - 2 * R) + i, ((c - 1) - 2 * R) + jj) =>
            w[i][jj] = PartPixel(k, (y - 2 * R) + i, ((c - 1) - 2 * R) + jj)
      BY <1>2, <1>8 DEF Shows
    <2>4. w[i][jj] = PartPixel(k, Y, X)
      BY <1>11, <1>12, <2>2, <2>3
    <2> QED
      BY <1>2, <1>11, <1>14, <1>15, <2>1, <2>4
  <1>16. CASE ~(j < 2 * R) /\ i < 2 * R
    <2>1. X = c /\ i \in 0..(2 * R - 1) /\ c \in 0..(M - 1)
      <3>1. c < M
        BY <1>2
      <3>2. j = 2 * R /\ i \in 0..(2 * R - 1)
        BY <1>3, <1>16
      <3> QED
        BY <1>1, <1>11, <3>1, <3>2
    <2>2. LineOf(i, c, y, c) = Y
      <3>1. LineOf(i, c, y, c) = (y - 1) - (2 * R - 1 - i)
        BY <1>1, <1>3 DEF LineOf
      <3> QED
        BY <1>1, <1>11, <2>1, <3>1
    <2>3. i \in 0..(Kernel - 2) /\ c \in 0..(LoadCols(k) - 1)
      BY <1>2, <1>3, <2>1
    <2>4. LineOf(i, c, y, c) \in 0..(call.height - 1) =>
            b[i][c] = PartPixel(k, LineOf(i, c, y, c), c)
      BY <1>7, <2>3 DEF HasLines
    <2>5. b[i][c] = PartPixel(k, Y, c)
      BY <1>13, <2>2, <2>4
    <2> QED
      BY <1>2, <1>11, <1>14, <1>16, <2>1, <2>5
  <1>17. CASE ~(j < 2 * R) /\ ~(i < 2 * R)
    <2>1. X = c /\ Y = y
      BY <1>1, <1>3, <1>11, <1>17
    <2>2. x = PartPixel(k, Y, X)
      BY <1>1, <1>5, <1>13, <2>1, CallFacts
    <2> QED
      BY <1>2, <1>11, <1>14, <1>17, <2>2
  <1> QED
    BY <1>15, <1>16, <1>17

(* ... and the line buffer that has taken it in holds it as the newest.    *)
LEMMA NewLinesHave ==
  ASSUME IInv, NEW k \in Parts, HasTurn(<<"process", k>>), NEW q, NEW e,
         q = AfterRow(<<"process", k>>), e = AfterCol(<<"process", k>>),
         q < call.height \/ k = call.parts
  PROVE  HasLines(k, FilterLines(k), q, e)
  <1>1. PICK p \in Process : p = <<"process", k>>
    BY ProcessIs
  <1>2. PICK y, c : y = Row(p) /\ c = Col(p)
    OBVIOUS
  <1>3. /\ call \in Call /\ y \in Nat /\ c \in Nat /\ LoopsOK /\ LinesOK(k)
        /\ FilterLoads(k) <=> Loads(k, y, c)
        /\ y < call.height \/ k = call.parts => (Loads(k, y, c) <=> c < LoadCols(k))
    BY <1>1, <1>2, FilterPlace DEF IInv, PartsOK
  <1>4. PICK R \in Nat \ {0}, M \in Nat, N \in Nat :
          R = Radius /\ M = LoadCols(k) /\ N = WidthOf(k) + 2 * Radius
    <2>1. Radius \in Nat \ {0} /\ WidthOf(k) \in Nat
      BY <1>3, CallFacts, PixelFacts
    <2>2. LoadCols(k) \in Nat
      BY <1>3, LoadFacts
    <2>3. WidthOf(k) + 2 * Radius \in Nat
      BY <2>1
    <2> QED
      BY <2>1, <2>2, <2>3
  <1>5. /\ Kernel - 2 = 2 * R - 1 /\ M <= N /\ Columns(p) = N
        /\ k = call.parts => M = N
    BY <1>1, <1>3, <1>4, LoadFacts
  <1>6. PICK h \in Nat : h = call.height
    BY <1>3, CallFacts
  <1>7. \/ q = y /\ e = c + 1 /\ c + 1 < N
        \/ q = y + 1 /\ e = 0 /\ c + 1 = N
    BY <1>1, <1>2, <1>3, <1>5, Moving, TurnFacts
  <1>8. y < call.height \/ k = call.parts
    BY <1>3, <1>6, <1>7
  <1>9. FilterLoads(k) <=> c < M
    BY <1>3, <1>4, <1>8
  <1>10. PICK x, b : x = FilterPixel(k) /\ b = lineBuff[k]
    OBVIOUS
  <1>11. y < h => x = PartPixel(k, y, c)
    BY <1>1, <1>2, <1>6, <1>10, PixelIsSeen
  <1>12. HasLines(k, b, y, c)
    <2>1. Moves(k)
      BY <1>1, <1>2, <1>8 DEF Moves
    <2> QED
      BY <1>1, <1>2, <1>3, <1>10, <2>1 DEF LinesOK
  <1>13. b \in [0..(2 * R - 1) -> [0..(N - 1) -> Pixels]]
    <2>1. b \in Buffers(k)
      BY <1>10 DEF IInv, ShapesOK
    <2>2. WidthOf(k) + 2 * Radius - 1 = N - 1
      <3>1. PICK W \in Nat : W = WidthOf(k)
        BY <1>3, PixelFacts
      <3> QED
        BY <1>4, <3>1
    <2> QED
      BY <1>5, <2>1, <2>2 DEF Buffers
  <1>14. PICK d : d = FilterLines(k)
    OBVIOUS
  <1>15. SUFFICES ASSUME NEW i \in 0..(2 * R - 1), NEW cc \in 0..(M - 1), NEW l,
                         l = LineOf(i, cc, q, e), l \in 0..(h - 1)
                  PROVE  d[i][cc] = PartPixel(k, l, cc)
    BY <1>4, <1>5, <1>6, <1>14 DEF HasLines
  <1>16. l = (IF cc < e THEN q ELSE q - 1) - (2 * R - 1 - i)
    BY <1>5, <1>15 DEF LineOf
  <1>17. ASSUME NEW ii \in 0..(2 * R - 1), NEW z,
                z = (IF cc < c THEN y ELSE y - 1) - (2 * R - 1 - ii),
                z \in 0..(h - 1)
         PROVE  b[ii][cc] = PartPixel(k, z, cc)
    <2>1. z = LineOf(ii, cc, y, c)
      BY <1>5, <1>17 DEF LineOf
    <2>2. ii \in 0..(Kernel - 2) /\ cc \in 0..(LoadCols(k) - 1)
      BY <1>4, <1>5
    <2> QED
      BY <1>6, <1>12, <1>17, <2>1, <2>2 DEF HasLines
  <1>18. CASE c < M /\ cc = c
    <2>1. l = y - (2 * R - 1 - i)
      BY <1>3, <1>5, <1>7, <1>16, <1>18
    <2>2. d[i][cc] = IF i < 2 * R - 1 THEN b[i + 1][cc] ELSE x
      <3>1. d = Pushed(b, c, x)
        BY <1>1, <1>2, <1>9, <1>10, <1>14, <1>18 DEF FilterLines
      <3>2. d[i] = [b[i] EXCEPT ![c] = IF i < 2 * R - 1 THEN b[i + 1][c] ELSE x]
        BY <1>5, <1>13, <3>1 DEF Pushed
      <3>3. DOMAIN b[i] = 0..(N - 1) /\ c \in 0..(N - 1)
        BY <1>3, <1>5, <1>7, <1>13, <1>18
      <3> QED
        BY <1>18, <3>2, <3>3
    <2>3. CASE i < 2 * R - 1
      <3>1. PICK ii \in 0..(2 * R - 1) : ii = i + 1
        BY <2>3
      <3>2. l = (IF cc < c THEN y ELSE y - 1) - (2 * R - 1 - ii)
        BY <1>3, <1>18, <2>1, <3>1
      <3>3. b[ii][cc] = PartPixel(k, l, cc)
        BY <1>15, <1>17, <3>2
      <3> QED
        BY <2>2, <2>3, <3>1, <3>3
    <2>4. CASE ~(i < 2 * R - 1)
      <3>1. l = y /\ y < h
        BY <1>3, <1>6, <1>15, <2>1, <2>4
      <3> QED
        BY <1>11, <1>18, <2>2, <2>4, <3>1
    <2> QED
      BY <2>3, <2>4
  <1>19. CASE ~(c < M /\ cc = c)
    <2>1. d[i][cc] = b[i][cc]
      <3>1. CASE c < M
        <4>1. d = Pushed(b, c, x)
          BY <1>1, <1>2, <1>9, <1>10, <1>14, <3>1 DEF FilterLines
        <4>2. d[i] = [b[i] EXCEPT ![c] = IF i < 2 * R - 1 THEN b[i + 1][c] ELSE x]
          BY <1>5, <1>13, <4>1 DEF Pushed
        <4>3. DOMAIN b[i] = 0..(N - 1) /\ cc \in 0..(N - 1) /\ cc # c
          BY <1>5, <1>13, <1>19, <3>1
        <4> QED
          BY <4>2, <4>3
      <3>2. CASE ~(c < M)
        <4>1. d = b
          BY <1>9, <1>10, <1>14, <3>2 DEF FilterLines
        <4> QED
          BY <4>1
      <3> QED
        BY <3>1, <3>2
    <2>2. l = (IF cc < c THEN y ELSE y - 1) - (2 * R - 1 - i)
      <3>1. cc # c
        BY <1>3, <1>19
      <3> QED
        BY <1>3, <1>5, <1>7, <1>16, <3>1
    <2> QED
      BY <1>15, <1>17, <2>1, <2>2
  <1> QED
    BY <1>18, <1>19

-----------------------------------------------------------------------------
(* process: the borders.  Slot i of a window whose last slot is at pos     *)
(* shows coordinate pos - 2n + i; the slot getNewCoords picks for it shows *)
(* the coordinate the padding asks for.                                    *)
Slot(padding, i, n, pos0, size) == GetNewCoords(padding, i, 2 * n + 1, n, pos0, size)

SlotShows(g, padding, i, n, pos0, size) ==
  /\ g \in 0..(2 * n)
  /\ (pos0 - 2 * n) + g = Pad(padding, (pos0 - n) + (i - n), size)
  /\ (pos0 - 2 * n) + g \in 0..(size - 1)

LEMMA SlotIsPadded ==
  ASSUME NEW n \in Nat, NEW size \in Nat \ {0}, size >= 2 * n,
         NEW padding \in Paddings,
         NEW pos0 \in n..(size + n - 1), NEW i \in 0..(2 * n),
         NEW g, g = Slot(padding, i, n, pos0, size)
  PROVE  SlotShows(g, padding, i, n, pos0, size)
  BY DEF SlotShows, Slot, GetNewCoords, Pad, Paddings, Min2, Max2

(* A slot that is picked for a later one keeps its contents, ...           *)
LEMMA PickedSlotStays ==
  ASSUME NEW n \in Nat, NEW size \in Nat, NEW padding \in Paddings,
         NEW pos0 \in Nat, NEW i \in 0..(2 * n),
         NEW g, g = Slot(padding, i, n, pos0, size)
  PROVE  /\ g \in Int
         /\ g < i => Slot(padding, g, n, pos0, size) = g
  BY DEF Slot, GetNewCoords, Paddings

(* ... so the rows can be exchanged in place.                              *)
LEMMA InPlaceIsParallel ==
  ASSUME NEW N \in Nat, NEW w, DOMAIN w = 0..N,
         NEW from \in [0..N -> Int],
         \A i \in 0..N :
           from[i] \in 0..N /\ from[i] < i => from[from[i]] = from[i],
         NEW junk
  PROVE  RowsInPlace(w, from, junk) = [i \in 0..N |-> At(w, from[i], junk)]
  <1> DEFINE F(d) == [i \in DOMAIN w |->
                 IF from[i] \in DOMAIN w /\ from[i] < i THEN d[from[i]]
                                               ELSE At(w, from[i], junk)]
             g == [i \in 0..N |-> At(w, from[i], junk)]
             d == RowsInPlace(w, from, junk)
  <1>1. g = F(g)
    OBVIOUS
  <1>2. d = CHOOSE e : e = F(e)
    BY DEF RowsInPlace
  <1>3. d = F(d)
    BY <1>1, <1>2
  <1> HIDE DEF d
  <1>4. ASSUME NEW i \in 0..N, ~(from[i] \in 0..N /\ from[i] < i)
        PROVE  d[i] = At(w, from[i], junk)
    BY <1>3, <1>4
  <1>5. ASSUME NEW i \in 0..N, from[i] \in 0..N, from[i] < i
        PROVE  d[i] = At(w, from[i], junk)
    <2>1. from[from[i]] = from[i] /\ ~(from[from[i]] < from[i])
      BY <1>5
    <2>2. d[from[i]] = At(w, from[i], junk)
      BY <1>4, <1>5, <2>1
    <2>3. d[i] = d[from[i]]
      BY <1>3, <1>5
    <2> QED
      BY <2>2, <2>3
  <1>6. \A i \in 0..N : d[i] = At(w, from[i], junk)
    BY <1>4, <1>5
  <1>7. d = [i \in 0..N |-> d[i]]
    BY <1>3
  <1>8. d = [i \in 0..N |-> At(w, from[i], junk)]
    BY <1>6, <1>7
  <1> QED
    BY <1>8 DEF d

(* Column z of a part that begins at first and repeats its last column is  *)
(* coordinate u of an image of this size.                                  *)
Meets(padding, first, z, last, u, size) ==
  first + Min2(z, last) = Pad(padding, u, size)

(* The first part sees the left border, and its right neighbour's pixels.  *)
LEMMA LeftColumn ==
  ASSUME NEW n \in Nat \ {0}, NEW W \in Nat, W >= 2 * n,
         NEW I \in Nat, W + 2 * n <= I,
         NEW padding \in Paddings, NEW c \in Nat, n <= c, c < W + n,
         NEW j \in 0..(2 * n),
         NEW g, NEW size, size = W + n, g = Slot(padding, j, n, c, size)
  PROVE  /\ g \in 0..(2 * n) /\ (c - 2 * n) + g \in 0..(W + n - 1)
         /\ Meets(padding, 0, (c - 2 * n) + g, W + n - 1, (c - n) + (j - n), I)
  <1>1. size \in Nat \ {0} /\ size = W + n
    OBVIOUS
  <1>2. size >= 2 * n /\ n \in Nat /\ c \in n..(size + n - 1)
    BY <1>1
  <1>3. g = Slot(padding, j, n, c, size)
    BY <1>1
  <1>4. /\ g \in 0..(2 * n)
        /\ (c - 2 * n) + g = Pad(padding, (c - n) + (j - n), size)
        /\ (c - 2 * n) + g \in 0..(size - 1)
    BY <1>2, <1>3, SlotIsPadded DEF SlotShows
  <1>5. PICK u \in Int : u = (c - n) + (j - n)
    BY <1>2
  <1>6. u < size /\ size <= I
    BY <1>1, <1>2, <1>5
  <1>7. Pad(padding, u, size) = Pad(padding, u, I)
    BY <1>6 DEF Pad, Paddings, Min2, Max2
  <1>8. Min2((c - 2 * n) + g, size - 1) = (c - 2 * n) + g
    BY <1>4 DEF Min2
  <1>9. 0 + ((c - 2 * n) + g) = (c - 2 * n) + g
    BY <1>4
  <1>10. W + n - 1 = size - 1
    BY <1>1
  <1> QED
    BY <1>1, <1>4, <1>5, <1>7, <1>8, <1>9, <1>10 DEF Meets

(* A part in between sees no border; ...                                   *)
LEMMA InnerColumn ==
  ASSUME NEW n \in Nat \ {0}, NEW W \in Nat, NEW L \in Nat, NEW I \in Nat,
         L >= n, L + W + n <= I,
         NEW padding \in Paddings, NEW c \in Nat, 2 * n <= c, c < W + 2 * n,
         NEW j \in 0..(2 * n)
  PROVE  /\ (c - 2 * n) + j \in 0..(W + 2 * n - 1)
         /\ Meets(padding, L - n, (c - 2 * n) + j, W + 2 * n - 1,
                  (L + (c - 2 * n)) + (j - n), I)
  <1>1. PICK z \in Nat : z = (c - 2 * n) + j
    OBVIOUS
  <1>2. z <= W + 2 * n - 1
    BY <1>1
  <1>3. PICK u \in Int : u = (L + (c - 2 * n)) + (j - n)
    OBVIOUS
  <1>4. u = (L - n) + z /\ u \in 0..(I - 1)
    BY <1>1, <1>3
  <1>5. Pad(padding, u, I) = u
    BY <1>4 DEF Pad, Paddings, Min2, Max2
  <1>6. Min2(z, W + 2 * n - 1) = z
    BY <1>2 DEF Min2
  <1>7. z \in 0..(W + 2 * n - 1)
    BY <1>2
  <1> QED
    BY <1>1, <1>3, <1>4, <1>5, <1>6, <1>7 DEF Meets

RightFits(padding, n, W, L, c, j, g) ==
  /\ g = j
  /\ (c - 2 * n) + j \in 0..(W + 2 * n - 1)
  /\ Meets(padding, L - n, (c - 2 * n) + j, W + n - 1,
           (L + (c - 2 * n)) + (j - n), L + W)

(* ... the last one the right border, where it repeats the last pixel.     *)
LEMMA RightColumn ==
  ASSUME NEW n \in Nat \ {0}, NEW W \in Nat, NEW L \in Nat, L >= n,
         NEW padding \in Paddings, NEW c \in Nat, 2 * n <= c, c < W + 2 * n,
         NEW j \in 0..(2 * n),
         NEW g, NEW size, size = W + 2 * n, g = Slot(padding, j, n, c, size),
         c < W + n \/ padding = "CLAMP"
  PROVE  RightFits(padding, n, W, L, c, j, g)
  <1>1. g = j
    <2>1. size \in Nat
      OBVIOUS
    <2>2. ~(c >= n /\ c < (2 * n + 1) - 1) /\ ~(c >= size)
      BY <2>1
    <2>3. g = Slot(padding, j, n, c, size)
      BY <2>1
    <2> QED
      BY <2>1, <2>2, <2>3 DEF Slot, GetNewCoords
  <1>2. PICK z \in Nat : z = (c - 2 * n) + j
    OBVIOUS
  <1>3. z \in 0..(W + 2 * n - 1)
    BY <1>2
  <1>4. PICK u \in Int : u = (L + (c - 2 * n)) + (j - n)
    OBVIOUS
  <1>5. PICK I \in Nat : I = L + W
    OBVIOUS
  <1>6. u = (L - n) + z /\ u \in Nat
    BY <1>2, <1>4
  <1>7. Meets(padding, L - n, z, W + n - 1, u, I)
    <2>1. CASE z <= W + n - 1
      <3>1. Min2(z, W + n - 1) = z
        BY <2>1 DEF Min2
      <3>2. u < I
        BY <1>5, <1>6, <2>1
      <3>3. Pad(padding, u, I) = u
        BY <1>6, <3>2 DEF Pad, Paddings, Min2, Max2
      <3> QED
        BY <1>6, <3>1, <3>3 DEF Meets
    <2>2. CASE z > W + n - 1
      <3>1. Min2(z, W + n - 1) = W + n - 1
        BY <2>2 DEF Min2
      <3>2. u >= I /\ (L - n) + (W + n - 1) = I - 1 /\ I - 1 >= 0
        BY <1>2, <1>5, <1>6, <2>2
      <3>3. padding = "CLAMP"
        BY <1>2, <2>2
      <3>4. Pad(padding, u, I) = I - 1
        BY <1>6, <3>2, <3>3 DEF Pad, Min2, Max2
      <3> QED
        BY <3>1, <3>2, <3>4 DEF Meets
    <2> QED
      BY <2>1, <2>2
  <1> QED
    BY <1>1, <1>2, <1>3, <1>4, <1>5, <1>7 DEF RightFits

PickedColumn(k, c, j) ==
  IF Kind(k) = "C" THEN j
  ELSE GetNewCoords(call.padding, j, Kernel, Radius, c,
                    WidthOf(k) + (IF Kind(k) = "L" THEN Radius ELSE 2 * Radius))

PickedLine(y, i) == GetNewCoords(call.padding, i, Kernel, Radius, y, call.height)

(* The column of the part that stands in for column j of the window is the *)
(* one the padding of the image asks for.                                  *)
LEMMA ColumnsFit ==
  ASSUME call \in Call, NEW k \in Parts, NEW c \in Nat, NEW x,
         x = c - Delay(k), x \in 0..(WidthOf(k) - 1), NEW j \in Win,
         NEW g, g = PickedColumn(k, c, j), NEW z, z = (c - 2 * Radius) + g,
         k = call.parts => x + Radius < WidthOf(k) \/ call.padding = "CLAMP"
  PROVE  /\ g \in Win /\ z \in 0..(LoadCols(k) - 1)
         /\ FirstPixel(k) + Min2(z, PixelsIn(k) - 1) =
              Pad(call.padding, (Left(k) * Vect + x) + (j - Radius), call.width * Vect)
  <1>1. PICK R \in Nat \ {0}, W \in Nat, I \in Nat :
          R = Radius /\ W = WidthOf(k) /\ I = call.width * Vect
    BY CallFacts, PixelFacts
  <1>2. PICK L \in Nat, O \in Nat : L = Left(k) * Vect /\ O = Overhang * Vect
    BY PixelFacts, OverhangFacts
  <1>3. PICK pad \in Paddings : pad = call.padding
    BY CallFacts
  <1>4. /\ W >= 2 * O /\ (k > 1 => L >= 2 * O)
        /\ k < call.parts => L + W + 2 * O <= I
        /\ k = call.parts => L + W = I
        /\ k = 1 => L = 0
    BY <1>1, <1>2, PixelFacts
  <1>5. O >= R
    BY <1>1, <1>2, OverhangFacts
  <1>6. Kernel = 2 * R + 1 /\ Win = 0..(2 * R)
    BY <1>1, LoadFacts
  <1>7. k \in Nat \ {0} /\ k <= call.parts /\ call.parts \in Nat \ {0, 1}
    BY PartFacts, CallFacts
  <1>8. PICK P \in Nat, M \in Nat, F \in Nat :
          P = PixelsIn(k) /\ M = LoadCols(k) /\ F = FirstPixel(k)
    <2>1. PixelsIn(k) \in Nat /\ FirstPixel(k) \in Nat
      BY PixelsInFacts
    <2> QED
      BY <2>1, LoadFacts
  <1>9. /\ P = IF k # 1 /\ k # call.parts THEN W + 2 * R ELSE W + R
        /\ M = IF k = call.parts THEN W + 2 * R ELSE P
    BY <1>1, <1>8, PixelsInFacts, LoadFacts
  <1>10. F = IF k = 1 THEN 0 ELSE L - R
    BY <1>1, <1>2, <1>8 DEF FirstPixel
  <1>11. Delay(k) = IF k = 1 THEN R ELSE 2 * R
    BY <1>1 DEF Delay
  <1>12. x = c - (IF k = 1 THEN R ELSE 2 * R) /\ x \in 0..(W - 1)
    BY <1>1, <1>11
  <1>13. SUFFICES /\ g \in 0..(2 * R) /\ z \in 0..(M - 1)
                  /\ F + Min2(z, P - 1) = Pad(pad, (L + x) + (j - R), I)
    BY <1>1, <1>2, <1>3, <1>6, <1>8
  <1>14. W \in Nat \ {0} /\ W >= 2 * R
    BY <1>1, <1>4, <1>5, <1>12
  <1>15. j \in 0..(2 * R) /\ z = (c - 2 * R) + g
    BY <1>1, <1>6
  <1>16. CASE k = 1
    <2>1. Kind(k) = "L"
      BY <1>16, KindIs
    <2>2. PICK size : size = W + R
      OBVIOUS
    <2>3. g = Slot(pad, j, R, c, size)
      BY <1>1, <1>3, <1>6, <2>1, <2>2 DEF PickedColumn, Slot
    <2>4. R <= c /\ c < W + R /\ W + 2 * R <= I /\ L = 0
      <3>1. x = c - R
        BY <1>12, <1>16
      <3> QED
        BY <1>4, <1>5, <1>7, <1>12, <1>16, <3>1
    <2>5. /\ g \in 0..(2 * R)
          /\ (c - 2 * R) + g \in 0..(W + R - 1)
          /\ Meets(pad, 0, (c - 2 * R) + g, W + R - 1, (c - R) + (j - R), I)
      BY <1>14, <1>15, <2>3, <2>4, <2>2, LeftColumn
    <2>6. P = W + R /\ M = W + R /\ F = 0 /\ x = c - R
      BY <1>7, <1>9, <1>10, <1>12, <1>16
    <2>7. L + x = c - R
      BY <2>4, <2>6
    <2> QED
      BY <1>15, <2>5, <2>6, <2>7 DEF Meets
  <1>17. CASE k # 1 /\ k # call.parts
    <2>1. Kind(k) = "C"
      BY <1>17, KindIs
    <2>2. g = j
      BY <2>1 DEF PickedColumn
    <2>3. /\ 2 * R <= c /\ c < W + 2 * R /\ L >= R /\ L + W + R <= I
          /\ x = c - 2 * R
      BY <1>4, <1>5, <1>7, <1>12, <1>17
    <2>4. /\ (c - 2 * R) + j \in 0..(W + 2 * R - 1)
          /\ Meets(pad, L - R, (c - 2 * R) + j, W + 2 * R - 1,
                   (L + (c - 2 * R)) + (j - R), I)
      BY <1>14, <1>15, <2>3, InnerColumn
    <2>5. P = W + 2 * R /\ M = W + 2 * R /\ F = L - R
      BY <1>9, <1>10, <1>17
    <2> QED
      BY <1>15, <2>2, <2>3, <2>4, <2>5 DEF Meets
  <1>18. CASE k = call.parts
    <2>1. k # 1 /\ Kind(k) # "C" /\ Kind(k) # "L"
      BY <1>7, <1>18, KindIs
    <2>2. PICK size : size = W + 2 * R
      OBVIOUS
    <2>3. g = Slot(pad, j, R, c, size)
      BY <1>1, <1>3, <1>6, <2>1, <2>2 DEF PickedColumn, Slot
    <2>4. /\ 2 * R <= c /\ c < W + 2 * R /\ L >= R /\ L + W = I
          /\ x = c - 2 * R
      BY <1>4, <1>5, <1>7, <1>12, <1>18, <2>1
    <2>5. c < W + R \/ pad = "CLAMP"
      BY <1>1, <1>3, <1>18, <2>4
    <2>6. RightFits(pad, R, W, L, c, j, g)
      BY <1>14, <1>15, <2>3, <2>4, <2>5, <2>2, RightColumn
    <2>7. P = W + R /\ M = W + 2 * R /\ F = L - R
      BY <1>9, <1>10, <1>18, <2>1
    <2> QED
      BY <1>15, <2>1, <2>4, <2>6, <2>7 DEF Meets, RightFits
  <1> QED
    BY <1>16, <1>17, <1>18

TakesColumns(k, w, c) ==
  \A i \in Win, j \in Win : PickedColumn(k, c, j) \in Win =>
    BorderX(k, w, c)[i][j] = w[i][PickedColumn(k, c, j)]

TakesLines(k, v, y) ==
  \A i \in Win : PickedLine(y, i) \in Win =>
    BorderY(k, v, y)[i] = v[PickedLine(y, i)]

(* What the border passes leave: each row one that the first pass made.    *)
LEMMA BorderTypes ==
  ASSUME call \in Call, NEW k \in Parts, NEW w \in Windows, NEW c \in Nat,
         NEW y \in Nat
  PROVE  /\ BorderX(k, w, c) \in Windows
         /\ BorderY(k, BorderX(k, w, c), y) \in Windows
         /\ TakesColumns(k, w, c) /\ TakesLines(k, BorderX(k, w, c), y)
  <1>1. PICK R \in Nat \ {0} : R = Radius
    BY CallFacts
  <1>2. Kernel = 2 * R + 1 /\ Win = 0..(2 * R)
    BY <1>1, LoadFacts
  <1>3. w \in [Win -> [Win -> Pixels]]
    BY DEF Windows
  <1>4. Junk \in Pixels
    BY DEF Pixels
  <1>5. PICK v : v = BorderX(k, w, c)
    OBVIOUS
  <1>6. /\ v \in [Win -> [Win -> Pixels]]
        /\ \A i \in Win, j \in Win : PickedColumn(k, c, j) \in Win =>
             v[i][j] = w[i][PickedColumn(k, c, j)]
    <2>1. CASE Kind(k) = "C"
      <3>1. v = w
        BY <1>5, <2>1 DEF BorderX
      <3>2. \A j : PickedColumn(k, c, j) = j
        BY <2>1 DEF PickedColumn
      <3> QED
        BY <1>3, <3>1, <3>2
    <2>2. CASE Kind(k) # "C"
      <3>1. v = [i \in Win |-> [j \in Win |-> At(w[i], PickedColumn(k, c, j), Junk)]]
        BY <1>5, <2>2 DEF BorderX, PickedColumn
      <3>2. ASSUME NEW i \in Win, NEW g
            PROVE  /\ At(w[i], g, Junk) \in Pixels
                   /\ g \in Win => At(w[i], g, Junk) = w[i][g]
        BY <1>3, <1>4 DEF At
      <3> HIDE DEF PickedColumn
      <3> QED
        BY <3>1, <3>2
    <2> QED
      BY <2>1, <2>2
  <1>7. PICK none : none = [j \in Win |-> Junk]
    OBVIOUS
  <1>8. none \in [Win -> Pixels]
    BY <1>4, <1>7
  <1>9. PICK from : from = [i \in Win |-> PickedLine(y, i)]
    OBVIOUS
  <1>10. BorderY(k, v, y) = [i \in Win |-> At(v, from[i], none)]
    <2>1. BorderY(k, v, y) = IF Kind(k) = "C" THEN [i \in Win |-> At(v, from[i], none)]
                                              ELSE RowsInPlace(v, from, none)
      BY <1>7, <1>9 DEF BorderY, PickedLine
    <2>2. RowsInPlace(v, from, none) = [i \in Win |-> At(v, from[i], none)]
      <3>1. PICK N \in Nat : N = 2 * R
        OBVIOUS
      <3>2. Win = 0..N
        BY <1>2, <3>1
      <3>3. PICK h \in Nat, pad \in Paddings : h = call.height /\ pad = call.padding
        BY CallFacts
      <3>4. \A i \in Win : from[i] = Slot(pad, i, R, y, h)
        BY <1>1, <1>2, <1>9, <3>3 DEF PickedLine, Slot
      <3>5. ASSUME NEW i \in Win
            PROVE  from[i] \in Int /\ (from[i] \in Win /\ from[i] < i => from[from[i]] = from[i])
        <4>1. i \in 0..(2 * R) /\ R \in Nat
          BY <1>2
        <4>2. PICK g : g = Slot(pad, i, R, y, h)
          OBVIOUS
        <4>3. /\ g \in Int
              /\ g < i => Slot(pad, g, R, y, h) = g
          BY <3>3, <4>1, <4>2, PickedSlotStays
        <4> QED
          BY <3>4, <4>2, <4>3
      <3>6. from \in [0..N -> Int] /\ DOMAIN v = 0..N
        BY <1>6, <1>9, <3>2, <3>5
      <3>7. \A i \in 0..N : from[i] \in 0..N /\ from[i] < i => from[from[i]] = from[i]
        BY <3>2, <3>5
      <3> QED
        BY <3>2, <3>6, <3>7, InPlaceIsParallel
    <2> QED
      BY <2>1, <2>2
  <1>11. ASSUME NEW g
         PROVE  At(v, g, none) \in [Win -> Pixels] /\ (g \in Win => At(v, g, none) = v[g])
    BY <1>6, <1>8 DEF At
  <1>12. BorderY(k, v, y) \in [Win -> [Win -> Pixels]]
    BY <1>10, <1>11
  <1>13. \A i \in Win : PickedLine(y, i) \in Win => BorderY(k, v, y)[i] = v[PickedLine(y, i)]
    BY <1>9, <1>10, <1>11
  <1>14. TakesColumns(k, w, c)
    BY <1>5, <1>6 DEF TakesColumns
  <1>15. TakesLines(k, v, y)
    BY <1>13 DEF TakesLines
  <1> QED
    BY <1>5, <1>6, <1>12, <1>14, <1>15 DEF Windows

(* A window that shows the part shows the image when the borders are done. *)
LEMMA BordersFit ==
  ASSUME call \in Call, NEW k \in Parts, NEW w \in Windows,
         NEW y \in Nat, NEW c \in Nat, NEW r, NEW x,
         r = y - Radius, x = c - Delay(k),
         y >= Radius, y < call.height + Radius, x \in 0..(WidthOf(k) - 1),
         Shows(k, w, y, c),
         k = call.parts => x + Radius < WidthOf(k) \/ call.padding = "CLAMP"
  PROVE  BorderY(k, BorderX(k, w, c), y) = Neighbourhood(r, Left(k) * Vect + x, SplitOrder(k))
  <1>1. PICK R \in Nat \ {0} : R = Radius
    BY CallFacts
  <1>2. PICK h \in Nat \ {0}, pad \in Paddings :
          h = call.height /\ pad = call.padding /\ h >= 2 * R
    BY <1>1, CallFacts
  <1>3. Kernel = 2 * R + 1 /\ Win = 0..(2 * R)
    BY <1>1, LoadFacts
  <1>4. PICK X, I, M, F, P, d : /\ X = Left(k) * Vect + x /\ I = call.width * Vect
                             /\ M = LoadCols(k) /\ F = FirstPixel(k) /\ P = PixelsIn(k)
                                /\ d = SplitOrder(k)
    OBVIOUS
  <1>5. PICK b : b = BorderY(k, BorderX(k, w, c), y)
    OBVIOUS
  <1>6. TakesColumns(k, w, c) /\ TakesLines(k, BorderX(k, w, c), y)
    BY BorderTypes
  <1>7. ASSUME NEW i \in Win, NEW j \in Win
        PROVE  b[i][j] = <<Pad(pad, r + (i - R), h), Pad(pad, X + (j - R), I), d>>
    <2>1. PICK g : g = PickedColumn(k, c, j)
      OBVIOUS
    <2>2. PICK z : z = (c - 2 * R) + g
      OBVIOUS
    <2>3. /\ g \in Win /\ z \in 0..(M - 1)
          /\ F + Min2(z, P - 1) = Pad(pad, X + (j - R), I)
      BY <1>1, <1>2, <1>4, <2>1, <2>2, ColumnsFit
    <2>4. PICK u : u = PickedLine(y, i)
      OBVIOUS
    <2>5. PICK l : l = (y - 2 * R) + u
      OBVIOUS
    <2>6. /\ u \in Win /\ l \in 0..(h - 1)
          /\ l = Pad(pad, r + (i - R), h)
      <3>1. u = Slot(pad, i, R, y, h)
        BY <1>1, <1>2, <1>3, <2>4 DEF PickedLine, Slot
      <3>2. y \in R..(h + R - 1) /\ i \in 0..(2 * R) /\ R \in Nat
        BY <1>1, <1>2, <1>3
      <3>3. SlotShows(u, pad, i, R, y, h)
        BY <1>2, <3>1, <3>2, SlotIsPadded
      <3> QED
        BY <1>1, <1>3, <2>5, <3>3 DEF SlotShows
    <2>7. b[i][j] = w[u][g]
      <3>1. b[i] = BorderX(k, w, c)[u]
        BY <1>5, <1>6, <2>4, <2>6 DEF TakesLines
      <3>2. BorderX(k, w, c)[u][j] = w[u][g]
        BY <1>6, <2>1, <2>3, <2>6 DEF TakesColumns
      <3> QED
        BY <3>1, <3>2
    <2>8. w[u][g] = PartPixel(k, l, z)
      <3>1. InPart(k, l, z)
        BY <1>2, <1>4, <2>3, <2>6 DEF InPart
      <3>2. InPart(k, (y - 2 * R) + u, (c - 2 * R) + g) =>
              w[u][g] = PartPixel(k, (y - 2 * R) + u, (c - 2 * R) + g)
        BY <1>1, <2>3, <2>6 DEF Shows
      <3> QED
        BY <2>2, <2>5, <3>1, <3>2
    <2>9. PartPixel(k, l, z) = <<l, F + Min2(z, P - 1), d>>
      BY <1>4 DEF PartPixel
    <2> QED
      BY <2>3, <2>6, <2>7, <2>8, <2>9
  <1>8. b \in [Win -> [Win -> Pixels]]
    <2>1. b \in Windows
      BY <1>5, BorderTypes
    <2> QED
      BY <2>1 DEF Windows
  <1>9. b = [i \in Win |-> [j \in Win |->
              <<Pad(pad, r + (i - R), h), Pad(pad, X + (j - R), I), d>>]]
    <2>1. \A i \in Win : b[i] = [j \in Win |->
             <<Pad(pad, r + (i - R), h), Pad(pad, X + (j - R), I), d>>]
      <3>1. SUFFICES ASSUME NEW i \in Win
                     PROVE  b[i] = [j \in Win |->
                              <<Pad(pad, r + (i - R), h), Pad(pad, X + (j - R), I), d>>]
        OBVIOUS
      <3>2. b[i] \in [Win -> Pixels]
        BY <1>8
      <3> QED
        BY <1>7, <3>2
    <2> QED
      BY <1>8, <2>1
  <1>10. Neighbourhood(r, X, d) = [i \in Win |-> [j \in Win |->
              <<Pad(pad, r + (i - R), h), Pad(pad, X + (j - R), I), d>>]]
    BY <1>1, <1>2, <1>4 DEF Neighbourhood
  <1> QED
    BY <1>4, <1>5, <1>9, <1>10

(* What process writes is what the stream of results promises.             *)
LEMMA ResultsAreFiltered ==
  ASSUME IInv, NEW k \in Parts, HasTurn(<<"process", k>>), NEW v,
         v = BorderY(k, BorderX(k, FilterWindow(k), Col(<<"process", k>>)),
                     Row(<<"process", k>>))
  PROVE  Gives(<<"process", k>>, v)
  <1>1. PICK p \in Process : p = <<"process", k>>
    BY ProcessIs
  <1>2. PICK y, c : y = Row(p) /\ c = Col(p)
    OBVIOUS
  <1>3. /\ call \in Call /\ y \in Nat /\ c \in Nat
        /\ y < call.height + Radius /\ c < WidthOf(k) + 2 * Radius
    BY <1>1, <1>2, FilterPlace
  <1>4. SUFFICES ASSUME NEW s \in Streams, s \in Pushes(p)
                 PROVE  v \in Payload(s[1]) /\ v \in Contents(s)[Given(s)]
    BY <1>1 DEF Gives
  <1>5. s = <<"results", k>> /\ ProcessWrites(k, y, c)
    BY <1>1, <1>2, <1>4, PushesIs
  <1>6. PICK R \in Nat \ {0}, W \in Nat : R = Radius /\ W = WidthOf(k)
    BY <1>3, CallFacts, PixelFacts
  <1>7. PICK h \in Nat : h = call.height
    BY <1>3, CallFacts
  <1>8. PICK o, r, x : o = Delay(k) /\ r = y - R /\ x = c - o
    OBVIOUS
  <1>9. /\ y >= R /\ x \in 0..(W - 1) /\ o \in Nat
        /\ Columns(p) = W + 2 * R
    <2>1. Columns(p) = W + 2 * R
      BY <1>1, <1>6, LoopIs
    <2>2. c < Columns(<<"process", k>>)
      BY <1>1, <1>3, <1>6, <2>1
    <2> QED
      BY <1>3, <1>5, <1>6, <1>8, <2>1, <2>2, ProcessWritesIs
  <1>10. r \in Nat /\ r + R = y /\ W \in Nat \ {0}
    BY <1>3, <1>6, <1>8, <1>9
  <1>11. PICK w : w = FilterWindow(k)
    OBVIOUS
  <1>12. w \in Windows
    BY <1>1, <1>11, FilterTypes
  <1>13. v = BorderY(k, BorderX(k, w, c), y)
    BY <1>1, <1>2, <1>11
  <1>14. v \in Windows
    BY <1>3, <1>12, <1>13, BorderTypes
  <1>15. Fits(k, r, x, v)
    <2>1. SUFFICES ASSUME IsExact(k, r, x)
                   PROVE  v = Neighbourhood(r, Left(k) * Vect + x, SplitOrder(k))
      BY DEF Fits
    <2>2. y < call.height \/ k = call.parts
      BY <1>6, <1>10, <2>1 DEF IsExact
    <2>3. k = call.parts => x + Radius < WidthOf(k) \/ call.padding = "CLAMP"
      BY <2>1 DEF IsExact
    <2>4. c < LoadCols(k)
      <3>1. PICK M \in Nat, P \in Nat : M = LoadCols(k) /\ P = PixelsIn(k)
        <4>1. PixelsIn(k) \in Nat
          BY <1>3, PixelsInFacts
        <4> QED
          BY <1>3, <4>1, LoadFacts
      <3>2. /\ k # call.parts => M = P
            /\ k = call.parts => M = W + 2 * R
        BY <1>3, <1>6, <3>1, LoadFacts
      <3>3. P = IF k # 1 /\ k # call.parts THEN W + 2 * R ELSE W + R
        BY <1>3, <1>6, <3>1, PixelsInFacts
      <3>4. o = IF k = 1 THEN R ELSE 2 * R
        BY <1>6, <1>8 DEF Delay
      <3>5. c - o < W
        BY <1>3, <1>8, <1>9
      <3>6. CASE k = call.parts
        BY <1>3, <1>6, <3>1, <3>2, <3>6
      <3>7. CASE k # call.parts
        BY <1>3, <1>6, <1>9, <3>1, <3>2, <3>3, <3>4, <3>5, <3>7
      <3> QED
        BY <3>6, <3>7
    <2>5. Shows(k, w, y, c)
      BY <1>1, <1>2, <1>11, <2>2, <2>4, NewWindowShows
    <2>6. /\ r = y - Radius /\ x = c - Delay(k)
          /\ y >= Radius /\ x \in 0..(WidthOf(k) - 1)
      BY <1>6, <1>8, <1>9
    <2> QED
      BY <1>3, <1>12, <1>13, <2>3, <2>5, <2>6, BordersFit
  <1>16. PICK i : i = Line(W, o, r, c)
    OBVIOUS
  <1>17. i \in Nat /\ i \div W = r /\ i % W = x
    <2>1. c - o \in 0..(W - 1)
      BY <1>8, <1>9
    <2> QED
      BY <1>3, <1>8, <1>9, <1>10, <1>16, <2>1, LinePlace
  <1>18. Given(s) = i
    <2>1. Given(s) = GivenAt(s, y, c)
      BY <1>1, <1>2, <1>5, EndsAre DEF Given
    <2>2. GivenAt(s, y, c) = FilteredAt(k, y, c)
      BY <1>5, CountsAre
    <2> QED
      BY <1>6, <1>8, <1>9, <1>16, <2>1, <2>2 DEF FilteredAt
  <1>19. v \in Contents(s)[i]
    BY <1>5, <1>6, <1>14, <1>15, <1>17, ResultsAre
  <1>20. Payload(s[1]) = Windows
    BY <1>5, PayloadsAre
  <1> QED
    BY <1>14, <1>18, <1>19, <1>20

LEMMA Filtering ==
  ASSUME IInv, NEW k \in Parts, Filter(k)
  PROVE  IInv'
  <1>1. /\ call \in Call /\ CutsAgree
        /\ LoopsOK /\ ShapesOK /\ StreamsOK /\ PartsOK /\ OutOK
    BY DEF IInv
  <1>2. PICK p \in Process : p = <<"process", k>>
    BY ProcessIs
  <1>3. PICK x, w, b : x = FilterPixel(k) /\ w = FilterWindow(k) /\ b = FilterLines(k)
    OBVIOUS
  <1>4. /\ HasTurn(p) /\ inPixel' = [inPixel EXCEPT ![k] = x]
        /\ winTmp' = [winTmp EXCEPT ![k] = w]
        /\ lineBuff' = [lineBuff EXCEPT ![k] = b]
        /\ Moved(p, BorderY(k, BorderX(k, winTmp'[k], Col(p)), Row(p)))
        /\ Advance(p) /\ call' = call /\ held' = held /\ out' = out
    BY <1>2, <1>3 DEF Filter, FilterPixel, FilterWindow, FilterLines, FilterLoads
  <1>5. ~Finished(p)
    BY <1>4, TurnFacts
  <1>6. /\ x \in Pixels /\ w \in Windows /\ b \in Buffers(k)
    BY <1>2, <1>3, <1>4, FilterTypes, PixelIsSeen
  <1>7. /\ inPixel' \in [Parts -> Pixels] /\ winTmp' \in [Parts -> Windows]
        /\ DOMAIN lineBuff' = Parts
        /\ inPixel'[k] = x /\ winTmp'[k] = w /\ lineBuff'[k] = b
        /\ \A j \in Parts : j # k => /\ inPixel'[j] = inPixel[j]
                                     /\ winTmp'[j] = winTmp[j]
                                     /\ lineBuff'[j] = lineBuff[j]
    <2>1. /\ inPixel \in [Parts -> Pixels] /\ winTmp \in [Parts -> Windows]
          /\ DOMAIN lineBuff = Parts
      BY <1>1 DEF ShapesOK
    <2> QED
      BY <1>4, <1>6, <2>1
  <1>8. PICK v : v = BorderY(k, BorderX(k, w, Col(p)), Row(p))
    OBVIOUS
  <1>9. Gives(p, v) /\ Moved(p, v)
    <2>1. Moved(p, v)
      <3>1. PICK n : n = winTmp'[k]
        OBVIOUS
      <3>2. Moved(p, BorderY(k, BorderX(k, n, Col(p)), Row(p)))
        BY <1>4, <3>1
      <3>3. n = w
        BY <1>7, <3>1
      <3> QED
        BY <1>8, <3>2, <3>3
    <2>2. Gives(p, v)
      BY <1>2, <1>3, <1>4, <1>8, ResultsAreFiltered
    <2> QED
      BY <2>1, <2>2
  <1>10. LoopsOK'
    BY <1>1, <1>4, <1>5, LoopsStep
  <1>11. StreamsOK'
    BY <1>1, <1>4, <1>9, StreamsStep
  <1>12. Parts' = Parts /\ Lanes' = Lanes
    BY <1>4, CallStays
  <1>13. ShapesOK'
    <2>1. /\ Pixels' = Pixels /\ Windows' = Windows /\ Words' = Words
          /\ Results' = Results
          /\ \A j : Buffers(j)' = Buffers(j)
      BY <1>4, ContentsStay
    <2>2. \A j \in Parts : lineBuff'[j] \in Buffers(j)
      <3>1. SUFFICES ASSUME NEW j \in Parts
                     PROVE  lineBuff'[j] \in Buffers(j)
        OBVIOUS
      <3>2. lineBuff[j] \in Buffers(j)
        BY <1>1 DEF ShapesOK
      <3> QED
        BY <1>6, <1>7, <3>2
    <2> QED
      BY <1>1, <1>4, <1>7, <1>12, <2>1, <2>2 DEF ShapesOK
  <1>14. PICK y, c, q, e : /\ y = Row(p) /\ c = Col(p)
                           /\ q = AfterRow(p) /\ e = AfterCol(p)
    OBVIOUS
  <1>15. Row(p)' = q /\ Col(p)' = e
    BY <1>1, <1>4, <1>14, Advanced
  <1>16. y \in Nat /\ c \in Nat
    BY <1>2, <1>4, <1>14, FilterPlace
  <1>17. \/ q = y /\ e = c + 1
         \/ q = y + 1 /\ e = 0
    BY <1>1, <1>5, <1>14, Moving
  <1>18. PICK h \in Nat : h = call.height
    BY <1>1, CallFacts
  <1>19. /\ Radius' = Radius /\ Kernel' = Kernel /\ Win' = Win
         /\ \A j : FirstPixel(j)' = FirstPixel(j)
         /\ \A j : PixelsIn(j)' = PixelsIn(j)
         /\ \A j : LoadCols(j)' = LoadCols(j)
         /\ \A j : SplitOrder(j)' = SplitOrder(j)
    BY <1>4, CallStays
  <1>20. \A j, z : PartPixel(k, j, z)' = PartPixel(k, j, z)
    BY <1>19 DEF PartPixel
  <1>21. Moves(k)' <=> q < h \/ k = call.parts
    BY <1>2, <1>4, <1>15, <1>18 DEF Moves
  <1>22. PixelOK(k)'
    <2>1. PixelOK(k)' <=> (q < h /\ e > 0 => x = PartPixel(k, q, e - 1)')
      BY <1>2, <1>4, <1>7, <1>15, <1>18 DEF PixelOK, PartPixel
    <2>2. ASSUME q < h, e > 0
          PROVE  x = PartPixel(k, q, e - 1)
      <3>1. q = y /\ e - 1 = c
        BY <1>16, <1>17, <2>2
      <3> QED
        BY <1>2, <1>3, <1>4, <1>14, <1>18, <2>2, <3>1, PixelIsSeen
    <2> QED
      BY <1>20, <2>1, <2>2
  <1>23. LinesOK(k)'
    <2>1. LinesOK(k)' <=> (Moves(k)' => HasLines(k, b, q, e)')
      BY <1>2, <1>7, <1>15 DEF LinesOK, HasLines, LineOf, PartPixel
    <2>2. \A i, a, r, z : LineOf(i, a, r, z)' = LineOf(i, a, r, z)
      BY <1>19 DEF LineOf
    <2>3. HasLines(k, b, q, e)' <=> HasLines(k, b, q, e)
      BY <1>4, <1>19, <1>20, <2>2 DEF HasLines
    <2>4. q < call.height \/ k = call.parts => HasLines(k, b, q, e)
      BY <1>2, <1>3, <1>4, <1>14, NewLinesHave
    <2> QED
      BY <1>18, <1>21, <2>1, <2>3, <2>4
  <1>24. WindowOK(k)'
    <2>1. WindowOK(k)' <=> (Moves(k)' /\ e <= LoadCols(k) => Shows(k, w, q, e - 1)')
      BY <1>2, <1>7, <1>15, <1>19 DEF WindowOK, Shows, InPart, PartPixel
    <2>2. \A j, z : InPart(k, j, z)' <=> InPart(k, j, z)
      BY <1>4, <1>19 DEF InPart
    <2>3. Shows(k, w, q, e - 1)' <=> Shows(k, w, q, e - 1)
      BY <1>19, <1>20, <2>2 DEF Shows
    <2>4. ASSUME q < h \/ k = call.parts, e <= LoadCols(k)
          PROVE  Shows(k, w, q, e - 1)
      <3>1. CASE q = y /\ e = c + 1
        <4>1. e - 1 = c
          BY <1>16, <3>1
        <4>2. c < LoadCols(k)
          <5>1. LoadCols(k) \in Nat
            BY <1>1, LoadFacts
          <5> QED
            BY <1>16, <2>4, <3>1, <5>1
        <4>3. Shows(k, w, y, c)
          BY <1>2, <1>3, <1>4, <1>14, <1>18, <2>4, <3>1, <4>2, NewWindowShows
        <4> QED
          BY <3>1, <4>1, <4>3
      <3>2. CASE e = 0
        <4>1. PICK R \in Nat \ {0}, M \in Nat : R = Radius /\ M = LoadCols(k)
          BY <1>1, CallFacts, LoadFacts
        <4>2. Win = 0..(2 * R)
          BY <1>1, <4>1, LoadFacts
        <4>3. \A j \in Win : (e - 1 - 2 * R) + j < 0
          BY <3>2, <4>1, <4>2
        <4>4. \A j \in Win : \A z : ~InPart(k, z, e - 1 - 2 * Radius + j)
          BY <4>1, <4>3 DEF InPart
        <4> QED
          BY <4>4 DEF Shows
      <3> QED
        BY <1>17, <3>1, <3>2
    <2> QED
      BY <1>21, <2>1, <2>3, <2>4
  <1>25. PartsOK'
    <2>1. ASSUME NEW j \in Parts
          PROVE  /\ SplitOK(j)' /\ AssembleOK(j)'
                 /\ PixelOK(j)' /\ LinesOK(j)' /\ WindowOK(j)'
      <3>1. Still(<<"split", j>>) /\ Still(<<"assemble", j>>)
        BY <1>1, <1>2, <1>4, OthersStill, ProcessIs, ProcessesDiffer
      <3>2. /\ SplitOK(j) /\ AssembleOK(j)
            /\ PixelOK(j) /\ LinesOK(j) /\ WindowOK(j)
        BY <1>1 DEF PartsOK
      <3>3. SplitOK(j)' /\ AssembleOK(j)'
        BY <1>4, <3>1, <3>2, SplitStays, AssembleStays
      <3>4. PixelOK(j)' /\ LinesOK(j)' /\ WindowOK(j)'
        <4>1. CASE j = k
          BY <1>22, <1>23, <1>24, <4>1
        <4>2. CASE j # k
          <5>1. Still(<<"process", j>>)
            BY <1>1, <1>2, <1>4, <4>2, OthersStill, ProcessIs, ProcessesDiffer
          <5> QED
            BY <1>4, <1>7, <3>2, <4>2, <5>1, ProcessStays
        <4> QED
          BY <4>1, <4>2
      <3> QED
        BY <3>3, <3>4
    <2> QED
      BY <1>12, <2>1 DEF PartsOK
  <1>26. OutOK'
    <2>1. Still(Collector)
      BY <1>1, <1>2, <1>4, OthersStill, ProcessIs, ProcessesDiffer
    <2> QED
      BY <1>1, <1>4, <2>1, OutStays
  <1>27. call' \in Call /\ CutsAgree'
    BY <1>1, <1>4, CutsStay
  <1> QED
    BY <1>10, <1>11, <1>13, <1>25, <1>26, <1>27 DEF IInv

-----------------------------------------------------------------------------
(* The invariant holds.                                                    *)
LEMMA NothingCounted ==
  ASSUME call \in Call, NEW s \in Streams
  PROVE  GivenAt(s, 0, 0) = 0 /\ TakenAt(s, 0, 0) = 0
  <1>1. PICK k \in Parts : s \in {<<"words", k>>, <<"pixels", k>>,
                                  <<"results", k>>, <<"packed", k>>}
    BY DEF Streams
  <1>2. PICK V \in Nat \ {0}, R \in Nat \ {0}, h \in Nat :
          V = Vect /\ R = Radius /\ h = call.height /\ h > 0
    BY CallFacts
  <1>3. ASSUME NEW n \in Nat, NEW o \in Nat
        PROVE  /\ Line(n, o, 0, 0) = 0
               /\ LineBegun(n, V, 0, 0) = 0 /\ LineEnded(n, V, 0, 0) = 0
    <2>1. 0 * n = 0 /\ 0 \div V = 0 /\ 0 % V = 0
      BY <1>2
    <2>2. Within(0 - o, n) = 0
      BY DEF Within, Min2, Max2
    <2>3. Begun(0, V) = 0
      BY <1>2, <2>1, BegunIs
    <2>4. Min2(0, n) = 0
      BY DEF Min2
    <2> QED
      BY <2>1, <2>2, <2>3, <2>4 DEF Line, LineBegun, LineEnded
  <1>4. /\ WordsIn(k) \in Nat /\ FirstWord(k) \in Nat /\ PixelsIn(k) \in Nat
        /\ WidthOf(k) \in Nat /\ WordsOf(k) \in Nat /\ Left(k) \in Nat
        /\ Skip(k) \in Nat
    BY WordFacts, PixelsInFacts, PixelFacts, PartFacts
  <1>5. /\ DealtAt(k, 0, 0) = 0 /\ UnpackedAt(k, 0, 0) = 0
        /\ CastAt(k, 0, 0) = 0 /\ SeenAt(k, 0, 0) = 0
        /\ FilteredAt(k, 0, 0) = 0 /\ GatheredAt(k, 0, 0) = 0
        /\ PackedAt(k, 0, 0) = 0 /\ CollectedAt(k, 0, 0) = 0
    BY <1>2, <1>3, <1>4 DEF DealtAt, UnpackedAt, CastAt, SeenAt, FilteredAt,
                           GatheredAt, PackedAt, CollectedAt
  <1>6. PICK z : z = 0
    OBVIOUS
  <1>7. /\ DealtAt(k, z, z) = 0 /\ UnpackedAt(k, z, z) = 0
         /\ CastAt(k, z, z) = 0 /\ SeenAt(k, z, z) = 0
         /\ FilteredAt(k, z, z) = 0 /\ GatheredAt(k, z, z) = 0
         /\ PackedAt(k, z, z) = 0 /\ CollectedAt(k, z, z) = 0
    BY <1>5, <1>6
  <1>8. SUFFICES GivenAt(s, z, z) = 0 /\ TakenAt(s, z, z) = 0
    BY <1>6
  <1>9. CASE s = <<"words", k>>
    BY <1>7, <1>9, CountsAre
  <1>10. CASE s = <<"pixels", k>>
    BY <1>7, <1>10, CountsAre
  <1>11. CASE s = <<"results", k>>
    BY <1>7, <1>11, CountsAre
  <1>12. CASE s = <<"packed", k>>
    BY <1>7, <1>12, CountsAre
  <1> QED
    BY <1>1, <1>9, <1>10, <1>11, <1>12

LEMMA InitOK ==
  ASSUME Init, \A c \in Call : CutsMeet(c)
  PROVE  IInv
  <1>1. call \in Call /\ CutsAgree
    <2>1. call \in Call
      BY DEF Init
    <2> QED
      BY <2>1 DEF CutsMeet, CutsAgree, DealtWords, PartWords
  <1>2. \A p \in Process : pos[p] = [row |-> 0, col |-> 0]
    BY DEF Init
  <1>3. \A p \in Process : Row(p) = 0 /\ Col(p) = 0
    BY <1>2 DEF Row, Col
  <1>4. PICK V \in Nat \ {0}, R \in Nat \ {0}, h \in Nat :
          V = Vect /\ R = Radius /\ h = call.height /\ h > 0
    BY <1>1, CallFacts
  <1>5. Kernel = 2 * R + 1 /\ Win = 0..(2 * R)
    BY <1>4 DEF Kernel, Win
  <1>6. LoopsOK
    <2>1. pos \in [Process -> [row : Nat, col : Nat]]
      BY DEF Init
    <2>2. ASSUME NEW p \in Process
          PROVE  Row(p) <= Lines(p) /\ Col(p) < Columns(p) /\ (Finished(p) => Col(p) = 0)
      BY <1>1, <1>3, LoopFacts
    <2> QED
      BY <2>1, <2>2 DEF LoopsOK
  <1>7. Junk \in Pixels /\ NoWord \in Words
    BY DEF Pixels, Words
  <1>8. JunkWindow \in Windows /\ NoResult \in Results
    <2>1. JunkWindow \in Windows
      BY <1>7 DEF JunkWindow, Windows
    <2> QED
      BY <2>1 DEF NoResult, Results, Orders
  <1>9. ShapesOK
    <2>1. DOMAIN held = {"split", "assemble"} \X Parts
      BY DEF Init
    <2>2. inPixel \in [Parts -> Pixels] /\ winTmp \in [Parts -> Windows]
      BY <1>7, <1>8 DEF Init
    <2>3. DOMAIN lineBuff = Parts /\ out \in [Lanes -> Results]
      BY <1>8 DEF Init
    <2>4. ASSUME NEW k \in Parts
          PROVE  /\ held[<<"split", k>>] \in Words
                 /\ held[<<"assemble", k>>] \in [Lanes -> Results]
                 /\ lineBuff[k] \in Buffers(k)
      <3>1. held[<<"split", k>>] = NoWord
        BY DEF Init
      <3>2. held[<<"assemble", k>>] = [l \in Lanes |-> NoResult]
        BY DEF Init
      <3>3. lineBuff[k] = [i \in 0..(Kernel - 2) |->
                             [c \in 0..(WidthOf(k) + 2 * Radius - 1) |-> Junk]]
        BY DEF Init
      <3>4. lineBuff[k] \in Buffers(k)
        BY <1>7, <3>3 DEF Buffers
      <3> QED
        BY <1>7, <1>8, <3>1, <3>2, <3>4
    <2> QED
      BY <2>1, <2>2, <2>3, <2>4 DEF ShapesOK
  <1>10. StreamsOK
    <2>1. ASSUME NEW s \in Streams
          PROVE  StreamOK(s)
      <3>1. fifo[s] = <<>>
        BY DEF Init
      <3>2. Given(s) = 0 /\ Taken(s) = 0
        <4>1. PICK p \in Process, q \in Process : p = WriterOf(s) /\ q = ReaderOf(s)
          BY EndsOf, ProcessIs
        <4>2. Row(p) = 0 /\ Col(p) = 0 /\ Row(q) = 0 /\ Col(q) = 0
          BY <1>3
        <4> QED
          BY <1>1, <4>1, <4>2, NothingCounted DEF Given, Taken
      <3>3. Holds(<<>>, Payload(s[1]), Contents(s), 0, 0)
        BY DEF Holds
      <3>4. Len(<<>>) <= Depth
        BY DepthIsPositive
      <3> QED
        BY <3>1, <3>2, <3>3, <3>4 DEF StreamOK
    <2> QED
      BY <2>1 DEF StreamsOK
  <1>11. PartsOK
    <2>1. ASSUME NEW k \in Parts
          PROVE  /\ SplitOK(k) /\ AssembleOK(k)
                 /\ PixelOK(k) /\ LinesOK(k) /\ WindowOK(k)
      <3>1. /\ Col(<<"split", k>>) = 0 /\ Col(<<"assemble", k>>) = 0
            /\ Row(<<"process", k>>) = 0 /\ Col(<<"process", k>>) = 0
        BY <1>3, ProcessIs
      <3>2. 0 % V = 0
        BY <1>4
      <3>3. SplitOK(k)
        BY <1>4, <3>1, <3>2 DEF SplitOK
      <3>4. AssembleOK(k)
        <4>1. \A l \in Lanes : ~(l < 0)
          BY <1>4 DEF Lanes
        <4> QED
          BY <1>4, <3>1, <3>2, <4>1 DEF AssembleOK, LanesFit
      <3>5. PixelOK(k)
        BY <3>1 DEF PixelOK
      <3>6. LinesOK(k)
        <4>1. ASSUME NEW i \in 0..(Kernel - 2), NEW c \in 0..(LoadCols(k) - 1)
              PROVE  LineOf(i, c, 0, 0) \notin 0..(call.height - 1)
          <5>1. c >= 0 /\ i \in 0..(2 * R - 1) /\ Kernel - 2 = 2 * R - 1
            BY <1>5
          <5>2. LineOf(i, c, 0, 0) = (0 - 1) - (2 * R - 1 - i)
            BY <5>1 DEF LineOf
          <5> QED
            BY <1>4, <5>1, <5>2
        <4>2. HasLines(k, lineBuff[k], 0, 0)
          BY <4>1 DEF HasLines
        <4> QED
          BY <3>1, <4>2 DEF LinesOK
      <3>7. WindowOK(k)
        <4>1. ASSUME NEW j \in Win
              PROVE  ((0 - 1) - 2 * R) + j < 0
          BY <1>5
        <4>2. ASSUME NEW j \in Win, NEW y
              PROVE  ~InPart(k, y, 0 - 1 - 2 * Radius + j)
          BY <1>4, <4>1 DEF InPart
        <4>3. Shows(k, winTmp[k], 0, 0 - 1)
          BY <4>2 DEF Shows
        <4> QED
          BY <3>1, <4>3 DEF WindowOK
      <3> QED
        BY <3>3, <3>4, <3>5, <3>6, <3>7
    <2> QED
      BY <2>1 DEF PartsOK
  <1>12. OutOK
    <2>1. Row(Collector) = 0 /\ Col(Collector) = 0
      BY <1>3, ProcessIs
    <2>2. 0 * call.width = 0
      BY <1>1, CallFacts
    <2>3. Collected = 0
      BY <2>1, <2>2 DEF Collected
    <2> QED
      BY <2>3 DEF OutOK
  <1> QED
    BY <1>1, <1>6, <1>9, <1>10, <1>11, <1>12 DEF IInv

LEMMA StutterOK ==
  ASSUME IInv, UNCHANGED vars
  PROVE  IInv'
  <1>1. /\ call' = call /\ pos' = pos /\ fifo' = fifo /\ held' = held
        /\ inPixel' = inPixel /\ lineBuff' = lineBuff /\ winTmp' = winTmp
        /\ out' = out
    BY DEF vars
  <1>2. /\ call \in Call /\ CutsAgree
        /\ LoopsOK /\ ShapesOK /\ StreamsOK /\ PartsOK /\ OutOK
    BY DEF IInv
  <1>3. \A p : Still(p)
    BY <1>1 DEF Still, Row, Col
  <1>4. Process' = Process /\ Streams' = Streams /\ Parts' = Parts /\ Lanes' = Lanes
    BY <1>1, CallStays
  <1>5. LoopsOK'
    <2>1. (\A p : Columns(p)' = Columns(p)) /\ (\A p : Lines(p)' = Lines(p))
      BY <1>1, LoopsStay
    <2> QED
      BY <1>1, <1>2, <1>3, <1>4, <2>1 DEF LoopsOK, Finished, Still
  <1>6. ShapesOK'
    <2>1. /\ Pixels' = Pixels /\ Windows' = Windows /\ Words' = Words
          /\ Results' = Results
          /\ \A j : Buffers(j)' = Buffers(j)
      BY <1>1, ContentsStay
    <2> QED
      BY <1>1, <1>2, <1>4, <2>1 DEF ShapesOK
  <1>7. StreamsOK'
    <2>1. ASSUME NEW s \in Streams
          PROVE  StreamOK(s)'
      <3>1. PICK r, c, q, e : /\ r = Row(WriterOf(s)) /\ c = Col(WriterOf(s))
                              /\ q = Row(ReaderOf(s)) /\ e = Col(ReaderOf(s))
        OBVIOUS
      <3>2. /\ Row(WriterOf(s))' = r /\ Col(WriterOf(s))' = c
            /\ Row(ReaderOf(s))' = q /\ Col(ReaderOf(s))' = e
        BY <1>1, <3>1 DEF Row, Col, WriterOf, ReaderOf, Distributor, Collector
      <3>3. Given(s)' = GivenAt(s, r, c) /\ Taken(s)' = TakenAt(s, q, e)
        BY <1>1, <3>2, GivenThen, TakenThen
      <3>4. Given(s)' = Given(s) /\ Taken(s)' = Taken(s)
        BY <3>1, <3>3 DEF Given, Taken
      <3>5. Payload(s[1])' = Payload(s[1]) /\ Contents(s)' = Contents(s)
        BY <1>1, ContentsStay
      <3>6. PICK T, F, a, b : /\ T = Payload(s[1]) /\ F = Contents(s)
                              /\ a = Taken(s) /\ b = Given(s)
        OBVIOUS
      <3>7. Holds(fifo[s], T, F, a, b) /\ Len(fifo[s]) <= Depth
        BY <1>2, <3>6 DEF StreamsOK, StreamOK
      <3>8. StreamOK(s)' <=> Holds(fifo[s], T, F, a, b) /\ Len(fifo[s]) <= Depth
        BY <1>1, <3>4, <3>5, <3>6 DEF StreamOK, Holds
      <3> QED
        BY <3>7, <3>8
    <2> QED
      BY <1>4, <2>1 DEF StreamsOK
  <1>8. PartsOK'
    <2>1. ASSUME NEW j \in Parts
          PROVE  /\ SplitOK(j)' /\ AssembleOK(j)'
                 /\ PixelOK(j)' /\ LinesOK(j)' /\ WindowOK(j)'
      <3>1. /\ SplitOK(j) /\ AssembleOK(j)
            /\ PixelOK(j) /\ LinesOK(j) /\ WindowOK(j)
        BY <1>2 DEF PartsOK
      <3>2. /\ held'[<<"split", j>>] = held[<<"split", j>>]
            /\ held'[<<"assemble", j>>] = held[<<"assemble", j>>]
            /\ inPixel'[j] = inPixel[j] /\ lineBuff'[j] = lineBuff[j]
            /\ winTmp'[j] = winTmp[j]
        BY <1>1
      <3> QED
        BY <1>1, <1>3, <3>1, <3>2, SplitStays, AssembleStays, ProcessStays
    <2> QED
      BY <1>4, <2>1 DEF PartsOK
  <1>9. OutOK'
    BY <1>1, <1>2, <1>3, OutStays
  <1>10. CutsAgree'
    BY <1>1, <1>2, CutsStay
  <1> QED
    BY <1>1, <1>2, <1>5, <1>6, <1>7, <1>8, <1>9, <1>10 DEF IInv

LEMMA StepOK ==
  ASSUME IInv, [Next]_vars
  PROVE  IInv'
  <1>1. CASE Distribute
    BY <1>1, Distributing
  <1>2. CASE Collect
    BY <1>2, Collecting
  <1>3. ASSUME NEW k \in Parts, Split(k)
        PROVE  IInv'
    BY <1>3, Splitting
  <1>4. ASSUME NEW k \in Parts, Filter(k)
        PROVE  IInv'
    BY <1>4, Filtering
  <1>5. ASSUME NEW k \in Parts, Assembling(k)
        PROVE  IInv'
    BY <1>5, AssemblingParts
  <1>6. CASE UNCHANGED vars
    BY <1>6, StutterOK
  <1>7. Next => \/ Distribute \/ Collect
                \/ \E k \in Parts : Split(k) \/ Filter(k) \/ Assembling(k)
    BY DEF Next, Distribute2, Distribute2FIXED, Distribute4, Distribute8, Distribute16,
           Collect2, Collect2FIXED, Collect4, Collect8, Collect16,
           SplitL, SplitC, SplitR, SplitFL, SplitFC, SplitFR,
           ProcessL, ProcessC, ProcessR, Assemble, AssembleF
  <1> QED
    BY <1>1, <1>2, <1>3, <1>4, <1>5, <1>6, <1>7

LEMMA TypesHold ==
  ASSUME IInv
  PROVE  TypeOK
  <1>1. call \in Call /\ LoopsOK /\ ShapesOK /\ StreamsOK
    BY DEF IInv
  <1>2. ASSUME NEW p \in Process
        PROVE  Row(p) \in 0..Lines(p) /\ Col(p) \in 0..(Columns(p) - 1)
    BY <1>1, LoopTypes
  <1>3. ASSUME NEW s \in Streams
        PROVE  /\ Len(fifo[s]) <= Depth
               /\ \A n \in 1..Len(fifo[s]) : fifo[s][n] \in Payload(s[1])
    <2>1. Len(fifo[s]) <= Depth /\ fifo[s] \in Seq(Payload(s[1]))
      BY <1>1, HoldsTypes DEF StreamsOK, StreamOK
    <2> QED
      BY <2>1
  <1>4. ASSUME NEW k \in Parts
        PROVE  /\ held[<<"split", k>>] \in Words
               /\ held[<<"assemble", k>>] \in [Lanes -> Results]
               /\ inPixel[k] \in Pixels
               /\ winTmp[k] \in Windows
               /\ lineBuff[k] \in [0..(Kernel - 2) ->
                    [0..(WidthOf(k) + 2 * Radius - 1) -> Pixels]]
    BY <1>1 DEF ShapesOK, Buffers
  <1>5. out \in [Lanes -> Results]
    BY <1>1 DEF ShapesOK
  <1> QED
    BY <1>1, <1>2, <1>3, <1>4, <1>5 DEF TypeOK

(* The streams between the operators of runtime/hipacc_vivado_filter.hpp   *)
(* hold what their places in the lines say, whatever the layout of the     *)
(* parts and the order in which the operators run: the streams of a part   *)
(* neither drop, double nor reorder a word or a pixel, the bits of a part's *)
(* pixels are all in the order its split takes them in, process sees       *)
(* around each pixel what the part holds of the image, and assemble makes  *)
(* words of consecutive pixels.  distribute2 and collect2 have to cut the  *)
(* image in the same place.                                                *)
THEOREM PartsInvariant ==
  ASSUME \A c \in Call : CutsMeet(c)
  PROVE  Spec => []IInv
  <1>1. Init => IInv
    BY InitOK
  <1>2. IInv /\ [Next]_vars => IInv'
    BY StepOK
  <1> QED
    BY <1>1, <1>2, PTL DEF Spec

(* No operator leaves its loop bounds, no stream holds more than its depth *)
(* and all of them hold words, pixels and windows of the image.            *)
THEOREM PartsTypeCorrect ==
  ASSUME \A c \in Call : CutsMeet(c)
  PROVE  Spec => []TypeOK
  <1>1. IInv => TypeOK
    BY TypesHold
  <1>2. Spec => []IInv
    BY PartsInvariant
  <1> QED
    BY <1>1, <1>2, PTL

(* collect puts out every window of the image in its place, for every      *)
(* number and width of parts, vector width, window size, image size and    *)
(* stream depth, the pixels of part L with their bits as they are in       *)
(* memory and those of a window of another part with theirs in one order.  *)
THEOREM PartsInPlace ==
  ASSUME \A c \in Call : CutsMeet(c)
  PROVE  Spec => []PartsMeetInPlace
  <1>1. IInv => PartsMeetInPlace
    <2>1. \A k : /\ SplitOrder(k) \in Orders
                 /\ k = 1 => SplitOrder(k) \in {"straight"}
      BY OrderTypes DEF SplitOrder, Kind, Packed, Reversed
    <2> QED
      BY <2>1 DEF IInv, OutOK, PartsMeetInPlace, LastWordShows
  <1>2. Spec => []IInv
    BY PartsInvariant
  <1> QED
    BY <1>1, <1>2, PTL

=============================================================================
