--------------------------- MODULE Kernels_proofs ---------------------------
(***************************************************************************)
(* Theorems about the two models of what the rewriter does with kernels.   *)
(* KernelPrinter: kernels do not see what was printed before them, for any *)
(* set of kernel declarations and masks.  KernelArguments: for any kernel  *)
(* classes, targets and options, a launch gives the printed kernel what    *)
(* the program means, in a block that fits, and main() writes the masks.   *)
(***************************************************************************)
EXTENDS KernelPrinter, KernelArguments, SequenceTheorems, FiniteSetTheorems,
        WellFoundedInduction, TLAPS

(* What a call owes to its own kernel alone.                               *)
OwnCall(c) ==
  /\ c.def \in KernelDef
  /\ c.def.masks # {} /\ c.def.accs # << >> =>
       /\ c.border = BorderOf(c.def.accs[Len(c.def.accs)])
       /\ c.window = Union(c.def)

CallsAreOwn ==
  /\ \E S : calls \in Seq(S)
  /\ \A n \in DOMAIN calls : OwnCall(calls[n])

LEMMA PrinterInitOK == PrinterInit => CallsAreOwn
  <1>1. << >> \in Seq({}) /\ DOMAIN << >> = {}
    OBVIOUS
  <1> QED
    BY <1>1 DEF PrinterInit, CallsAreOwn

LEMMA PrintKernelOK ==
  ASSUME CallsAreOwn, NEW d \in KernelDef, PrintKernel(d)
  PROVE  CallsAreOwn'
  <1>1. PICK S, c :
          /\ calls \in Seq(S)
          /\ c = [def |-> d, fn |-> FunctionFor(d), window |-> vivadoSize',
                  border |-> IF d.masks # {} THEN BorderOf(vivadoBM') ELSE "none"]
    BY DEF CallsAreOwn
  <1>2. OwnCall(c)
    <2>1. /\ c.def = d /\ c.window = SizeAfter(d)
          /\ c.border = IF d.masks # {} THEN BorderOf(ModeAfter(d)) ELSE "none"
      BY <1>1 DEF PrintKernel
    <2> QED
      BY <2>1 DEF OwnCall, SizeAfter, ModeAfter
  <1>3. calls' = Append(calls, c)
    BY <1>1 DEF PrintKernel
  <1>4. calls \in Seq(S \cup {c}) /\ c \in S \cup {c}
    BY <1>1
  <1>5. /\ calls' \in Seq(S \cup {c})
        /\ Len(calls') = Len(calls) + 1
        /\ \A n \in 1..Len(calls) : calls'[n] = calls[n]
        /\ calls'[Len(calls) + 1] = c
    BY <1>3, <1>4, AppendProperties
  <1>6. /\ Len(calls) \in Nat /\ DOMAIN calls = 1..Len(calls)
        /\ DOMAIN calls' = 1..Len(calls')
    BY <1>4, <1>5, LenProperties
  <1>7. ASSUME NEW n \in DOMAIN calls'
        PROVE  OwnCall(calls'[n])
    <2>1. CASE n = Len(calls) + 1
      BY <1>2, <1>5, <2>1
    <2>2. CASE n \in DOMAIN calls
      <3>1. calls'[n] = calls[n]
        BY <1>5, <1>6, <2>2
      <3>2. OwnCall(calls[n])
        BY <2>2 DEF CallsAreOwn
      <3> QED
        BY <3>1, <3>2
    <2> QED
      BY <1>5, <1>6, <1>7, <2>1, <2>2
  <1>8. \A n \in DOMAIN calls' : OwnCall(calls[n])'
    BY <1>7 DEF OwnCall
  <1>9. \E T : calls' \in Seq(T)
    BY <1>5
  <1> QED
    BY <1>8, <1>9 DEF CallsAreOwn

LEMMA PrinterStepOK == CallsAreOwn /\ [PrinterNext]_printerVars => CallsAreOwn'
  <1> SUFFICES ASSUME CallsAreOwn, [PrinterNext]_printerVars
               PROVE  CallsAreOwn'
    OBVIOUS
  <1>1. ASSUME NEW d \in KernelDef, PrintKernel(d)
        PROVE  CallsAreOwn'
    BY <1>1, PrintKernelOK
  <1>2. ASSUME calls' = calls
        PROVE  CallsAreOwn'
    <2>1. \E S : calls' \in Seq(S)
      BY <1>2 DEF CallsAreOwn
    <2>2. \A n \in DOMAIN calls' : OwnCall(calls[n])'
      BY <1>2 DEF CallsAreOwn, OwnCall
    <2> QED
      BY <2>1, <2>2 DEF CallsAreOwn
  <1> QED
    BY <1>1, <1>2 DEF PrinterNext, Abort, printerVars

-----------------------------------------------------------------------------
LEMMA BordersAreOwn == CallsAreOwn => OwnBorder
  <1> SUFFICES ASSUME CallsAreOwn, NEW n \in DOMAIN calls, NEW d,
                      d = calls[n].def,
                      IsLocal(d), Uniform(d), d.accs # << >>
               PROVE  calls[n].border = BorderOf(d.accs[1])
    BY DEF OwnBorder
  <1>1. OwnCall(calls[n]) /\ d \in KernelDef
    BY DEF CallsAreOwn, OwnCall
  <1>2. d.accs \in Seq(Boundary)
    <2>1. d \in [accs : Seq(Boundary), masks : SUBSET Mask]
      BY <1>1, KernelDefType
    <2> QED
      BY <2>1
  <1>3. 1 \in DOMAIN d.accs /\ Len(d.accs) \in DOMAIN d.accs
    <2>1. Len(d.accs) \in Nat \ {0}
      BY <1>2, EmptySeq
    <2>2. DOMAIN d.accs = 1..Len(d.accs)
      BY <1>2, LenProperties
    <2> QED
      BY <2>1, <2>2
  <1>4. d.accs[Len(d.accs)] = d.accs[1]
    BY <1>3 DEF Uniform
  <1> QED
    BY <1>1, <1>4 DEF OwnCall, IsLocal

(* A kernel whose accessors agree is printed with their border mode,       *)
(* whatever vivadoBM was left at by the kernels before it.                 *)
THEOREM BorderIsOwn == PrinterSpec => []OwnBorder
  BY PrinterInitOK, PrinterStepOK, BordersAreOwn, PTL DEF PrinterSpec

-----------------------------------------------------------------------------
(* Sizes as strings of digits, and the largest of some strings.            *)

LEMMA LeastNat ==
  ASSUME NEW S, S # {}, S \subseteq Nat
  PROVE  \E x \in S : \A y \in S : x <= y
  <1> DEFINE R == {ss \in Nat \X Nat : ss[1] < ss[2]}
  <1>1. IsWellFoundedOn(R, Nat)
    BY NatLessThanWellFounded DEF OpToRel
  <1>2. PICK x \in S : \A y \in S : <<y, x>> \notin R
    <2> HIDE DEF R
    <2> QED
      BY <1>1, WFMin
  <1>3. \A y \in S : y \in Nat /\ x \in Nat
    OBVIOUS
  <1>4. \A y \in S : ~(y < x)
    BY <1>2, <1>3
  <1> QED
    BY <1>3, <1>4

LEMMA LastDigit ==
  ASSUME NEW n \in Nat
  PROVE  /\ n \div 10 \in Nat /\ n % 10 \in 0..9
         /\ n = 10 * (n \div 10) + (n % 10)
         /\ n >= 10 => n \div 10 >= 1 /\ n \div 10 < n
  OBVIOUS

(* Str is a recursive function, which has to exist before anything can be  *)
(* said about it.                                                          *)
Spelled(f, n) == IF n < 10 THEN <<n>> ELSE Append(f[n \div 10], n % 10)
Spells(f, m)  == f = [n \in 0..m |-> Spelled(f, n)]

LEMMA SpellingAgrees ==
  ASSUME NEW f, NEW g, NEW a \in Nat, NEW b \in Nat, Spells(f, a), Spells(g, b),
         NEW n \in Nat, n <= a, n <= b
  PROVE  f[n] = g[n]
  <1> DEFINE D == {m \in Nat : m <= a /\ m <= b /\ f[m] # g[m]}
  <1>1. SUFFICES ASSUME D # {} PROVE FALSE
    OBVIOUS
  <1>2. PICK m \in D : \A k \in D : m <= k
    <2>1. D \subseteq Nat
      OBVIOUS
    <2> QED
      BY <1>1, <2>1, LeastNat
  <1>3. f[m] = Spelled(f, m) /\ g[m] = Spelled(g, m)
    <2>1. m \in 0..a /\ m \in 0..b
      BY <1>2
    <2> QED
      BY <2>1 DEF Spells
  <1>4. CASE m < 10
    BY <1>2, <1>3, <1>4 DEF Spelled
  <1>5. CASE m >= 10
    <2>1. m \div 10 \in Nat /\ m \div 10 < m
      BY <1>2, <1>5, LastDigit
    <2>2. f[m \div 10] = g[m \div 10]
      BY <1>2, <2>1
    <2> QED
      BY <1>2, <1>3, <1>5, <2>2 DEF Spelled
  <1> QED
    BY <1>2, <1>4, <1>5

LEMMA SpellingExists ==
  ASSUME NEW m \in Nat
  PROVE  \E f : Spells(f, m)
  <1> DEFINE D == {n \in Nat : ~\E f : Spells(f, n)}
  <1>1. SUFFICES ASSUME D # {} PROVE FALSE
    OBVIOUS
  <1>2. PICK n \in D : \A k \in D : n <= k
    <2>1. D \subseteq Nat
      OBVIOUS
    <2> QED
      BY <1>1, <2>1, LeastNat
  <1>3. \E f : f = [k \in 0..n |-> Spelled(f, k)]
    <2>1. CASE n = 0
      <3>1. PICK f : f = [k \in 0..0 |-> <<k>>]
        OBVIOUS
      <3>2. f = [k \in 0..0 |-> Spelled(f, k)]
        BY <3>1 DEF Spelled
      <3> QED
        BY <2>1, <3>2
    <2>2. CASE n # 0
      <3>1. PICK p \in Nat : n = p + 1
        BY <1>2, <2>2
      <3>2. PICK g : Spells(g, p)
        BY <1>2, <3>1
      <3>3. PICK f : f = [k \in 0..n |-> IF k = n THEN Spelled(g, n) ELSE g[k]]
        OBVIOUS
      <3>4. \A k \in 0..p : f[k] = g[k]
        BY <3>1, <3>3
      <3>5. ASSUME NEW k \in 0..n
            PROVE  f[k] = Spelled(f, k)
        <4>1. f[k] = Spelled(g, k)
          <5>1. CASE k = n
            BY <3>3, <5>1
          <5>2. CASE k # n
            <6>1. k \in 0..p
              BY <3>1, <5>2
            <6> QED
              BY <3>2, <3>4, <6>1 DEF Spells
          <5> QED
            BY <5>1, <5>2
        <4>2. CASE k < 10
          BY <4>1, <4>2 DEF Spelled
        <4>3. CASE k >= 10
          <5>1. k \div 10 \in Nat /\ k \div 10 < k
            BY <4>3, LastDigit
          <5>2. k \div 10 \in 0..p
            BY <3>1, <5>1
          <5>3. f[k \div 10] = g[k \div 10]
            BY <3>4, <5>2
          <5> QED
            BY <4>1, <4>3, <5>3 DEF Spelled
        <4> QED
          BY <4>2, <4>3
      <3>6. f = [k \in 0..n |-> f[k]]
        BY <3>3
      <3>7. f = [k \in 0..n |-> Spelled(f, k)]
        BY <3>5, <3>6
      <3> QED
        BY <3>7
    <2> QED
      BY <2>1, <2>2
  <1> QED
    BY <1>2, <1>3 DEF Spells

LEMMA StrIs == \A n \in Nat : Str[n] = Spelled(Str, n)
  <1> DEFINE F == [n \in Nat |-> (CHOOSE f : Spells(f, n))[n]]
  <1>1. ASSUME NEW n \in Nat
        PROVE  F[n] = Spelled(F, n)
    <2>1. PICK f : f = (CHOOSE g : Spells(g, n)) /\ Spells(f, n)
      BY SpellingExists
    <2>2. F[n] = f[n]
      BY <2>1
    <2>3. f[n] = Spelled(f, n)
      <3>1. n \in 0..n
        OBVIOUS
      <3> QED
        BY <2>1, <3>1 DEF Spells
    <2>4. CASE n < 10
      BY <2>2, <2>3, <2>4 DEF Spelled
    <2>5. CASE n >= 10
      <3>1. PICK k \in Nat : k = n \div 10 /\ k < n
        BY <2>5, LastDigit
      <3>2. PICK h : h = (CHOOSE g : Spells(g, k)) /\ Spells(h, k)
        BY SpellingExists
      <3>3. F[k] = h[k]
        BY <3>2
      <3>4. f[k] = h[k]
        BY <2>1, <3>1, <3>2, SpellingAgrees
      <3>5. F[n \div 10] = f[n \div 10]
        BY <3>1, <3>3, <3>4
      <3> HIDE DEF F
      <3> QED
        BY <2>2, <2>3, <2>5, <3>5 DEF Spelled
    <2> QED
      BY <2>4, <2>5
  <1>2. PICK g : g = F
    OBVIOUS
  <1>3. g = [n \in Nat |-> g[n]] /\ \A n \in Nat : g[n] = Spelled(g, n)
    <2>1. \A n \in Nat : g[n] = Spelled(g, n)
      BY <1>1, <1>2
    <2> QED
      BY <1>2, <2>1
  <1>4. g = [n \in Nat |-> Spelled(g, n)]
    BY <1>3
  <1>5. Str = [n \in Nat |-> Spelled(Str, n)]
    <2>1. Str = CHOOSE f : f = [n \in Nat |-> Spelled(f, n)]
      BY DEF Str, Spelled
    <2> QED
      BY <1>4, <2>1
  <1> QED
    BY <1>5

(* Digits of a number, which are those of its tenth and one more.          *)
LEMMA StrShort ==
  ASSUME NEW n \in Nat, n < 10
  PROVE  Str[n] = <<n>>
  BY StrIs DEF Spelled

LEMMA StrLong ==
  ASSUME NEW n \in Nat, n >= 10
  PROVE  Str[n] = Append(Str[n \div 10], n % 10)
  <1>1. Str[n] = Spelled(Str, n)
    BY StrIs
  <1>2. ~(n < 10)
    OBVIOUS
  <1> QED
    BY <1>1, <1>2 DEF Spelled

LEMMA StrType ==
  ASSUME NEW n \in Nat
  PROVE  Str[n] \in Seq(Nat) /\ Len(Str[n]) >= 1
  <1> DEFINE D == {m \in Nat : ~(Str[m] \in Seq(Nat) /\ Len(Str[m]) >= 1)}
  <1>1. SUFFICES ASSUME D # {} PROVE FALSE
    OBVIOUS
  <1>2. PICK m \in D : \A k \in D : m <= k
    <2>1. D \subseteq Nat
      OBVIOUS
    <2> QED
      BY <1>1, <2>1, LeastNat
  <1>3. /\ m \in Nat /\ ~(Str[m] \in Seq(Nat) /\ Len(Str[m]) >= 1)
        /\ \A k \in Nat : k < m => Str[k] \in Seq(Nat) /\ Len(Str[k]) >= 1
    BY <1>2
  <1> HIDE DEF D
  <1>4. CASE m < 10
    <2>1. Str[m] = <<m>>
      BY <1>3, <1>4, StrShort
    <2>2. <<m>> \in Seq(Nat) /\ Len(<<m>>) >= 1
      BY <1>3
    <2> QED
      BY <1>3, <2>1, <2>2
  <1>5. CASE m >= 10
    <2>1. PICK k \in Nat, d \in Nat : k = m \div 10 /\ d = m % 10 /\ k < m
      BY <1>3, <1>5, LastDigit
    <2>2. PICK s \in Seq(Nat) : s = Str[k] /\ Len(s) >= 1
      BY <1>3, <2>1
    <2>3. Str[m] = Append(s, d)
      BY <1>3, <1>5, <2>1, <2>2, StrLong
    <2>4. Append(s, d) \in Seq(Nat) /\ Len(Append(s, d)) >= 1
      BY <2>1, <2>2
    <2> QED
      BY <1>3, <2>3, <2>4
  <1> QED
    BY <1>3, <1>4, <1>5

(* One string before another, without the substrings.                      *)
Decides(s, t, n) ==
  /\ n \in Nat /\ n <= Len(s) /\ n <= Len(t)
  /\ \A i \in 1..n : s[i] = t[i]
  /\ \/ n = Len(s) /\ n < Len(t)
     \/ n < Len(s) /\ n < Len(t) /\ s[n + 1] < t[n + 1]

LEMMA StrLessIs ==
  ASSUME NEW s \in Seq(Nat), NEW t \in Seq(Nat)
  PROVE  StrLess(s, t) <=> \E n : Decides(s, t, n)
  <1>1. ASSUME NEW n \in Nat, n <= Len(s), n <= Len(t)
        PROVE  SubSeq(s, 1, n) = SubSeq(t, 1, n) <=> \A i \in 1..n : s[i] = t[i]
    <2>1. /\ SubSeq(s, 1, n) = [i \in 1..n |-> s[i]]
          /\ SubSeq(t, 1, n) = [i \in 1..n |-> t[i]]
      BY <1>1
    <2> QED
      BY <2>1
  <1>2. \A n : n \in 0..Len(s) <=> n \in Nat /\ n <= Len(s)
    OBVIOUS
  <1> QED
    BY <1>1, <1>2 DEF StrLess, Decides

LEMMA StrIrreflexive ==
  ASSUME NEW s \in Seq(Nat)
  PROVE  ~StrLess(s, s)
  <1>1. ASSUME NEW n, Decides(s, s, n) PROVE FALSE
    <2>1. n < Len(s) /\ n \in Nat /\ s[n + 1] < s[n + 1]
      BY <1>1 DEF Decides
    <2>2. s[n + 1] \in Nat
      BY <2>1
    <2> QED
      BY <2>1, <2>2
  <1> QED
    BY <1>1, StrLessIs

LEMMA StrTransitive ==
  ASSUME NEW s \in Seq(Nat), NEW t \in Seq(Nat), NEW u \in Seq(Nat),
         StrLess(s, t), StrLess(t, u)
  PROVE  StrLess(s, u)
  <1>1. PICK n : Decides(s, t, n)
    BY StrLessIs
  <1>2. PICK m : Decides(t, u, m)
    BY StrLessIs
  <1>3. n \in Nat /\ m \in Nat /\ Len(s) \in Nat /\ Len(t) \in Nat /\ Len(u) \in Nat
    BY <1>1, <1>2 DEF Decides
  <1>4. CASE n < m
    <2>1. n + 1 \in 1..m /\ n < Len(t) /\ n < Len(u) /\ \A i \in 1..n : i \in 1..m
      BY <1>2, <1>3, <1>4 DEF Decides
    <2>2. t[n + 1] = u[n + 1] /\ \A i \in 1..n : t[i] = u[i]
      BY <1>2, <2>1 DEF Decides
    <2>3. Decides(s, u, n)
      BY <1>1, <1>3, <2>1, <2>2 DEF Decides
    <2> QED
      BY <2>3, StrLessIs
  <1>5. CASE m < n
    <2>1. m + 1 \in 1..n /\ m < Len(s) /\ m < Len(t) /\ \A i \in 1..m : i \in 1..n
      BY <1>1, <1>3, <1>5 DEF Decides
    <2>2. s[m + 1] = t[m + 1] /\ \A i \in 1..m : s[i] = t[i]
      BY <1>1, <2>1 DEF Decides
    <2>3. m < Len(u) /\ t[m + 1] < u[m + 1]
      BY <1>2, <1>3, <2>1 DEF Decides
    <2>4. Decides(s, u, m)
      BY <1>2, <1>3, <2>1, <2>2, <2>3 DEF Decides
    <2> QED
      BY <2>4, StrLessIs
  <1>6. CASE m = n
    <2>1. n < Len(t) /\ n < Len(u) /\ t[n + 1] < u[n + 1]
      BY <1>1, <1>2, <1>3, <1>6 DEF Decides
    <2>2. n < Len(s) => s[n + 1] < u[n + 1]
      <3>1. ASSUME n < Len(s)
            PROVE  s[n + 1] < u[n + 1]
        <4>1. PICK a \in Nat, b \in Nat, c \in Nat :
                a = s[n + 1] /\ b = t[n + 1] /\ c = u[n + 1]
          BY <1>3, <2>1, <3>1
        <4>2. a < b
          BY <1>1, <1>3, <3>1, <4>1 DEF Decides
        <4> QED
          BY <2>1, <4>1, <4>2
      <3> QED
        BY <3>1
    <2>3. \A i \in 1..n : s[i] = u[i]
      BY <1>1, <1>2, <1>6 DEF Decides
    <2>4. n <= Len(s)
      BY <1>1 DEF Decides
    <2>5. Decides(s, u, n)
      BY <1>3, <2>1, <2>2, <2>3, <2>4 DEF Decides
    <2> QED
      BY <2>5, StrLessIs
  <1> QED
    BY <1>3, <1>4, <1>5, <1>6

(* Of finitely many masks one has a largest string.                        *)
LastOf(M, key, m) == m \in M /\ \A k \in M : ~StrLess(key[m], key[k])

LEMMA LargestString ==
  ASSUME NEW A, IsFiniteSet(A), NEW key \in [A -> Seq(Nat)],
         NEW M \in SUBSET A, M # {}
  PROVE  \E m : LastOf(M, key, m)
  <1> DEFINE Bad(T) == T # {} /\ ~\E m : LastOf(T, key, m)
             C == {c \in Nat : \E T \in SUBSET A : Bad(T) /\ c = Cardinality(T)}
  <1>1. SUFFICES ASSUME Bad(M) PROVE FALSE
    OBVIOUS
  <1>2. \A T \in SUBSET A : IsFiniteSet(T) /\ Cardinality(T) \in Nat
    BY FS_Subset, FS_CardinalityType
  <1>3. PICK c \in C : \A e \in C : c <= e
    <2>1. C # {} /\ C \subseteq Nat
      BY <1>1, <1>2
    <2> QED
      BY <2>1, LeastNat
  <1>4. PICK T \in SUBSET A : Bad(T) /\ c = Cardinality(T)
    BY <1>3
  <1>5. PICK x \in T : x \in A
    BY <1>4
  <1>6. PICK U \in SUBSET A : U = T \ {x}
    OBVIOUS
  <1>7. Cardinality(U) = c - 1 /\ c \in Nat /\ Cardinality(U) \in Nat
    BY <1>2, <1>4, <1>5, <1>6, FS_RemoveElement
  <1>8. ~Bad(U)
    <2>1. PICK u \in Nat : u = Cardinality(U) /\ ~(c <= u)
      BY <1>7
    <2>2. u \notin C
      <3> HIDE DEF C
      <3> QED
        BY <1>3, <2>1
    <2> QED
      BY <2>1, <2>2
  <1>9. \A m \in A : key[m] \in Seq(Nat)
    OBVIOUS
  <1>10. CASE U = {}
    <2>1. \A k \in T : k = x
      BY <1>6, <1>10
    <2>2. ~StrLess(key[x], key[x])
      BY <1>5, <1>9, StrIrreflexive
    <2>3. LastOf(T, key, x)
      BY <1>5, <2>1, <2>2 DEF LastOf
    <2> QED
      BY <1>4, <2>3
  <1>11. CASE U # {}
    <2>1. PICK y : LastOf(U, key, y)
      BY <1>8, <1>11
    <2>2. y \in U /\ y \in T /\ y \in A
      BY <1>6, <2>1 DEF LastOf
    <2>3. CASE StrLess(key[y], key[x])
      <3>1. ASSUME NEW k \in T, StrLess(key[x], key[k]) PROVE FALSE
        <4>1. CASE k = x
          BY <1>5, <1>9, <3>1, <4>1, StrIrreflexive
        <4>2. CASE k # x
          <5>1. k \in U /\ k \in A
            BY <1>6, <4>2
          <5>2. StrLess(key[y], key[k])
            BY <1>5, <1>9, <2>2, <2>3, <3>1, <5>1, StrTransitive
          <5> QED
            BY <2>1, <5>1, <5>2 DEF LastOf
        <4> QED
          BY <4>1, <4>2
      <3>2. LastOf(T, key, x)
        BY <1>5, <3>1 DEF LastOf
      <3> QED
        BY <1>4, <3>2
    <2>4. CASE ~StrLess(key[y], key[x])
      <3>1. \A k \in T : k = x \/ k \in U
        BY <1>6
      <3>2. LastOf(T, key, y)
        BY <2>1, <2>2, <2>4, <3>1 DEF LastOf
      <3> QED
        BY <1>4, <3>2
    <2> QED
      BY <2>3, <2>4
  <1> QED
    BY <1>10, <1>11

(* Numbers of as many digits come as strings in their order.               *)
LEMMA DigitsInOrder ==
  ASSUME NEW a \in Nat, NEW b \in Nat, a < b, Len(Str[a]) = Len(Str[b])
  PROVE  StrLess(Str[a], Str[b])
  <1> DEFINE D == {m \in Nat : \E n \in Nat : /\ m < n /\ Len(Str[m]) = Len(Str[n])
                                              /\ ~StrLess(Str[m], Str[n])}
  <1>1. SUFFICES ASSUME D # {} PROVE FALSE
    OBVIOUS
  <1>2. PICK m \in D : \A k \in D : m <= k
    <2>1. D \subseteq Nat
      OBVIOUS
    <2> QED
      BY <1>1, <2>1, LeastNat
  <1>3. PICK n \in Nat : /\ m < n /\ Len(Str[m]) = Len(Str[n])
                         /\ ~StrLess(Str[m], Str[n])
    BY <1>2
  <1>4. m \in Nat
    BY <1>2
  <1>5. PICK k \in Nat, d \in 0..9, l \in Nat, e \in 0..9 :
          /\ k = m \div 10 /\ d = m % 10 /\ m = 10 * k + d
          /\ l = n \div 10 /\ e = n % 10 /\ n = 10 * l + e
    <2>1. PICK k \in Nat, d \in 0..9 : k = m \div 10 /\ d = m % 10 /\ m = 10 * k + d
      BY <1>4, LastDigit
    <2>2. PICK l \in Nat, e \in 0..9 : l = n \div 10 /\ e = n % 10 /\ n = 10 * l + e
      BY LastDigit
    <2> QED
      BY <2>1, <2>2
  <1>6. PICK s \in Seq(Nat), t \in Seq(Nat), u \in Seq(Nat), v \in Seq(Nat) :
          /\ s = Str[m] /\ t = Str[n] /\ u = Str[k] /\ v = Str[l]
          /\ Len(u) >= 1 /\ Len(v) >= 1
    BY <1>4, StrType
  <1>7. \A x \in Seq(Nat), y \in Nat :
          /\ Len(Append(x, y)) = Len(x) + 1 /\ Len(x) \in Nat
          /\ Append(x, y)[Len(x) + 1] = y
          /\ \A i \in 1..Len(x) : Append(x, y)[i] = x[i]
    OBVIOUS
  <1>8. CASE m < 10
    <2>0. \A x : Len(<<x>>) = 1 /\ <<x>>[1] = x
      OBVIOUS
    <2>1. s = <<m>> /\ Len(s) = 1 /\ s[1] = m
      <3>1. Str[m] = <<m>>
        BY <1>4, <1>8, StrShort
      <3> QED
        BY <1>6, <2>0, <3>1
    <2>2. n < 10
      <3>1. ASSUME n >= 10 PROVE FALSE
        <4>1. t = Append(v, e)
          BY <1>5, <1>6, <3>1, StrLong
        <4> QED
          BY <1>3, <1>5, <1>6, <1>7, <2>1, <4>1
      <3> QED
        BY <3>1
    <2>3. t = <<n>> /\ Len(t) = 1 /\ t[1] = n
      <3>1. Str[n] = <<n>>
        BY <2>2, StrShort
      <3> QED
        BY <1>6, <2>0, <3>1
    <2>4. Decides(s, t, 0)
      BY <1>3, <1>4, <2>1, <2>3 DEF Decides
    <2> QED
      BY <1>3, <1>6, <2>4, StrLessIs
  <1>9. CASE m >= 10
    <2>1. n >= 10
      BY <1>3, <1>4, <1>9
    <2>2. s = Append(u, d) /\ t = Append(v, e)
      BY <1>4, <1>5, <1>6, <1>9, <2>1, StrLong
    <2>3. Len(u) = Len(v)
      BY <1>3, <1>5, <1>6, <1>7, <2>2
    <2>4. k < l \/ (k = l /\ d < e)
      BY <1>3, <1>5
    <2>5. PICK N \in Nat : N = Len(u)
      BY <1>6
    <2>6. /\ Len(s) = N + 1 /\ Len(t) = N + 1 /\ s[N + 1] = d /\ t[N + 1] = e
          /\ \A i \in 1..N : s[i] = u[i] /\ t[i] = v[i]
      <3>1. d \in Nat /\ e \in Nat
        BY <1>5
      <3>2. /\ Len(s) = N + 1 /\ s[N + 1] = d
            /\ \A i \in 1..N : s[i] = u[i]
        BY <1>7, <2>2, <2>5, <3>1
      <3>3. /\ Len(t) = N + 1 /\ t[N + 1] = e
            /\ \A i \in 1..N : t[i] = v[i]
        BY <1>7, <2>2, <2>3, <2>5, <3>1
      <3> QED
        BY <3>2, <3>3
    <2>7. CASE k < l
      <3>1. k \notin D
        BY <1>2, <1>4, <1>5, <1>9
      <3>2. StrLess(u, v)
        BY <1>5, <1>6, <2>3, <2>7, <3>1
      <3>3. PICK p : Decides(u, v, p)
        BY <3>2, StrLessIs
      <3>4. /\ p \in Nat /\ p < N /\ u[p + 1] < v[p + 1]
            /\ \A i \in 1..p : u[i] = v[i]
        BY <2>3, <2>5, <3>3 DEF Decides
      <3>5. p + 1 \in 1..N /\ p < N + 1 /\ p <= N + 1 /\ \A i \in 1..p : i \in 1..N
        <4>1. p \in Nat /\ p < N /\ N \in Nat
          BY <3>4
        <4> QED
          BY <4>1
      <3>6. s[p + 1] < t[p + 1] /\ \A i \in 1..p : s[i] = t[i]
        BY <2>6, <3>4, <3>5
      <3>7. Decides(s, t, p)
        BY <2>6, <3>4, <3>5, <3>6 DEF Decides
      <3> QED
        BY <1>3, <1>6, <3>7, StrLessIs
    <2>8. CASE k = l /\ d < e
      <3>1. \A i \in 1..N : s[i] = t[i]
        BY <1>6, <2>6, <2>8
      <3>2. N < N + 1 /\ N <= N + 1
        BY <2>5
      <3>3. Decides(s, t, N)
        BY <2>5, <2>6, <2>8, <3>1, <3>2 DEF Decides
      <3> QED
        BY <1>3, <1>6, <3>3, StrLessIs
    <2> QED
      BY <2>4, <2>7, <2>8
  <1> QED
    BY <1>4, <1>8, <1>9

LEMMA WindowsAreOwn ==
  ASSUME CallsAreOwn
  PROVE  WindowIsOwnMasks
  <1> SUFFICES ASSUME NEW n \in DOMAIN calls, NEW d, d = calls[n].def,
                      IsLocal(d), d.accs # << >>, NEW axis \in {"x", "y"}
               PROVE  \E e \in Extents(d, axis) :
                        /\ calls[n].window[axis] = Str[e]
                        /\ \A f \in AsLong(d, axis, e) : f <= e
    BY DEF WindowIsOwnMasks
  <1>1. OwnCall(calls[n]) /\ d \in KernelDef
    BY DEF CallsAreOwn, OwnCall
  <1>2. d.masks # {} /\ d.masks \in SUBSET Mask
    <2>1. d \in [accs : Seq(Boundary), masks : SUBSET Mask]
      BY <1>1, KernelDefType
    <2> QED
      BY <2>1 DEF IsLocal
  <1>3. calls[n].window = Union(d)
    BY <1>1, <1>2 DEF OwnCall
  <1>4. \A m \in Mask : MaskSize[m][axis] \in Nat
    <2>1. \A m \in Mask : MaskSize[m] \in [x : Nat \ {0}, y : Nat \ {0}]
      BY MaskSizeType
    <2> QED
      BY <2>1
  <1>5. PICK key : key = [m \in Mask |-> Str[MaskSize[m][axis]]]
    OBVIOUS
  <1>6. /\ key \in [Mask -> Seq(Nat)]
        /\ \A m \in Mask : key[m] = Str[MaskSize[m][axis]]
    BY <1>4, <1>5, StrType
  <1>7. PICK S : S = {Str[MaskSize[m][axis]] : m \in d.masks}
    OBVIOUS
  <1>8. \A s : s \in S <=> \E m \in d.masks : s = key[m]
    BY <1>2, <1>6, <1>7
  <1>9. PICK k : LastOf(d.masks, key, k)
    BY <1>2, <1>6, MasksAreFinite, LargestString
  <1>10. key[k] \in S /\ \A s \in S : ~StrLess(key[k], s)
    BY <1>8, <1>9 DEF LastOf
  <1>11. PICK s \in S : s = MaxStr(S) /\ \A t \in S : ~StrLess(s, t)
    BY <1>10 DEF MaxStr
  <1>12. PICK m \in d.masks : s = key[m]
    BY <1>8, <1>11
  <1>13. PICK e \in Nat : e = MaskSize[m][axis]
    BY <1>2, <1>4, <1>12
  <1>14. calls[n].window[axis] = Str[e]
    <2>1. Union(d)[axis] = MaxStr(S)
      <3>1. CASE axis = "x"
        BY <1>7, <3>1 DEF Union
      <3>2. CASE axis = "y"
        BY <1>7, <3>2 DEF Union
      <3> QED
        BY <3>1, <3>2
    <2> QED
      BY <1>2, <1>3, <1>6, <1>11, <1>12, <1>13, <2>1
  <1>15. ASSUME NEW f \in AsLong(d, axis, e)
         PROVE  f <= e
    <2>1. PICK l \in d.masks : f = MaskSize[l][axis]
      BY DEF AsLong, Extents
    <2>2. f \in Nat /\ Str[f] = key[l] /\ key[l] \in S /\ Len(Str[f]) = Len(Str[e])
      BY <1>2, <1>4, <1>6, <1>8, <2>1 DEF AsLong
    <2>3. ~StrLess(Str[e], Str[f])
      BY <1>2, <1>6, <1>11, <1>12, <1>13, <2>2
    <2>4. ~(e < f)
      BY <2>2, <2>3, DigitsInOrder
    <2> QED
      BY <2>2, <2>4
  <1>16. e \in Extents(d, axis)
    BY <1>12, <1>13 DEF Extents
  <1> QED
    BY <1>14, <1>15, <1>16

(* For any sizes of the masks: a local operator is printed with a window   *)
(* of its own, whatever vivadoSizeX/Y were left at by the kernels before   *)
(* it.  Along each axis it has the size of one of its masks, the largest   *)
(* of those with as many digits.                                           *)
THEOREM WindowIsOwn == PrinterSpec => []WindowIsOwnMasks
  BY PrinterInitOK, PrinterStepOK, WindowsAreOwn, PTL DEF PrinterSpec

-----------------------------------------------------------------------------
(* KernelArguments: the arguments of a launch, its block, its masks.       *)

LEMMA InductionOnNat ==
  ASSUME NEW S, 0 \in S, \A n \in Nat : n \in S => n + 1 \in S
  PROVE  Nat \subseteq S
  <1> DEFINE T == {n \in Nat : n \notin S}
             R == {ss \in Nat \X Nat : ss[1] < ss[2]}
  <1>1. SUFFICES ASSUME T # {} PROVE FALSE
    OBVIOUS
  <1>2. IsWellFoundedOn(R, Nat)
    BY NatLessThanWellFounded DEF OpToRel
  <1>3. PICK x \in T : \A y \in T : <<y, x>> \notin R
    <2> HIDE DEF R
    <2> QED
      BY <1>1, <1>2, WFMin
  <1>4. x \in Nat /\ x # 0
    BY <1>3
  <1>5. x - 1 \in T
    BY <1>4, <1>3
  <1>6. <<x - 1, x>> \in R
    BY <1>4
  <1> QED
    BY <1>3, <1>5, <1>6

(* The elements of a finite set of numbers have the ranks from 1 to its    *)
(* size, so that At takes each position of the set once.                   *)
LEMMA RanksDiffer ==
  ASSUME NEW T, T \subseteq Nat, IsFiniteSet(T), NEW s \in T
  PROVE  /\ Rank(T, s) \in 1..Cardinality(T)
         /\ \A t \in T : t # s => Rank(T, t) # Rank(T, s)
  <1> DEFINE Below(x) == {t \in T : t <= x}
  <1>1. ASSUME NEW x \in T
        PROVE  /\ IsFiniteSet(Below(x)) /\ Cardinality(Below(x)) \in Nat
               /\ Cardinality(Below(x)) <= Cardinality(T)
               /\ Cardinality(T) \in Nat
    <2>1. Below(x) \in SUBSET T
      OBVIOUS
    <2> HIDE DEF Below
    <2> QED
      BY <2>1, FS_Subset, FS_CardinalityType
  <1>2. Cardinality(Below(s)) # 0
    <2>1. s \in Below(s)
      OBVIOUS
    <2> QED
      BY <1>1, <2>1, FS_EmptySet
  <1>3. ASSUME NEW x \in T, NEW y \in T, x > y
        PROVE  Cardinality(Below(x)) # Cardinality(Below(y))
    <2>1. Below(y) \in SUBSET Below(x) /\ x \in Below(x) /\ x \notin Below(y)
      <3>1. x \in Nat /\ y \in Nat /\ \A t \in T : t \in Nat
        OBVIOUS
      <3>2. \A t \in T : t <= y => t <= x
        BY <1>3, <3>1
      <3>3. \A t \in Below(y) : t \in Below(x)
        BY <3>2
      <3>4. x \in Below(x)
        BY <3>1
      <3>5. x \notin Below(y)
        BY <1>3, <3>1
      <3> HIDE DEF Below
      <3> QED
        BY <3>3, <3>4, <3>5
    <2>2. Below(x) # Below(y)
      BY <2>1
    <2> HIDE DEF Below
    <2> QED
      BY <1>1, <2>1, <2>2, FS_Subset
  <1>4. ASSUME NEW t \in T, t # s
        PROVE  Cardinality(Below(t)) # Cardinality(Below(s))
    <2>1. t < s \/ s < t
      BY <1>4
    <2> QED
      BY <1>3, <2>1
  <1> QED
    BY <1>1, <1>2, <1>4 DEF Rank

LEMMA RanksCover ==
  ASSUME NEW T, T \subseteq Nat, IsFiniteSet(T), NEW n \in 1..Cardinality(T)
  PROVE  \E s \in T : Rank(T, s) = n
  <1> DEFINE f == [s \in T |-> Rank(T, s)]
             I == 1..Cardinality(T)
  <1>1. /\ IsFiniteSet(I) /\ Cardinality(I) = Cardinality(T)
        /\ Cardinality(T) \in Nat
    BY FS_Interval, FS_CardinalityType
  <1>2. f \in Injection(T, I)
    <2>1. f \in [T -> I]
      BY RanksDiffer
    <2>2. ASSUME NEW s \in T, NEW t \in T, f[s] = f[t]
          PROVE  s = t
      BY <2>2, RanksDiffer
    <2> QED
      BY <2>1, <2>2 DEF Injection, IsInjective
  <1>3. f \in Surjection(T, I)
    <2> HIDE DEF f, I
    <2> QED
      BY <1>1, <1>2, FS_Injection
  <1> QED
    BY <1>3 DEF Surjection

(* The position that At takes its k-th element from.                       *)
Place(I, k) == CHOOSE i \in I : Rank(I, i) = k

LEMMA Places ==
  ASSUME NEW I, I \subseteq Nat, IsFiniteSet(I)
  PROVE  /\ Cardinality(I) \in Nat
         /\ \A k \in 1..Cardinality(I) : Place(I, k) \in I
         /\ \A i \in I : \E k \in 1..Cardinality(I) : Place(I, k) = i
  <1>1. ASSUME NEW k \in 1..Cardinality(I)
        PROVE  Place(I, k) \in I /\ Rank(I, Place(I, k)) = k
    <2>1. \E i \in I : Rank(I, i) = k
      BY RanksCover
    <2> QED
      BY <2>1 DEF Place
  <1>2. ASSUME NEW i \in I
        PROVE  Rank(I, i) \in 1..Cardinality(I) /\ Place(I, Rank(I, i)) = i
    <2>1. Rank(I, i) \in 1..Cardinality(I)
      BY RanksDiffer
    <2>2. Place(I, Rank(I, i)) \in I /\ Rank(I, Place(I, Rank(I, i))) = Rank(I, i)
      BY <1>1, <2>1
    <2> QED
      BY <2>1, <2>2, RanksDiffer
  <1> QED
    BY <1>1, <1>2, FS_CardinalityType

(* t holds the elements of s at the positions of I.                        *)
Taken(t, s, I) ==
  /\ Cardinality(I) \in Nat
  /\ DOMAIN t = 1..Cardinality(I) /\ Len(t) = Cardinality(I)
  /\ \A k \in 1..Cardinality(I) : t[k] = s[Place(I, k)]
  /\ ToSet(t) = {s[i] : i \in I}

LEMMA AtIs ==
  ASSUME NEW s, NEW I, I \subseteq Nat, IsFiniteSet(I)
  PROVE  Taken(At(s, I), s, I)
  <1>1. Cardinality(I) \in Nat
    BY Places
  <1>2. At(s, I) = [k \in 1..Cardinality(I) |-> s[Place(I, k)]]
    BY DEF At, Place
  <1>3. DOMAIN At(s, I) = 1..Cardinality(I) /\ Len(At(s, I)) = Cardinality(I)
    BY <1>1, <1>2
  <1>4. \A k \in 1..Cardinality(I) : At(s, I)[k] = s[Place(I, k)]
    BY <1>2
  <1>5. ToSet(At(s, I)) = {s[i] : i \in I}
    <2>1. /\ \A k \in 1..Cardinality(I) : Place(I, k) \in I
          /\ \A i \in I : \E k \in 1..Cardinality(I) : Place(I, k) = i
      BY Places
    <2>2. ToSet(At(s, I)) = {At(s, I)[k] : k \in 1..Cardinality(I)}
      BY <1>3 DEF ToSet
    <2>3. \A k \in 1..Cardinality(I) : At(s, I)[k] \in {s[i] : i \in I}
      BY <1>4, <2>1
    <2>4. \A i \in I : \E k \in 1..Cardinality(I) : At(s, I)[k] = s[i]
      BY <1>4, <2>1
    <2> QED
      BY <2>2, <2>3, <2>4
  <1> QED
    BY <1>1, <1>3, <1>4, <1>5 DEF Taken

(* The greatest and the least number of a set.                             *)
LEMMA Greatest ==
  ASSUME NEW T, T \subseteq Nat, IsFiniteSet(T), T # {}
  PROVE  Max(T) \in T /\ \A k \in T : Max(T) >= k
  <1>1. Cardinality(T) \in Nat /\ Cardinality(T) # 0
    BY FS_EmptySet, FS_CardinalityType
  <1>2. PICK m \in T : Rank(T, m) = Cardinality(T)
    <2>1. Cardinality(T) \in 1..Cardinality(T)
      BY <1>1
    <2> QED
      BY <2>1, RanksCover
  <1>3. {t \in T : t <= m} = T
    <2>1. {t \in T : t <= m} \in SUBSET T
      OBVIOUS
    <2> QED
      BY <1>2, <2>1, FS_Subset DEF Rank
  <1>4. \A k \in T : k <= m
    BY <1>3
  <1>5. m \in T /\ \A k \in T : m >= k
    BY <1>2, <1>4
  <1> QED
    BY <1>5 DEF Max

LEMMA Least ==
  ASSUME NEW T, T \subseteq Nat, T # {}
  PROVE  Min(T) \in T /\ \A k \in T : Min(T) <= k
  <1> DEFINE R == {ss \in Nat \X Nat : ss[1] < ss[2]}
  <1>1. IsWellFoundedOn(R, Nat)
    BY NatLessThanWellFounded DEF OpToRel
  <1>2. PICK x \in T : \A y \in T : <<y, x>> \notin R
    <2> HIDE DEF R
    <2> QED
      BY <1>1, WFMin
  <1>3. ASSUME NEW k \in T
        PROVE  x <= k
    <2>1. k \in Nat /\ x \in Nat
      OBVIOUS
    <2>2. <<k, x>> \notin R
      BY <1>2
    <2>3. ~(k < x)
      BY <2>1, <2>2
    <2> QED
      BY <2>1, <2>3
  <1> QED
    BY <1>3 DEF Min

-----------------------------------------------------------------------------
(* FlattenSeq is defined by a recursive function on the indices of the     *)
(* sequence of sequences; such a function exists up to every n.            *)
FlattensTo(f, q, n) == f = [i \in 1..n |-> IF i = 1 THEN q[i] ELSE f[i - 1] \o q[i]]

LEMMA FlatteningExists ==
  ASSUME NEW q, NEW n \in Nat
  PROVE  \E f : FlattensTo(f, q, n)
<1> DEFINE S == {k \in Nat : \E f : FlattensTo(f, q, k)}
<1>1. 0 \in S
  <2>1. PICK f : f = [i \in 1..0 |-> 0]
    OBVIOUS
  <2>2. 1..0 = {}
    OBVIOUS
  <2>3. f = [i \in 1..0 |-> IF i = 1 THEN q[i] ELSE f[i - 1] \o q[i]]
    BY <2>1, <2>2
  <2> QED
    BY <2>3 DEF FlattensTo
<1>2. ASSUME NEW k \in Nat, k \in S
      PROVE  k + 1 \in S
  <2>1. PICK f : FlattensTo(f, q, k)
    BY <1>2
  <2>2. PICK e : e = IF k + 1 = 1 THEN q[k + 1] ELSE f[k] \o q[k + 1]
    OBVIOUS
  <2>3. PICK g : g = [i \in 1..(k + 1) |-> IF i = k + 1 THEN e ELSE f[i]]
    OBVIOUS
  <2>4. \A i \in 1..k : f[i] = IF i = 1 THEN q[i] ELSE f[i - 1] \o q[i]
    BY <2>1 DEF FlattensTo
  <2>5. ASSUME NEW i \in 1..(k + 1)
        PROVE  g[i] = IF i = 1 THEN q[i] ELSE g[i - 1] \o q[i]
    <3>1. i # 1 => g[i - 1] = f[i - 1]
      BY <2>3
    <3>2. CASE i = k + 1
      BY <2>2, <2>3, <3>1, <3>2
    <3>3. CASE i # k + 1
      <4>1. i \in 1..k /\ g[i] = f[i]
        BY <2>3, <3>3
      <4> QED
        BY <2>4, <3>1, <4>1
    <3> QED
      BY <3>2, <3>3
  <2>6. g = [i \in 1..(k + 1) |-> g[i]]
    BY <2>3
  <2>7. g = [i \in 1..(k + 1) |-> IF i = 1 THEN q[i] ELSE g[i - 1] \o q[i]]
    BY <2>5, <2>6
  <2>8. FlattensTo(g, q, k + 1)
    BY <2>7 DEF FlattensTo
  <2> QED
    BY <2>8
<1>3. Nat \subseteq S
  <2> HIDE DEF S
  <2> QED
    BY <1>1, <1>2, InductionOnNat
<1> QED
  BY <1>3

(* q is a sequence of n sequences, and f joins its first elements.         *)
Sequences(q, n) == /\ n \in Nat \ {0} /\ DOMAIN q = 1..n /\ Len(q) = n
                   /\ \A i \in 1..n : \E A : q[i] \in Seq(A)

Joins(f, q, n) == /\ f[1] = q[1]
                  /\ \A i \in 1..n : i + 1 \in 1..n => f[i + 1] = f[i] \o q[i + 1]

LEMMA FlattenIs ==
  ASSUME NEW q, NEW n, Sequences(q, n)
  PROVE  \E f : FlattenSeq(q) = f[n] /\ Joins(f, q, n)
<1> n \in Nat \ {0} /\ Len(q) = n
  BY DEF Sequences
<1>1. PICK f : f = CHOOSE g : FlattensTo(g, q, n)
  OBVIOUS
<1>2. FlattensTo(f, q, n)
  BY <1>1, FlatteningExists
<1>3. FlattenSeq(q) = f[n]
  BY <1>1 DEF FlattenSeq, FlattensTo
<1>4. \A i \in 1..n : f[i] = IF i = 1 THEN q[i] ELSE f[i - 1] \o q[i]
  BY <1>2 DEF FlattensTo
<1>5. f[1] = q[1]
  BY <1>4
<1>6. ASSUME NEW i \in 1..n, i + 1 \in 1..n
      PROVE  f[i + 1] = f[i] \o q[i + 1]
  <2>1. i + 1 # 1 /\ (i + 1) - 1 = i
    OBVIOUS
  <2>2. PICK k : k = i + 1
    OBVIOUS
  <2>3. k \in 1..n /\ k # 1 /\ k - 1 = i
    BY <1>6, <2>1, <2>2
  <2>4. f[k] = f[k - 1] \o q[k]
    BY <1>4, <2>3
  <2> QED
    BY <2>2, <2>3, <2>4
<1> QED
  BY <1>3, <1>5, <1>6 DEF Joins

LEMMA InductionTo ==
  ASSUME NEW n \in Nat \ {0}, NEW S, 1 \in S,
         \A k \in 1..n : k \in S /\ k + 1 \in 1..n => k + 1 \in S
  PROVE  n \in S
<1> DEFINE T == {k \in Nat : k + 1 \in 1..n => k + 1 \in S}
<1>1. 0 \in T
  OBVIOUS
<1>2. ASSUME NEW k \in Nat, k \in T
      PROVE  k + 1 \in T
  <2>1. SUFFICES ASSUME (k + 1) + 1 \in 1..n PROVE (k + 1) + 1 \in S
    OBVIOUS
  <2>2. k + 1 \in 1..n
    BY <2>1
  <2>3. k + 1 \in S
    BY <1>2, <2>2
  <2>4. PICK j : j = k + 1
    OBVIOUS
  <2> QED
    BY <2>1, <2>2, <2>3, <2>4
<1>3. Nat \subseteq T
  <2> HIDE DEF T
  <2> QED
    BY <1>1, <1>2, InductionOnNat
<1>4. PICK k \in Nat : n = k + 1
  <2>1. n - 1 \in Nat /\ n = (n - 1) + 1
    OBVIOUS
  <2> QED
    BY <2>1
<1>5. k \in T /\ k + 1 \in 1..n
  BY <1>3, <1>4
<1> QED
  BY <1>4, <1>5

-----------------------------------------------------------------------------
(* Sequences without an element twice, and what they hold.                 *)
Lists(s, A) == /\ s \in Seq(A) /\ \A a \in A : \E n \in 1..Len(s) : s[n] = a
               /\ \A m, n \in 1..Len(s) : s[m] = s[n] => m = n

LEMMA ListsOwn ==
  ASSUME NEW s, NEW A, Lists(s, A)
  PROVE  IsInjective(s) /\ ToSet(s) = A /\ DOMAIN s = 1..Len(s) /\ Len(s) \in Nat
<1>1. DOMAIN s = 1..Len(s) /\ Len(s) \in Nat /\ \A n \in 1..Len(s) : s[n] \in A
  BY DEF Lists
<1>2. ToSet(s) = A
  BY <1>1 DEF Lists, ToSet
<1> QED
  BY <1>1, <1>2 DEF Lists, IsInjective

LEMMA ListsConcat ==
  ASSUME NEW s, NEW t, NEW A, NEW B, Lists(s, A), Lists(t, B), A \cap B = {}
  PROVE  Lists(s \o t, A \cup B) /\ Len(s \o t) = Len(s) + Len(t)
<1>1. s \in Seq(A \cup B) /\ t \in Seq(A \cup B) /\ Len(s) \in Nat /\ Len(t) \in Nat
  BY DEF Lists
<1>2. /\ s \o t \in Seq(A \cup B)
      /\ Len(s \o t) = Len(s) + Len(t)
      /\ \A n \in 1..Len(s) : (s \o t)[n] = s[n]
      /\ \A n \in 1..Len(t) : (s \o t)[Len(s) + n] = t[n]
  BY <1>1
<1>3. ASSUME NEW n \in 1..Len(s \o t)
      PROVE  \/ n \in 1..Len(s) /\ (s \o t)[n] = s[n]
             \/ n - Len(s) \in 1..Len(t) /\ (s \o t)[n] = t[n - Len(s)]
  <2>1. CASE n \in 1..Len(s)
    BY <1>2, <2>1
  <2>2. CASE n \notin 1..Len(s)
    <3>1. n - Len(s) \in 1..Len(t) /\ Len(s) + (n - Len(s)) = n
      BY <1>1, <1>2, <2>2
    <3> QED
      BY <1>2, <3>1
  <2> QED
    BY <2>1, <2>2
<1>4. /\ \A n \in 1..Len(s) : s[n] \in A
      /\ \A n \in 1..Len(t) : t[n] \in B
  BY DEF Lists
<1>5. ASSUME NEW m \in 1..Len(s \o t), NEW n \in 1..Len(s \o t),
             (s \o t)[m] = (s \o t)[n]
      PROVE  m = n
  <2>1. CASE m \in 1..Len(s) /\ (s \o t)[m] = s[m]
    <3>1. n \in 1..Len(s) /\ (s \o t)[n] = s[n]
      BY <1>3, <1>4, <1>5, <2>1
    <3> QED
      BY <1>5, <2>1, <3>1 DEF Lists
  <2>2. CASE m - Len(s) \in 1..Len(t) /\ (s \o t)[m] = t[m - Len(s)]
    <3>1. n - Len(s) \in 1..Len(t) /\ (s \o t)[n] = t[n - Len(s)]
      BY <1>3, <1>4, <1>5, <2>2
    <3>2. m - Len(s) = n - Len(s)
      BY <1>5, <2>2, <3>1 DEF Lists
    <3> QED
      BY <1>1, <3>2
  <2> QED
    BY <1>3, <2>1, <2>2
<1>6. ASSUME NEW a \in A \cup B
      PROVE  \E n \in 1..Len(s \o t) : (s \o t)[n] = a
  <2>1. CASE a \in A
    <3>1. PICK n \in 1..Len(s) : s[n] = a
      BY <2>1 DEF Lists
    <3>2. n \in 1..Len(s \o t)
      BY <1>1, <1>2
    <3> QED
      BY <1>2, <3>1, <3>2
  <2>2. CASE a \in B
    <3>1. PICK n \in 1..Len(t) : t[n] = a
      BY <2>2 DEF Lists
    <3>2. Len(s) + n \in 1..Len(s \o t)
      BY <1>1, <1>2
    <3> QED
      BY <1>2, <3>1, <3>2
  <2> QED
    BY <2>1, <2>2
<1> QED
  BY <1>2, <1>5, <1>6 DEF Lists

LEMMA ListsNone == Lists(<< >>, {})
BY DEF Lists

LEMMA ListsOne ==
  ASSUME NEW a
  PROVE  Lists(<<a>>, {a})
BY DEF Lists

LEMMA ListsTwo ==
  ASSUME NEW a, NEW b, a # b
  PROVE  Lists(<<a, b>>, {a, b})
<1>1. <<a, b>> \in Seq({a, b}) /\ Len(<<a, b>>) = 2
  OBVIOUS
<1>2. <<a, b>>[1] = a /\ <<a, b>>[2] = b /\ \A i \in 1..2 : i = 1 \/ i = 2
  OBVIOUS
<1>3. 1 \in 1..2 /\ 2 \in 1..2
  OBVIOUS
<1>4. \A e \in {a, b} : \E i \in 1..2 : <<a, b>>[i] = e
  BY <1>2, <1>3
<1> QED
  BY <1>1, <1>2, <1>4 DEF Lists

LEMMA ListsThree ==
  ASSUME NEW a, NEW b, NEW c, a # b, a # c, b # c
  PROVE  Lists(<<a, b, c>>, {a, b, c})
<1>1. <<a, b, c>> \in Seq({a, b, c}) /\ Len(<<a, b, c>>) = 3
  OBVIOUS
<1>2. /\ <<a, b, c>>[1] = a /\ <<a, b, c>>[2] = b /\ <<a, b, c>>[3] = c
      /\ \A i \in 1..3 : i = 1 \/ i = 2 \/ i = 3
  OBVIOUS
<1>3. 1 \in 1..3 /\ 2 \in 1..3 /\ 3 \in 1..3
  OBVIOUS
<1>4. \A e \in {a, b, c} : \E i \in 1..3 : <<a, b, c>>[i] = e
  BY <1>2, <1>3
<1> QED
  BY <1>1, <1>2, <1>4 DEF Lists

LEMMA ListsWhen ==
  ASSUME NEW c \in BOOLEAN, NEW a
  PROVE  Lists(When(c, <<a>>), IF c THEN {a} ELSE {})
BY ListsNone, ListsOne DEF When

(* Lists of sets that are disjoint are joined to a list of their union.    *)
Joined(F, n) == UNION {F[i] : i \in 1..n}

LEMMA FlattenLists ==
  ASSUME NEW q, NEW n, Sequences(q, n), NEW F,
         \A i \in 1..n : Lists(q[i], F[i]) /\ F[i] # {},
         \A i, j \in 1..n : i # j => F[i] \cap F[j] = {}
  PROVE  Lists(FlattenSeq(q), Joined(F, n)) /\ Len(FlattenSeq(q)) >= n
<1> n \in Nat \ {0}
  BY DEF Sequences
<1>1. PICK f : FlattenSeq(q) = f[n] /\ Joins(f, q, n)
  BY FlattenIs
<1> DEFINE S == {k \in 1..n : Lists(f[k], Joined(F, k)) /\ Len(f[k]) >= k}
<1>2. ASSUME NEW i \in 1..n
      PROVE  Len(q[i]) \in Nat \ {0}
  <2>1. Len(q[i]) \in Nat /\ \E a : a \in F[i]
    BY DEF Lists
  <2> QED
    BY <2>1 DEF Lists
<1>3. 1 \in S
  <2>1. 1..1 = {1} /\ 1 \in 1..n
    OBVIOUS
  <2>2. Joined(F, 1) = F[1]
    BY <2>1 DEF Joined
  <2>3. f[1] = q[1]
    BY <1>1 DEF Joins
  <2> QED
    BY <1>2, <2>1, <2>2, <2>3
<1>4. ASSUME NEW k \in 1..n, k \in S, k + 1 \in 1..n
      PROVE  k + 1 \in S
  <2>1. f[k + 1] = f[k] \o q[k + 1]
    BY <1>1, <1>4 DEF Joins
  <2>2. Lists(f[k], Joined(F, k)) /\ Len(f[k]) >= k /\ Lists(q[k + 1], F[k + 1])
    BY <1>4
  <2>3. Joined(F, k) \cap F[k + 1] = {}
    <3>1. ASSUME NEW i \in 1..k
          PROVE  F[i] \cap F[k + 1] = {}
      BY <1>4
    <3> QED
      BY <3>1 DEF Joined
  <2>4. Joined(F, k + 1) = Joined(F, k) \union F[k + 1]
    <3>1. 1..(k + 1) = (1..k) \union {k + 1}
      OBVIOUS
    <3> QED
      BY <3>1 DEF Joined
  <2>5. /\ Lists(f[k] \o q[k + 1], Joined(F, k) \union F[k + 1])
        /\ Len(f[k] \o q[k + 1]) = Len(f[k]) + Len(q[k + 1])
    BY <2>2, <2>3, ListsConcat
  <2>6. Len(f[k]) \in Nat /\ Len(q[k + 1]) \in Nat \ {0}
    <3>1. Len(f[k]) \in Nat
      BY <2>2, ListsOwn
    <3>2. Len(q[k + 1]) \in Nat \ {0}
      BY <1>2, <1>4
    <3> QED
      BY <3>1, <3>2
  <2>7. Len(f[k + 1]) >= k + 1
    <3>1. PICK a \in Nat : a = Len(f[k])
      BY <2>6
    <3>2. PICK b \in Nat \ {0} : b = Len(q[k + 1])
      BY <2>6
    <3>3. a >= k /\ Len(f[k + 1]) = a + b
      BY <2>1, <2>2, <2>5, <3>1, <3>2
    <3> QED
      BY <3>3
  <2> QED
    BY <1>4, <2>1, <2>4, <2>5, <2>7
<1>5. n \in S
  <2> HIDE DEF S
  <2> QED
    BY <1>3, <1>4, InductionTo
<1> QED
  BY <1>1, <1>5

(* Sequences of one element each are joined to the sequence of these.      *)
LEMMA FlattenSingles ==
  ASSUME NEW q, NEW n, Sequences(q, n), \A i \in 1..n : Len(q[i]) = 1
  PROVE  /\ Len(FlattenSeq(q)) = n /\ DOMAIN FlattenSeq(q) = 1..n
         /\ \A i \in 1..n : FlattenSeq(q)[i] = q[i][1]
<1> n \in Nat \ {0}
  BY DEF Sequences
<1>1. PICK f : FlattenSeq(q) = f[n] /\ Joins(f, q, n)
  BY FlattenIs
<1> DEFINE S == {k \in 1..n : /\ \E A : f[k] \in Seq(A)
                              /\ Len(f[k]) = k
                              /\ \A i \in 1..k : f[k][i] = q[i][1]}
<1>2. 1 \in S
  <2>1. f[1] = q[1] /\ 1 \in 1..n
    BY <1>1 DEF Joins
  <2> QED
    BY <2>1 DEF Sequences
<1>3. ASSUME NEW k \in 1..n, k \in S, k + 1 \in 1..n
      PROVE  k + 1 \in S
  <2>1. f[k + 1] = f[k] \o q[k + 1]
    BY <1>1, <1>3 DEF Joins
  <2>2. PICK A : f[k] \in Seq(A)
    BY <1>3
  <2>3. PICK B : q[k + 1] \in Seq(B)
    BY <1>3 DEF Sequences
  <2>4. f[k] \in Seq(A \cup B) /\ q[k + 1] \in Seq(A \cup B)
    BY <2>2, <2>3
  <2>5. Len(f[k]) = k /\ Len(q[k + 1]) = 1 /\ \A i \in 1..k : f[k][i] = q[i][1]
    BY <1>3
  <2>6. /\ f[k + 1] \in Seq(A \cup B)
        /\ Len(f[k + 1]) = k + 1
        /\ \A i \in 1..k : f[k + 1][i] = f[k][i]
        /\ f[k + 1][k + 1] = q[k + 1][1]
    <3>1. PICK s \in Seq(A \cup B) : s = f[k]
      BY <2>4
    <3>2. PICK t \in Seq(A \cup B) : t = q[k + 1]
      BY <2>4
    <3>3. Len(s) = k /\ Len(t) = 1 /\ k \in Nat
      BY <2>5, <3>1, <3>2
    <3>4. /\ s \o t \in Seq(A \cup B) /\ Len(s \o t) = k + 1
          /\ \A i \in 1..k : (s \o t)[i] = s[i]
          /\ (s \o t)[k + 1] = t[1]
      <4>1. /\ s \o t \in Seq(A \cup B)
            /\ Len(s \o t) = Len(s) + Len(t)
            /\ \A i \in 1..Len(s) : (s \o t)[i] = s[i]
            /\ \A i \in 1..Len(t) : (s \o t)[Len(s) + i] = t[i]
        OBVIOUS
      <4>2. 1 \in 1..Len(t)
        BY <3>3
      <4>3. (s \o t)[Len(s) + 1] = t[1]
        BY <4>1, <4>2
      <4> QED
        BY <3>3, <4>1, <4>3
    <3> QED
      BY <2>1, <3>1, <3>2, <3>4
  <2>7. \A i \in 1..(k + 1) : f[k + 1][i] = q[i][1]
    <3>1. \A i \in 1..(k + 1) : i \in 1..k \/ i = k + 1
      OBVIOUS
    <3> QED
      BY <2>5, <2>6, <3>1
  <2> QED
    BY <1>3, <2>6, <2>7
<1>4. n \in S
  <2> HIDE DEF S
  <2> QED
    BY <1>2, <1>3, InductionTo
<1>5. PICK A : f[n] \in Seq(A)
  BY <1>4
<1> QED
  BY <1>1, <1>4, <1>5

-----------------------------------------------------------------------------
(* The kernel class and the kernel declaration.                            *)
LEMMA ProgramFacts ==
  ASSUME NEW c \in Programs
  PROVE  /\ Len(c.params) \in Nat \ {0} /\ DOMAIN c.params = 1..Len(c.params)
         /\ DOMAIN c.args = 1..Len(c.params) /\ DOMAIN c.inits \subseteq Nat
         /\ ConstructorOK(c) /\ NamesOK(c)
         /\ \A k \in DOMAIN c.inits : c.inits[k].kind \in FieldKinds
         /\ \A n \in DOMAIN c.args : IsAccessor(c.args[n]) =>
              c.args[n].sizeX \in Nat \ {0} /\ c.args[n].sizeY \in Nat \ {0}
  <1>1. /\ c.params \in Seq(ToSet(c.params)) /\ c.inits \in Seq(ToSet(c.inits))
        /\ ConstructorOK(c) /\ NamesOK(c)
        /\ \A k \in DOMAIN c.inits : c.inits[k].kind \in FieldKinds
        /\ \A n \in DOMAIN c.args : IsAccessor(c.args[n]) =>
             c.args[n].sizeX \in Nat \ {0} /\ c.args[n].sizeY \in Nat \ {0}
    BY ProgramsAssumption
  <1>2. Len(c.params) > 0 /\ DOMAIN c.args = DOMAIN c.params
    BY <1>1 DEF ConstructorOK
  <1>3. Len(c.params) \in Nat /\ DOMAIN c.params = 1..Len(c.params)
    BY <1>1, LenProperties
  <1>4. Len(c.inits) \in Nat /\ DOMAIN c.inits = 1..Len(c.inits)
    BY <1>1, LenProperties
  <1> QED
    BY <1>1, <1>2, <1>3, <1>4

(* The initialiser that gives the n-th parameter its member.               *)
Initialiser(c, n) == Min({k \in DOMAIN c.inits : c.inits[k].param = c.params[n]})

LEMMA InitialiserIs ==
  ASSUME NEW c \in Programs, NEW n \in DOMAIN c.params
  PROVE  /\ Initialiser(c, n) \in DOMAIN c.inits
         /\ c.inits[Initialiser(c, n)].param = c.params[n]
         /\ MemberOf(c, c.params[n]) = <<c.inits[Initialiser(c, n)]>>
  <1>1. PICK T : T = {k \in DOMAIN c.inits : c.inits[k].param = c.params[n]}
    OBVIOUS
  <1>2. T \subseteq Nat /\ T # {}
    <2>1. DOMAIN c.inits \subseteq Nat
      BY ProgramFacts
    <2>2. \E k \in DOMAIN c.inits : c.inits[k].param = c.params[n]
      BY ProgramFacts DEF ConstructorOK
    <2> QED
      BY <1>1, <2>1, <2>2
  <1>3. Min(T) \in T
    BY <1>2, Least
  <1>4. Initialiser(c, n) = Min(T)
    BY <1>1 DEF Initialiser
  <1>5. MemberOf(c, c.params[n]) = [i \in 1..1 |-> c.inits[Min(T)]]
    BY <1>1, <1>2 DEF MemberOf
  <1>6. [i \in 1..1 |-> c.inits[Min(T)]] = <<c.inits[Min(T)]>>
    OBVIOUS
  <1> QED
    BY <1>1, <1>3, <1>4, <1>5, <1>6

LEMMA MembersAre ==
  ASSUME NEW c \in Programs
  PROVE  /\ Len(MembersOf(c)) = Len(c.params) /\ DOMAIN MembersOf(c) = DOMAIN c.params
         /\ \A n \in DOMAIN c.params : MembersOf(c)[n] = c.inits[Initialiser(c, n)]
  <1>1. PICK N \in Nat \ {0} : N = Len(c.params) /\ DOMAIN c.params = 1..N
    BY ProgramFacts
  <1>2. PICK q : q = [n \in 1..Len(c.params) |-> MemberOf(c, c.params[n])]
    OBVIOUS
  <1>3. \A n \in 1..N : q[n] = <<c.inits[Initialiser(c, n)]>>
    BY <1>1, <1>2, InitialiserIs
  <1>4. Sequences(q, N) /\ \A n \in 1..N : Len(q[n]) = 1
    <2>1. DOMAIN q = 1..N /\ Len(q) = N
      BY <1>1, <1>2
    <2>2. \A n \in 1..N : Len(q[n]) = 1 /\ q[n] \in Seq({c.inits[Initialiser(c, n)]})
      <3>1. ASSUME NEW x
            PROVE  Len(<<x>>) = 1 /\ <<x>> \in Seq({x})
        OBVIOUS
      <3> QED
        BY <1>3, <3>1
    <2> QED
      BY <2>1, <2>2 DEF Sequences
  <1>5. /\ Len(FlattenSeq(q)) = N /\ DOMAIN FlattenSeq(q) = 1..N
        /\ \A n \in 1..N : FlattenSeq(q)[n] = q[n][1]
    BY <1>4, FlattenSingles
  <1>6. MembersOf(c) = FlattenSeq(q)
    BY <1>2 DEF MembersOf
  <1>7. \A n \in 1..N : q[n][1] = c.inits[Initialiser(c, n)]
    BY <1>3
  <1> QED
    BY <1>1, <1>5, <1>6, <1>7

(* What the declaration relies on: the members stand in the order of the   *)
(* constructor's parameters, as the arguments of a declaration do.         *)
MembersInOrder ==
  /\ Len(members) \in Nat \ {0} /\ DOMAIN members = 1..Len(members)
  /\ DOMAIN program.args = 1..Len(members)
  /\ \A n \in 1..Len(members) :
       /\ members[n].kind \in FieldKinds /\ members[n].field # "bh"
       /\ IsImage(members[n]) <=> IsAccessor(program.args[n])
       /\ members[n].kind = "Mask" <=> program.args[n].kind = "Mask"
       /\ program.args[n].name # "tmp"
       /\ Given(members[n].field) = program.args[n]
       /\ Member(members[n].field) = members[n]
  /\ \A m, n \in 1..Len(members) : members[m].field = members[n].field => m = n

LEMMA MembersKnown ==
  ASSUME program \in Programs, members = MembersOf(program)
  PROVE  MembersInOrder
  <1>1. PICK N \in Nat \ {0} : N = Len(program.params) /\ DOMAIN program.params = 1..N
    BY ProgramFacts
  <1>2. /\ Len(members) = N /\ DOMAIN members = 1..N
        /\ \A n \in 1..N : members[n] = program.inits[Initialiser(program, n)]
    BY <1>1, MembersAre
  <1>3. DOMAIN program.args = 1..N /\ ConstructorOK(program) /\ NamesOK(program)
    BY <1>1, ProgramFacts
  <1>4. \A n \in 1..N : /\ Initialiser(program, n) \in DOMAIN program.inits
                        /\ program.inits[Initialiser(program, n)].param = program.params[n]
    BY <1>1, InitialiserIs
  <1>5. /\ \A j, k \in DOMAIN program.inits :
             program.inits[j].field = program.inits[k].field => j = k
        /\ \A j, k \in 1..N : program.params[j] = program.params[k] => j = k
    BY <1>1, <1>3 DEF ConstructorOK, IsInjective
  <1>6. ASSUME NEW m \in 1..N, NEW n \in 1..N, members[m].field = members[n].field
        PROVE  m = n
    <2>1. Initialiser(program, m) = Initialiser(program, n)
      BY <1>2, <1>4, <1>5, <1>6
    <2>2. program.params[m] = program.params[n]
      BY <1>4, <2>1
    <2> QED
      BY <1>5, <2>2
  <1>7. ASSUME NEW n \in 1..N
        PROVE  /\ members[n].kind \in FieldKinds /\ members[n].field # "bh"
               /\ IsImage(members[n]) <=> IsAccessor(program.args[n])
               /\ members[n].kind = "Mask" <=> program.args[n].kind = "Mask"
               /\ program.args[n].name # "tmp"
    <2>1. PICK k \in DOMAIN program.inits :
            members[n] = program.inits[k] /\ program.inits[k].param = program.params[n]
      BY <1>2, <1>4
    <2>2. program.inits[k].kind \in FieldKinds
      BY ProgramFacts
    <2>3. program.inits[k].field # "bh" /\ program.args[n].name # "tmp"
      BY <1>3 DEF NamesOK
    <2>4. /\ IsImage(program.inits[k]) <=> IsAccessor(program.args[n])
          /\ program.inits[k].kind = "Mask" <=> program.args[n].kind = "Mask"
      BY <1>1, <1>3, <2>1 DEF ConstructorOK
    <2> QED
      BY <2>1, <2>2, <2>3, <2>4
  <1>8. ASSUME NEW n \in 1..N
        PROVE  Given(members[n].field) = program.args[n]
    <2> DEFINE P(j) == \E k \in 1..Len(program.inits) :
                         /\ program.inits[k].field = members[n].field
                         /\ program.inits[k].param = program.params[j]
    <2>1. DOMAIN program.inits = 1..Len(program.inits)
      <3>1. program.inits \in Seq(ToSet(program.inits))
        BY ProgramsAssumption
      <3> QED
        BY <3>1, LenProperties
    <2>2. P(n)
      BY <1>2, <1>4, <2>1
    <2>3. ASSUME NEW j \in 1..N, P(j)
          PROVE  j = n
      <3>1. PICK k \in DOMAIN program.inits :
              /\ program.inits[k].field = members[n].field
              /\ program.inits[k].param = program.params[j]
        BY <2>1, <2>3
      <3>2. k = Initialiser(program, n)
        BY <1>2, <1>4, <1>5, <3>1
      <3>3. program.params[j] = program.params[n]
        BY <1>4, <3>1, <3>2
      <3> QED
        BY <1>5, <3>3
    <2>4. Given(members[n].field) = program.args[CHOOSE j \in 1..N : P(j)]
      BY <1>1 DEF Given
    <2>5. (CHOOSE j \in 1..N : P(j)) = n
      <3> HIDE DEF P
      <3> QED
        BY <2>2, <2>3
    <2> QED
      BY <2>4, <2>5
  <1>9. ASSUME NEW n \in 1..N
        PROVE  Member(members[n].field) = members[n]
    <2>1. (CHOOSE m \in 1..N : members[m].field = members[n].field) = n
      BY <1>6
    <2> QED
      BY <1>2, <2>1 DEF Member
  <1> QED
    BY <1>2, <1>3, <1>6, <1>7, <1>8, <1>9 DEF MembersInOrder

(* Of members and objects at the same positions, the object at the         *)
(* position of a member is mapped to its field.                            *)
FieldsDiffer(ms, I) == \A m, n \in I : ms[m].field = ms[n].field => m = n

Maps(map, ms, objects, I) == /\ DOMAIN map = {ms[n].field : n \in I}
                             /\ \A n \in I : map[ms[n].field] = objects[n]

LEMMA MappedIs ==
  ASSUME NEW ms, NEW objects, NEW I, I \subseteq Nat, IsFiniteSet(I), FieldsDiffer(ms, I)
  PROVE  Maps(Mapped(At(ms, I), At(objects, I)), ms, objects, I)
  <1>1. PICK N \in Nat : N = Cardinality(I)
    BY Places
  <1>2. PICK fields : fields = FieldsOf(At(ms, I))
    OBVIOUS
  <1>3. /\ Len(At(ms, I)) = N /\ \A k \in 1..N : At(ms, I)[k] = ms[Place(I, k)]
        /\ \A k \in 1..N : At(objects, I)[k] = objects[Place(I, k)]
    <2>1. Taken(At(ms, I), ms, I) /\ Taken(At(objects, I), objects, I)
      BY AtIs
    <2> QED
      BY <1>1, <2>1 DEF Taken
  <1>4. fields = [k \in 1..N |-> ms[Place(I, k)].field]
    BY <1>2, <1>3 DEF FieldsOf
  <1>5. Len(fields) = N /\ DOMAIN fields = 1..N
    BY <1>4
  <1>6. /\ \A k \in 1..N : Place(I, k) \in I
        /\ \A i \in I : \E k \in 1..N : Place(I, k) = i
    BY <1>1, Places
  <1>7. ToSet(fields) = {ms[n].field : n \in I}
    BY <1>4, <1>5, <1>6 DEF ToSet
  <1>8. PICK mapped : mapped = Mapped(At(ms, I), At(objects, I))
    OBVIOUS
  <1>9. mapped = [f \in ToSet(fields) |->
          At(objects, I)[CHOOSE n \in 1..Len(fields) : fields[n] = f]]
    BY <1>2, <1>8 DEF Mapped
  <1>10. ASSUME NEW n \in I
         PROVE  mapped[ms[n].field] = objects[n]
    <2>1. PICK f : f = ms[n].field
      OBVIOUS
    <2>2. \E k \in 1..N : fields[k] = f
      BY <1>4, <1>6, <2>1
    <2>3. PICK j \in 1..N : j = CHOOSE k \in 1..Len(fields) : fields[k] = f
      BY <1>5, <2>2
    <2>4. fields[j] = f
      BY <1>5, <2>2, <2>3
    <2>5. Place(I, j) = n
      BY <1>4, <1>6, <2>1, <2>4 DEF FieldsDiffer
    <2>6. mapped[f] = At(objects, I)[j]
      BY <1>7, <1>9, <2>1, <2>3
    <2> QED
      BY <1>3, <2>1, <2>5, <2>6
  <1> QED
    BY <1>7, <1>8, <1>9, <1>10 DEF Maps

IsMapped(m) == IsImage(m) \/ m.kind = "Mask"

(* The fields of images and masks are mapped to the arguments the members  *)
(* stand for.                                                              *)
MappedInOrder ==
  /\ \A n \in 1..Len(members) : IsMapped(members[n]) =>
       members[n].field \in DOMAIN mapping /\ mapping[members[n].field] = program.args[n]
  /\ \A f \in DOMAIN mapping :
       \E n \in 1..Len(members) : f = members[n].field /\ IsMapped(members[n])

LEMMA MappingKnown ==
  ASSUME MembersInOrder, NEW map, map = MappingOf(members, program.args)
  PROVE  /\ \A n \in 1..Len(members) : IsMapped(members[n]) =>
              members[n].field \in DOMAIN map /\ map[members[n].field] = program.args[n]
         /\ \A f \in DOMAIN map :
              \E n \in 1..Len(members) : f = members[n].field /\ IsMapped(members[n])
  <1>1. PICK N \in Nat \ {0} : N = Len(members)
    BY DEF MembersInOrder
  <1>2. /\ DOMAIN members = 1..N /\ DOMAIN program.args = 1..N
        /\ \A n \in 1..N : /\ IsImage(members[n]) <=> IsAccessor(program.args[n])
                           /\ members[n].kind = "Mask" <=> program.args[n].kind = "Mask"
        /\ \A m, n \in 1..N : members[m].field = members[n].field => m = n
    BY <1>1 DEF MembersInOrder
  <1>3. PICK I : I = {n \in 1..N : IsImage(members[n])}
    OBVIOUS
  <1>4. PICK J : J = {n \in 1..N : members[n].kind = "Mask"}
    OBVIOUS
  <1>5. I \subseteq Nat /\ J \subseteq Nat /\ IsFiniteSet(I) /\ IsFiniteSet(J)
    <2>1. IsFiniteSet(1..N)
      BY FS_Interval
    <2>2. I \in SUBSET (1..N) /\ J \in SUBSET (1..N)
      BY <1>3, <1>4
    <2>3. I \subseteq Nat /\ J \subseteq Nat
      BY <2>2
    <2>4. IsFiniteSet(I)
      BY <2>1, <2>2, FS_Subset
    <2>5. IsFiniteSet(J)
      BY <2>1, <2>2, FS_Subset
    <2> QED
      BY <2>3, <2>4, <2>5
  <1>6. PICK images : images = Mapped(At(members, I), At(program.args, I))
    OBVIOUS
  <1>7. PICK masks : masks = Mapped(At(members, J), At(program.args, J))
    OBVIOUS
  <1>8. /\ DOMAIN images = {members[n].field : n \in I}
        /\ \A n \in I : images[members[n].field] = program.args[n]
    <2>1. FieldsDiffer(members, I)
      BY <1>2, <1>3 DEF FieldsDiffer
    <2>2. I \subseteq Nat /\ IsFiniteSet(I)
      BY <1>5
    <2>3. Maps(images, members, program.args, I)
      BY <1>6, <2>1, <2>2, MappedIs
    <2> QED
      BY <2>3 DEF Maps
  <1>9. /\ DOMAIN masks = {members[n].field : n \in J}
        /\ \A n \in J : masks[members[n].field] = program.args[n]
    <2>1. FieldsDiffer(members, J)
      BY <1>2, <1>4 DEF FieldsDiffer
    <2>2. J \subseteq Nat /\ IsFiniteSet(J)
      BY <1>5
    <2>3. Maps(masks, members, program.args, J)
      BY <1>7, <2>1, <2>2, MappedIs
    <2> QED
      BY <2>3 DEF Maps
  <1>10. /\ I = {n \in DOMAIN members : IsImage(members[n])}
         /\ I = {n \in DOMAIN program.args : IsAccessor(program.args[n])}
         /\ J = {n \in DOMAIN members : members[n].kind = "Mask"}
         /\ J = {n \in DOMAIN program.args : program.args[n].kind = "Mask"}
    BY <1>2, <1>3, <1>4
  <1>11. map = [f \in DOMAIN images \cup DOMAIN masks |->
                  IF f \in DOMAIN images THEN images[f] ELSE masks[f]]
    BY <1>6, <1>7, <1>10 DEF MappingOf
  <1>12. \A n \in I : map[members[n].field] = program.args[n]
    BY <1>8, <1>11
  <1>13. ASSUME NEW n \in J
         PROVE  map[members[n].field] = program.args[n]
    <2>1. members[n].field \notin DOMAIN images
      <3>1. n \notin I
        BY <1>3, <1>4 DEF IsImage
      <3> QED
        BY <1>2, <1>3, <1>4, <1>8, <3>1
    <2> QED
      BY <1>9, <1>11, <2>1
  <1>14. \A n \in 1..N : IsMapped(members[n]) <=> n \in I \cup J
    BY <1>3, <1>4 DEF IsMapped
  <1>15. DOMAIN map = {members[n].field : n \in I \cup J}
    BY <1>8, <1>9, <1>11
  <1>16. I \cup J \subseteq 1..N
    BY <1>3, <1>4
  <1> QED
    BY <1>1, <1>12, <1>13, <1>14, <1>15, <1>16

-----------------------------------------------------------------------------
(* The parameters of the kernel and the arguments of a launch.             *)

(* The value v, with the temporaries lits, is what the name a means at the *)
(* launch number info; only a member's value comes from a temporary.       *)
Passes(v, a, lits, info) ==
  /\ (IF v[1] = "tmp" /\ v[2] \in DOMAIN lits THEN <<lits[v[2]], "">> ELSE v)
       = (IF a[1] = "bh" THEN <<"info", info, a[2]>> ELSE <<Given(a[1]).name, a[2]>>)
  /\ v[1] = "tmp" => a[1] # "bh" /\ Member(a[1]).kind = "Normal"

Pairs(s, t, lits, info) ==
  /\ \E A : s \in Seq(A) /\ t \in Seq(A)
  /\ Len(s) = Len(t) /\ \A i \in 1..Len(s) : Passes(t[i], s[i], lits, info)

LEMMA PairsNone ==
  ASSUME NEW lits, NEW info
  PROVE  Pairs(<< >>, << >>, lits, info)
  <1>1. << >> \in Seq({}) /\ Len(<< >>) = 0
    OBVIOUS
  <1> QED
    BY <1>1 DEF Pairs

LEMMA PairsOne ==
  ASSUME NEW lits, NEW info, NEW a, NEW v, Passes(v, a, lits, info)
  PROVE  Pairs(<<a>>, <<v>>, lits, info)
  <1>1. <<a>> \in Seq({a, v}) /\ <<v>> \in Seq({a, v})
    OBVIOUS
  <1>2. /\ Len(<<a>>) = 1 /\ Len(<<v>>) = 1
        /\ \A i \in 1..1 : <<a>>[i] = a /\ <<v>>[i] = v
    OBVIOUS
  <1> QED
    BY <1>1, <1>2 DEF Pairs

LEMMA PairsTwo ==
  ASSUME NEW lits, NEW info, NEW a, NEW v, Passes(v, a, lits, info),
         NEW b, NEW w, Passes(w, b, lits, info)
  PROVE  Pairs(<<a, b>>, <<v, w>>, lits, info)
  <1>1. <<a, b>> \in Seq({a, b, v, w}) /\ <<v, w>> \in Seq({a, b, v, w})
    OBVIOUS
  <1>2. /\ Len(<<a, b>>) = 2 /\ Len(<<v, w>>) = 2
        /\ <<a, b>>[1] = a /\ <<a, b>>[2] = b
        /\ <<v, w>>[1] = v /\ <<v, w>>[2] = w
    OBVIOUS
  <1>3. \A i \in 1..2 : i = 1 \/ i = 2
    OBVIOUS
  <1> QED
    BY <1>1, <1>2, <1>3 DEF Pairs

LEMMA PairsThree ==
  ASSUME NEW lits, NEW info, NEW a, NEW v, Passes(v, a, lits, info),
         NEW b, NEW w, Passes(w, b, lits, info), NEW c, NEW x, Passes(x, c, lits, info)
  PROVE  Pairs(<<a, b, c>>, <<v, w, x>>, lits, info)
  <1>1. /\ <<a, b, c>> \in Seq({a, b, c, v, w, x})
        /\ <<v, w, x>> \in Seq({a, b, c, v, w, x})
    OBVIOUS
  <1>2. /\ Len(<<a, b, c>>) = 3 /\ Len(<<v, w, x>>) = 3
        /\ <<a, b, c>>[1] = a /\ <<a, b, c>>[2] = b /\ <<a, b, c>>[3] = c
        /\ <<v, w, x>>[1] = v /\ <<v, w, x>>[2] = w /\ <<v, w, x>>[3] = x
    OBVIOUS
  <1>3. \A i \in 1..3 : i = 1 \/ i = 2 \/ i = 3
    OBVIOUS
  <1> QED
    BY <1>1, <1>2, <1>3 DEF Pairs

LEMMA PairsConcat ==
  ASSUME NEW lits, NEW info, NEW s, NEW t, NEW p, NEW q,
         Pairs(s, p, lits, info), Pairs(t, q, lits, info)
  PROVE  Pairs(s \o t, p \o q, lits, info)
  <1>1. PICK A : s \in Seq(A) /\ p \in Seq(A)
    BY DEF Pairs
  <1>2. PICK B : t \in Seq(B) /\ q \in Seq(B)
    BY DEF Pairs
  <1>3. PICK C : C = A \cup B
    OBVIOUS
  <1>4. s \in Seq(C) /\ t \in Seq(C) /\ p \in Seq(C) /\ q \in Seq(C)
    BY <1>1, <1>2, <1>3
  <1>5. /\ Len(s) \in Nat /\ Len(t) \in Nat /\ Len(p) = Len(s) /\ Len(q) = Len(t)
        /\ \A i \in 1..Len(s) : Passes(p[i], s[i], lits, info)
        /\ \A i \in 1..Len(t) : Passes(q[i], t[i], lits, info)
    BY <1>4 DEF Pairs
  <1>6. /\ s \o t \in Seq(C)
        /\ Len(s \o t) = Len(s) + Len(t)
        /\ \A i \in 1..Len(s) : (s \o t)[i] = s[i]
        /\ \A i \in 1..Len(t) : (s \o t)[Len(s) + i] = t[i]
    BY <1>4
  <1>7. /\ p \o q \in Seq(C)
        /\ Len(p \o q) = Len(s) + Len(t)
        /\ \A i \in 1..Len(s) : (p \o q)[i] = p[i]
        /\ \A i \in 1..Len(t) : (p \o q)[Len(s) + i] = q[i]
    <2>1. /\ p \o q \in Seq(C)
          /\ Len(p \o q) = Len(p) + Len(q)
          /\ \A i \in 1..Len(p) : (p \o q)[i] = p[i]
          /\ \A i \in 1..Len(q) : (p \o q)[Len(p) + i] = q[i]
      BY <1>4
    <2> QED
      BY <1>5, <2>1
  <1>8. ASSUME NEW i \in 1..Len(s \o t)
        PROVE  Passes((p \o q)[i], (s \o t)[i], lits, info)
    <2>1. CASE i \in 1..Len(s)
      BY <1>5, <1>6, <1>7, <2>1
    <2>2. CASE i \notin 1..Len(s)
      <3>1. PICK j \in 1..Len(t) : i = Len(s) + j
        <4>1. i - Len(s) \in 1..Len(t) /\ i = Len(s) + (i - Len(s))
          BY <1>5, <1>6, <2>2
        <4> QED
          BY <4>1
      <3>2. (s \o t)[i] = t[j] /\ (p \o q)[i] = q[j]
        BY <1>6, <1>7, <3>1
      <3> QED
        BY <1>5, <3>2
    <2> QED
      BY <2>1, <2>2
  <1> QED
    BY <1>6, <1>7, <1>8 DEF Pairs

LEMMA PairsWhen ==
  ASSUME NEW lits, NEW info, NEW c \in BOOLEAN, NEW s, NEW t,
         c => Pairs(s, t, lits, info)
  PROVE  Pairs(When(c, s), When(c, t), lits, info)
  BY PairsNone DEF When

LEMMA FlattenPairs ==
  ASSUME NEW lits, NEW info, NEW q, NEW p, NEW n, Sequences(q, n), Sequences(p, n),
         \A i \in 1..n : Pairs(q[i], p[i], lits, info)
  PROVE  Pairs(FlattenSeq(q), FlattenSeq(p), lits, info)
  <1> n \in Nat \ {0}
    BY DEF Sequences
  <1>1. PICK f : FlattenSeq(q) = f[n] /\ Joins(f, q, n)
    BY FlattenIs
  <1>2. PICK g : FlattenSeq(p) = g[n] /\ Joins(g, p, n)
    BY FlattenIs
  <1> DEFINE S == {k \in 1..n : Pairs(f[k], g[k], lits, info)}
  <1>3. 1 \in S
    <2>1. f[1] = q[1] /\ g[1] = p[1] /\ 1 \in 1..n
      BY <1>1, <1>2 DEF Joins
    <2> QED
      BY <2>1
  <1>4. ASSUME NEW k \in 1..n, k \in S, k + 1 \in 1..n
        PROVE  k + 1 \in S
    <2>1. f[k + 1] = f[k] \o q[k + 1] /\ g[k + 1] = g[k] \o p[k + 1]
      BY <1>1, <1>2, <1>4 DEF Joins
    <2>2. Pairs(f[k], g[k], lits, info) /\ Pairs(q[k + 1], p[k + 1], lits, info)
      BY <1>4
    <2>3. Pairs(f[k] \o q[k + 1], g[k] \o p[k + 1], lits, info)
      BY <2>2, PairsConcat
    <2> QED
      BY <1>4, <2>1, <2>3
  <1>5. n \in S
    <2> HIDE DEF S
    <2> QED
      BY <1>3, <1>4, InductionTo
  <1> QED
    BY <1>1, <1>2, <1>5

(* Every temporary has a number of its own, under which its value is       *)
(* declared.                                                               *)
LEMMA TemporariesDiffer ==
  ASSUME MembersInOrder
  PROVE  /\ \A n \in 1..Len(members) : TemporariesBefore(n) \in Nat
         /\ \A m, n \in 1..Len(members) :
              IsTemporary(m) /\ m < n => TemporariesBefore(m) # TemporariesBefore(n)
  <1>1. PICK N \in Nat \ {0} : N = Len(members)
    BY DEF MembersInOrder
  <1> DEFINE T(n) == {k \in 1..(n - 1) : IsTemporary(k)}
  <1>2. ASSUME NEW n \in 1..N
        PROVE  IsFiniteSet(T(n)) /\ TemporariesBefore(n) = Cardinality(T(n))
    <2>1. T(n) \in SUBSET (1..(n - 1)) /\ IsFiniteSet(1..(n - 1))
      BY FS_Interval
    <2>2. TemporariesBefore(n) = Cardinality(T(n))
      BY DEF TemporariesBefore
    <2> HIDE DEF T
    <2> QED
      BY <2>1, <2>2, FS_Subset
  <1>3. ASSUME NEW m \in 1..N, NEW n \in 1..N, IsTemporary(m), m < n
        PROVE  Cardinality(T(m)) # Cardinality(T(n))
    <2>1. T(m) \in SUBSET T(n) /\ m \in T(n) /\ m \notin T(m)
      BY <1>3
    <2> HIDE DEF T
    <2>2. T(m) # T(n)
      BY <2>1
    <2> QED
      BY <1>2, <2>1, <2>2, FS_Subset
  <1>4. \A n \in 1..N : TemporariesBefore(n) \in Nat
    <2> HIDE DEF T
    <2> QED
      BY <1>2, FS_CardinalityType
  <1>5. \A m, n \in 1..N :
          IsTemporary(m) /\ m < n => TemporariesBefore(m) # TemporariesBefore(n)
    <2> HIDE DEF T
    <2> QED
      BY <1>2, <1>3
  <1> QED
    BY <1>1, <1>4, <1>5

LEMMA LiteralsAre ==
  ASSUME MembersInOrder, literalCount \in Nat, NEW n \in 1..Len(members), IsTemporary(n)
  PROVE  /\ literalCount + TemporariesBefore(n) \in DOMAIN HostLiterals
         /\ HostLiterals[literalCount + TemporariesBefore(n)] = program.args[n].name
  <1>1. PICK N \in Nat \ {0} : N = Len(members)
    BY DEF MembersInOrder
  <1>2. PICK new : new = {k \in 1..N : IsTemporary(k)}
    OBVIOUS
  <1>3. n \in new
    BY <1>1, <1>2
  <1>4. HostLiterals = [i \in {literalCount + TemporariesBefore(k) : k \in new} |->
          program.args[CHOOSE k \in new : literalCount + TemporariesBefore(k) = i].name]
    BY <1>1, <1>2 DEF HostLiterals
  <1>5. PICK i : i = literalCount + TemporariesBefore(n)
    OBVIOUS
  <1>6. ASSUME NEW k \in new, literalCount + TemporariesBefore(k) = i
        PROVE  k = n
    <2>1. TemporariesBefore(k) \in Nat /\ TemporariesBefore(n) \in Nat
      BY <1>1, <1>2, TemporariesDiffer
    <2>2. TemporariesBefore(k) = TemporariesBefore(n)
      BY <1>5, <1>6, <2>1
    <2>3. ~(k < n) /\ ~(n < k)
      BY <1>1, <1>2, <1>3, <2>2, TemporariesDiffer
    <2> QED
      BY <1>1, <1>2, <1>3, <2>3
  <1>7. (CHOOSE k \in new : literalCount + TemporariesBefore(k) = i) = n
    BY <1>3, <1>5, <1>6
  <1>8. i \in {literalCount + TemporariesBefore(k) : k \in new}
    BY <1>3, <1>5
  <1>9. HostLiterals[i] = program.args[n].name
    BY <1>4, <1>7, <1>8
  <1> QED
    BY <1>4, <1>5, <1>8, <1>9

(* What is said of the program stands for itself.                          *)
LEMMA NamesPass ==
  ASSUME MembersInOrder, NEW n \in 1..Len(members), NEW part, NEW lits, NEW info
  PROVE  Passes(<<program.args[n].name, part>>, <<members[n].field, part>>, lits, info)
  <1>1. /\ members[n].field # "bh" /\ program.args[n].name # "tmp"
        /\ Given(members[n].field) = program.args[n]
    BY DEF MembersInOrder
  <1>2. PICK v : v = <<program.args[n].name, part>>
    OBVIOUS
  <1>3. PICK a : a = <<members[n].field, part>>
    OBVIOUS
  <1>4. v[1] # "tmp" /\ a[1] # "bh" /\ a[2] = part /\ Given(a[1]).name = program.args[n].name
    BY <1>1, <1>2, <1>3
  <1>5. Passes(v, a, lits, info)
    BY <1>2, <1>4 DEF Passes
  <1> QED
    BY <1>2, <1>3, <1>5

LEMMA NormalPairs ==
  ASSUME MembersInOrder, literalCount \in Nat, NEW info,
         NEW n \in 1..Len(members), members[n].kind = "Normal"
  PROVE  Pairs(ParamsOf(members[n]), HostArgsOf(n), HostLiterals, info)
  <1>1. PICK a : a = <<members[n].field, "">>
    OBVIOUS
  <1>2. ParamsOf(members[n]) = <<a>>
    BY <1>1 DEF ParamsOf, IsImage, When
  <1>3. CASE IsTemporary(n)
    <2>1. PICK i : i = literalCount + TemporariesBefore(n)
      OBVIOUS
    <2>2. PICK v : v = <<"tmp", i>>
      OBVIOUS
    <2>3. HostArgsOf(n) = <<v>>
      BY <1>3, <2>1, <2>2 DEF HostArgsOf, IsImage, When
    <2>4. i \in DOMAIN HostLiterals /\ HostLiterals[i] = program.args[n].name
      BY <1>3, <2>1, LiteralsAre
    <2>5. /\ members[n].field # "bh" /\ Given(members[n].field) = program.args[n]
          /\ Member(members[n].field) = members[n]
      BY DEF MembersInOrder
    <2>6. a[1] = members[n].field /\ a[2] = "" /\ v[1] = "tmp" /\ v[2] = i
      BY <1>1, <2>2
    <2>7. Passes(v, a, HostLiterals, info)
      BY <2>4, <2>5, <2>6 DEF Passes
    <2> QED
      BY <1>2, <2>3, <2>7, PairsOne
  <1>4. CASE ~IsTemporary(n)
    <2>1. PICK v : v = <<program.args[n].name, "">>
      OBVIOUS
    <2>2. HostArgsOf(n) = <<v>>
      BY <1>4, <2>1 DEF HostArgsOf, IsImage, When
    <2>3. Passes(v, a, HostLiterals, info)
      BY <1>1, <2>1, NamesPass
    <2> QED
      BY <1>2, <2>2, <2>3, PairsOne
  <1> QED
    BY <1>3, <1>4

LEMMA MaskPairs ==
  ASSUME MembersInOrder, MappedInOrder, NEW lits, NEW info,
         NEW n \in 1..Len(members), members[n].kind = "Mask"
  PROVE  Pairs(ParamsOf(members[n]), HostArgsOf(n), lits, info)
  <1>1. PICK a : a = <<members[n].field, "">>
    OBVIOUS
  <1>2. ParamsOf(members[n]) = <<a>>
    BY <1>1 DEF ParamsOf, IsImage, When
  <1>3. PICK v : v = <<program.args[n].name, "">>
    OBVIOUS
  <1>4. mapping[members[n].field] = program.args[n]
    BY DEF MappedInOrder, IsMapped
  <1>5. HostArgsOf(n) = <<v>>
    BY <1>3, <1>4 DEF HostArgsOf, IsImage, When
  <1>6. Passes(v, a, lits, info)
    BY <1>1, <1>3, NamesPass
  <1> QED
    BY <1>2, <1>5, <1>6, PairsOne

LEMMA ImagePairs ==
  ASSUME MembersInOrder, MappedInOrder, NEW lits, NEW info,
         NEW n \in 1..Len(members), IsImage(members[n])
  PROVE  Pairs(ParamsOf(members[n]), HostArgsOf(n), lits, info)
  <1> DEFINE A(part) == <<members[n].field, part>>
             V(part) == <<program.args[n].name, part>>
             padded  == target.padding \/ program.args[n].crop
  <1>1. ASSUME NEW part
        PROVE  Passes(V(part), A(part), lits, info)
    BY NamesPass
  <1>2. mapping[members[n].field] = program.args[n]
    BY DEF MappedInOrder, IsMapped
  <1>3. members[n].kind # "Normal" /\ members[n].kind # "Mask"
    BY DEF IsImage
  <1>4. ParamsOf(members[n]) =
          <<A(""), A("width"), A("height")>> \o When(padded, <<A("stride")>>)
            \o When(program.args[n].crop, <<A("offset_x"), A("offset_y")>>)
    BY <1>2, <1>3 DEF ParamsOf
  <1>5. HostArgsOf(n) =
          <<V(""), V("width"), V("height")>> \o When(padded, <<V("stride")>>)
            \o When(program.args[n].crop, <<V("offset_x"), V("offset_y")>>)
    BY <1>2, <1>3 DEF HostArgsOf
  <1> HIDE DEF A, V, padded
  <1>6. Pairs(<<A(""), A("width"), A("height")>>, <<V(""), V("width"), V("height")>>,
               lits, info)
    BY <1>1, PairsThree
  <1>7. Pairs(When(padded, <<A("stride")>>), When(padded, <<V("stride")>>), lits, info)
    <2>1. padded => Pairs(<<A("stride")>>, <<V("stride")>>, lits, info)
      BY <1>1, PairsOne
    <2>2. padded \in BOOLEAN
      BY DEF padded
    <2> QED
      BY <2>1, <2>2, PairsWhen
  <1>8. Pairs(When(program.args[n].crop, <<A("offset_x"), A("offset_y")>>),
               When(program.args[n].crop, <<V("offset_x"), V("offset_y")>>), lits, info)
    <2>1. Pairs(<<A("offset_x"), A("offset_y")>>, <<V("offset_x"), V("offset_y")>>,
                lits, info)
      BY <1>1, PairsTwo
    <2> QED
      BY <2>1, PairsNone DEF When
  <1>9. Pairs(<<A(""), A("width"), A("height")>> \o When(padded, <<A("stride")>>),
               <<V(""), V("width"), V("height")>> \o When(padded, <<V("stride")>>),
               lits, info)
    BY <1>6, <1>7, PairsConcat
  <1>10. Pairs((<<A(""), A("width"), A("height")>> \o When(padded, <<A("stride")>>))
                 \o When(program.args[n].crop, <<A("offset_x"), A("offset_y")>>),
               (<<V(""), V("width"), V("height")>> \o When(padded, <<V("stride")>>))
                 \o When(program.args[n].crop, <<V("offset_x"), V("offset_y")>>),
               lits, info)
    BY <1>8, <1>9, PairsConcat
  <1> QED
    BY <1>4, <1>5, <1>10

LEMMA MemberPairs ==
  ASSUME MembersInOrder, MappedInOrder, literalCount \in Nat, NEW info,
         NEW n \in 1..Len(members)
  PROVE  Pairs(ParamsOf(members[n]), HostArgsOf(n), HostLiterals, info)
  <1>1. members[n].kind \in FieldKinds
    BY DEF MembersInOrder
  <1>2. members[n].kind = "Normal" \/ members[n].kind = "Mask" \/ IsImage(members[n])
    BY <1>1 DEF FieldKinds, IsImage
  <1> QED
    BY <1>2, NormalPairs, MaskPairs, ImagePairs

LEMMA InfosPass ==
  ASSUME NEW part, NEW lits, NEW info
  PROVE  Passes(<<"info", info, part>>, <<"bh", part>>, lits, info)
  <1>1. PICK v : v = <<"info", info, part>>
    OBVIOUS
  <1>2. PICK a : a = <<"bh", part>>
    OBVIOUS
  <1>3. v[1] # "tmp" /\ a[1] = "bh" /\ a[2] = part
    BY <1>1, <1>2
  <1>4. Passes(v, a, lits, info)
    BY <1>1, <1>3 DEF Passes
  <1> QED
    BY <1>1, <1>2, <1>4

LEMMA BorderPairs ==
  ASSUME NEW lits
  PROVE  Pairs(BorderParams(threads), HostBorderArgs, lits, infoStrCnt)
  <1> DEFINE A(part) == <<<<"bh", part>>>>
             V(part) == <<<<"info", infoStrCnt, part>>>>
             c1 == RadiusX > 0 \/ target.explore
             c2 == RadiusY > 0 \/ target.explore
             c3 == threads.y > 1 \/ target.ppt > 1 \/ RadiusY > 0 \/ target.explore
             c4 == RadiusX > 0 \/ RadiusY > 0 \/ target.explore
  <1>1. ASSUME NEW part
        PROVE  Pairs(A(part), V(part), lits, infoStrCnt)
    BY InfosPass, PairsOne
  <1>2. ASSUME NEW part, NEW c \in BOOLEAN
        PROVE  Pairs(When(c, A(part)), When(c, V(part)), lits, infoStrCnt)
    <2>1. Pairs(A(part), V(part), lits, infoStrCnt)
      BY <1>1
    <2> HIDE DEF A, V
    <2> QED
      BY <2>1, PairsWhen
  <1>3. BorderParams(threads) =
          When(c1, A("start_left")) \o A("start_right") \o When(c2, A("start_top"))
            \o When(c3, A("start_bottom")) \o When(c4, A("fall_back"))
    BY DEF BorderParams
  <1>4. HostBorderArgs =
          When(c1, V("start_left")) \o V("start_right") \o When(c2, V("start_top"))
            \o When(c3, V("start_bottom")) \o When(c4, V("fall_back"))
    BY DEF HostBorderArgs
  <1>5. c1 \in BOOLEAN /\ c2 \in BOOLEAN /\ c3 \in BOOLEAN /\ c4 \in BOOLEAN
    OBVIOUS
  <1> HIDE DEF A, V, c1, c2, c3, c4
  <1>6. Pairs(When(c1, A("start_left")) \o A("start_right"),
              When(c1, V("start_left")) \o V("start_right"), lits, infoStrCnt)
    BY <1>1, <1>2, <1>5, PairsConcat
  <1>7. Pairs((When(c1, A("start_left")) \o A("start_right")) \o When(c2, A("start_top")),
              (When(c1, V("start_left")) \o V("start_right")) \o When(c2, V("start_top")),
              lits, infoStrCnt)
    BY <1>2, <1>5, <1>6, PairsConcat
  <1>8. Pairs(((When(c1, A("start_left")) \o A("start_right")) \o When(c2, A("start_top")))
                \o When(c3, A("start_bottom")),
              ((When(c1, V("start_left")) \o V("start_right")) \o When(c2, V("start_top")))
                \o When(c3, V("start_bottom")), lits, infoStrCnt)
    BY <1>2, <1>5, <1>7, PairsConcat
  <1>9. Pairs((((When(c1, A("start_left")) \o A("start_right")) \o When(c2, A("start_top")))
                 \o When(c3, A("start_bottom"))) \o When(c4, A("fall_back")),
              (((When(c1, V("start_left")) \o V("start_right")) \o When(c2, V("start_top")))
                 \o When(c3, V("start_bottom"))) \o When(c4, V("fall_back")),
              lits, infoStrCnt)
    BY <1>2, <1>5, <1>8, PairsConcat
  <1> QED
    BY <1>3, <1>4, <1>9

(* The parameters createArgInfo makes for a configuration.                 *)
ParametersFor(t) ==
  FlattenSeq([n \in 1..Len(members) |-> ParamsOf(members[n])]) \o BorderParams(t)

(* Position by position, the arguments of a launch are what the parameters *)
(* mean.                                                                   *)
LEMMA ArgumentsPair ==
  ASSUME MembersInOrder, MappedInOrder, literalCount \in Nat
  PROVE  Pairs(ParametersFor(threads), HostArgs, HostLiterals, infoStrCnt)
  <1>1. PICK N \in Nat \ {0} : N = Len(members)
    BY DEF MembersInOrder
  <1>2. PICK q : q = [n \in 1..N |-> ParamsOf(members[n])]
    OBVIOUS
  <1>3. PICK p : p = [n \in 1..N |-> HostArgsOf(n)]
    OBVIOUS
  <1>4. \A n \in 1..N : Pairs(q[n], p[n], HostLiterals, infoStrCnt)
    BY <1>1, <1>2, <1>3, MemberPairs
  <1>5. Sequences(q, N) /\ Sequences(p, N)
    <2>1. /\ DOMAIN q = 1..N /\ Len(q) = N /\ DOMAIN p = 1..N /\ Len(p) = N
      BY <1>2, <1>3
    <2>2. \A n \in 1..N : \E A : q[n] \in Seq(A) /\ p[n] \in Seq(A)
      BY <1>4 DEF Pairs
    <2> QED
      BY <2>1, <2>2 DEF Sequences
  <1>6. Pairs(FlattenSeq(q), FlattenSeq(p), HostLiterals, infoStrCnt)
    BY <1>4, <1>5, FlattenPairs
  <1>7. Pairs(FlattenSeq(q) \o BorderParams(threads), FlattenSeq(p) \o HostBorderArgs,
              HostLiterals, infoStrCnt)
    BY <1>6, BorderPairs, PairsConcat
  <1>8. ParametersFor(threads) = FlattenSeq(q) \o BorderParams(threads)
    BY <1>1, <1>2 DEF ParametersFor
  <1>9. HostArgs = FlattenSeq(p) \o HostBorderArgs
    BY <1>1, <1>3 DEF HostArgs
  <1> QED
    BY <1>7, <1>8, <1>9

-----------------------------------------------------------------------------
(* No name is a parameter twice.                                           *)
Of(f, A) == A # {} /\ \A a \in A : \E part : a = <<f, part>>

LEMMA OfFirst ==
  ASSUME NEW f, NEW A, Of(f, A), NEW a \in A
  PROVE  a[1] = f /\ a = <<f, a[2]>>
  BY DEF Of

LEMMA ListsMore ==
  ASSUME NEW f, NEW s, NEW A, Lists(s, A), Of(f, A), NEW c \in BOOLEAN, NEW part,
         <<f, part>> \notin A
  PROVE  \E B : /\ Lists(s \o When(c, <<<<f, part>>>>), B) /\ Of(f, B)
                /\ B = A \cup (IF c THEN {<<f, part>>} ELSE {})
  <1>1. PICK B : B = IF c THEN {<<f, part>>} ELSE {}
    OBVIOUS
  <1>2. Lists(When(c, <<<<f, part>>>>), B)
    BY <1>1, ListsWhen
  <1>3. A \cap B = {}
    BY <1>1
  <1>4. Lists(s \o When(c, <<<<f, part>>>>), A \cup B)
    BY <1>2, <1>3, ListsConcat
  <1>5. Of(f, A \cup B)
    BY <1>1 DEF Of
  <1> QED
    BY <1>1, <1>4, <1>5

LEMMA BorderListed ==
  ASSUME NEW t
  PROVE  \E B : Lists(BorderParams(t), B) /\ Of("bh", B)
  <1> DEFINE A(part) == <<"bh", part>>
             c1 == RadiusX > 0 \/ target.explore
             c2 == RadiusY > 0 \/ target.explore
             c3 == t.y > 1 \/ target.ppt > 1 \/ RadiusY > 0 \/ target.explore
             c4 == RadiusX > 0 \/ RadiusY > 0 \/ target.explore
  <1>1. BorderParams(t) =
          When(c1, <<A("start_left")>>) \o <<A("start_right")>>
            \o When(c2, <<A("start_top")>>) \o When(c3, <<A("start_bottom")>>)
            \o When(c4, <<A("fall_back")>>)
    BY DEF BorderParams
  <1>2. c1 \in BOOLEAN /\ c2 \in BOOLEAN /\ c3 \in BOOLEAN /\ c4 \in BOOLEAN
    OBVIOUS
  <1> HIDE DEF c1, c2, c3, c4
  <1>3. PICK S : S = (IF c1 THEN {A("start_left")} ELSE {}) \cup {A("start_right")}
    OBVIOUS
  <1>4. Lists(When(c1, <<A("start_left")>>) \o <<A("start_right")>>, S) /\ Of("bh", S)
    <2>1. PICK T : T = IF c1 THEN {A("start_left")} ELSE {}
      OBVIOUS
    <2>2. Lists(When(c1, <<A("start_left")>>), T)
      BY <1>2, <2>1, ListsWhen
    <2>3. Lists(<<A("start_right")>>, {A("start_right")})
      BY ListsOne
    <2>4. T \cap {A("start_right")} = {}
      BY <2>1
    <2>5. Lists(When(c1, <<A("start_left")>>) \o <<A("start_right")>>,
                T \cup {A("start_right")})
      BY <2>2, <2>3, <2>4, ListsConcat
    <2>6. Of("bh", T \cup {A("start_right")})
      BY <2>1 DEF Of
    <2> QED
      BY <1>3, <2>1, <2>5, <2>6
  <1>5. PICK T : /\ Lists(When(c1, <<A("start_left")>>) \o <<A("start_right")>>
                            \o When(c2, <<A("start_top")>>), T)
                 /\ Of("bh", T) /\ T = S \cup (IF c2 THEN {A("start_top")} ELSE {})
    <2>1. A("start_top") \notin S
      BY <1>3
    <2> QED
      BY <1>2, <1>4, <2>1, ListsMore
  <1>6. PICK U : /\ Lists(When(c1, <<A("start_left")>>) \o <<A("start_right")>>
                            \o When(c2, <<A("start_top")>>)
                            \o When(c3, <<A("start_bottom")>>), U)
                 /\ Of("bh", U) /\ U = T \cup (IF c3 THEN {A("start_bottom")} ELSE {})
    <2>1. A("start_bottom") \notin T
      BY <1>3, <1>5
    <2> QED
      BY <1>2, <1>5, <2>1, ListsMore
  <1>7. A("fall_back") \notin U
    BY <1>3, <1>5, <1>6
  <1>8. PICK V : /\ Lists(When(c1, <<A("start_left")>>) \o <<A("start_right")>>
                            \o When(c2, <<A("start_top")>>)
                            \o When(c3, <<A("start_bottom")>>)
                            \o When(c4, <<A("fall_back")>>), V)
                 /\ Of("bh", V)
    BY <1>2, <1>6, <1>7, ListsMore
  <1> QED
    BY <1>1, <1>8

LEMMA ParamsListed ==
  ASSUME NEW m, m.kind \in FieldKinds
  PROVE  \E A : Lists(ParamsOf(m), A) /\ Of(m.field, A)
  <1> DEFINE A(part) == <<m.field, part>>
  <1>1. CASE m.kind \in {"Normal", "Mask"}
    <2>1. ParamsOf(m) = <<A("")>>
      BY <1>1 DEF ParamsOf, IsImage, When
    <2>2. Lists(<<A("")>>, {A("")}) /\ Of(m.field, {A("")})
      BY ListsOne DEF Of
    <2> QED
      BY <2>1, <2>2
  <1>2. CASE IsImage(m)
    <2> DEFINE padded == target.padding \/ mapping[m.field].crop
    <2>1. PICK s : s = <<A(""), A("width"), A("height")>>
      OBVIOUS
    <2>2. PICK S : S = {A(""), A("width"), A("height")}
      OBVIOUS
    <2>3. Lists(s, S) /\ Of(m.field, S)
      <3>1. A("") # A("width") /\ A("") # A("height") /\ A("width") # A("height")
        OBVIOUS
      <3>2. Of(m.field, S)
        BY <2>2 DEF Of
      <3> HIDE DEF A
      <3>3. Lists(<<A(""), A("width"), A("height")>>, {A(""), A("width"), A("height")})
        BY <3>1, ListsThree
      <3> QED
        BY <2>1, <2>2, <3>2, <3>3
    <2>4. PICK T : /\ Lists(s \o When(padded, <<A("stride")>>), T) /\ Of(m.field, T)
                   /\ T = S \cup (IF padded THEN {A("stride")} ELSE {})
      <3>1. A("stride") \notin S
        BY <2>2
      <3>2. padded \in BOOLEAN
        OBVIOUS
      <3> HIDE DEF padded
      <3> QED
        BY <2>3, <3>1, <3>2, ListsMore
    <2>5. ParamsOf(m) = s \o When(padded, <<A("stride")>>)
                          \o When(mapping[m.field].crop, <<A("offset_x"), A("offset_y")>>)
      BY <1>2, <2>1 DEF ParamsOf, IsImage
    <2> HIDE DEF padded
    <2>6. CASE mapping[m.field].crop
      <3>1. PICK u : u = <<A("offset_x"), A("offset_y")>>
        OBVIOUS
      <3>2. PICK U : U = {A("offset_x"), A("offset_y")}
        OBVIOUS
      <3>3. Lists(u, U)
        <4>1. A("offset_x") # A("offset_y")
          OBVIOUS
        <4> HIDE DEF A
        <4>2. Lists(<<A("offset_x"), A("offset_y")>>, {A("offset_x"), A("offset_y")})
          BY <4>1, ListsTwo
        <4> QED
          BY <3>1, <3>2, <4>2
      <3>4. T \cap U = {}
        <4>1. /\ A("offset_x") # A("") /\ A("offset_x") # A("width")
              /\ A("offset_x") # A("height") /\ A("offset_x") # A("stride")
          OBVIOUS
        <4>2. /\ A("offset_y") # A("") /\ A("offset_y") # A("width")
              /\ A("offset_y") # A("height") /\ A("offset_y") # A("stride")
          OBVIOUS
        <4> HIDE DEF A
        <4>3. A("offset_x") \notin T /\ A("offset_y") \notin T
          BY <2>2, <2>4, <4>1, <4>2
        <4> QED
          BY <3>2, <4>3
      <3>5. Lists((s \o When(padded, <<A("stride")>>)) \o u, T \cup U)
        BY <2>4, <3>3, <3>4, ListsConcat
      <3>6. Of(m.field, T \cup U)
        BY <2>4, <3>2 DEF Of
      <3>7. ParamsOf(m) = (s \o When(padded, <<A("stride")>>)) \o u
        BY <2>5, <2>6, <3>1 DEF When
      <3> QED
        BY <3>5, <3>6, <3>7
    <2>7. CASE ~mapping[m.field].crop
      <3>1. ParamsOf(m) = (s \o When(padded, <<A("stride")>>)) \o << >>
        BY <2>5, <2>7 DEF When
      <3>2. T \cap {} = {} /\ T \cup {} = T
        OBVIOUS
      <3>3. Lists((s \o When(padded, <<A("stride")>>)) \o << >>, T \cup {})
        BY <2>4, <3>2, ListsNone, ListsConcat
      <3> QED
        BY <2>4, <3>1, <3>2, <3>3
    <2> QED
      BY <2>6, <2>7
  <1> QED
    BY <1>1, <1>2 DEF FieldKinds, IsImage

(* The names a parameter can have: of a border start, or of a member.      *)
IsName(a) == \/ \E part : a = <<"bh", part>>
             \/ \E n \in 1..Len(members) : \E part : a = <<members[n].field, part>>

NamesOnce(s) == /\ IsInjective(s) /\ DOMAIN s = 1..Len(s)
                /\ Len(s) \in Nat /\ Len(s) > Len(members)
                /\ \A i \in 1..Len(s) : IsName(s[i])

LEMMA ParametersOnce ==
  ASSUME MembersInOrder, NEW t
  PROVE  NamesOnce(ParametersFor(t))
  <1>1. PICK N \in Nat \ {0} : N = Len(members)
    BY DEF MembersInOrder
  <1>2. /\ \A n \in 1..N : members[n].kind \in FieldKinds /\ members[n].field # "bh"
        /\ \A m, n \in 1..N : members[m].field = members[n].field => m = n
    BY <1>1 DEF MembersInOrder
  <1> DEFINE Lot(n) == CHOOSE A : Lists(ParamsOf(members[n]), A) /\ Of(members[n].field, A)
  <1>3. PICK F : F = [n \in 1..N |-> Lot(n)]
    OBVIOUS
  <1>4. ASSUME NEW n \in 1..N
        PROVE  Lists(ParamsOf(members[n]), F[n]) /\ Of(members[n].field, F[n])
    <2>1. \E A : Lists(ParamsOf(members[n]), A) /\ Of(members[n].field, A)
      BY <1>2, ParamsListed
    <2> QED
      BY <1>3, <2>1
  <1> HIDE DEF Lot
  <1>5. PICK q : q = [n \in 1..N |-> ParamsOf(members[n])]
    OBVIOUS
  <1>6. Sequences(q, N)
    <2>1. DOMAIN q = 1..N /\ Len(q) = N
      BY <1>5
    <2>2. \A n \in 1..N : q[n] \in Seq(F[n])
      BY <1>4, <1>5 DEF Lists
    <2> QED
      BY <2>1, <2>2 DEF Sequences
  <1>7. \A n \in 1..N : Lists(q[n], F[n]) /\ F[n] # {}
    BY <1>4, <1>5 DEF Of
  <1>8. ASSUME NEW m \in 1..N, NEW n \in 1..N, m # n
        PROVE  F[m] \cap F[n] = {}
    <2>1. members[m].field # members[n].field
      BY <1>2, <1>8
    <2>2. \A a \in F[m] : a[1] = members[m].field
      BY <1>4, OfFirst
    <2>3. \A a \in F[n] : a[1] = members[n].field
      BY <1>4, OfFirst
    <2> QED
      BY <2>1, <2>2, <2>3
  <1>9. Lists(FlattenSeq(q), Joined(F, N)) /\ Len(FlattenSeq(q)) >= N
    BY <1>6, <1>7, <1>8, FlattenLists
  <1>10. PICK B : Lists(BorderParams(t), B) /\ Of("bh", B)
    BY BorderListed
  <1>11. Joined(F, N) \cap B = {}
    <2>1. \A a \in B : a[1] = "bh"
      BY <1>10, OfFirst
    <2>2. \A n \in 1..N : \A a \in F[n] : a[1] # "bh"
      BY <1>2, <1>4, OfFirst
    <2> QED
      BY <2>1, <2>2 DEF Joined
  <1>12. PICK s : s = FlattenSeq(q) \o BorderParams(t)
    OBVIOUS
  <1>13. /\ Lists(s, Joined(F, N) \cup B)
         /\ Len(s) = Len(FlattenSeq(q)) + Len(BorderParams(t))
    BY <1>9, <1>10, <1>11, <1>12, ListsConcat
  <1>14. s = ParametersFor(t)
    BY <1>1, <1>5, <1>12 DEF ParametersFor
  <1>15. Len(s) > N
    <2>1. PICK a \in Nat : a = Len(FlattenSeq(q))
      BY <1>9, ListsOwn
    <2>2. PICK b \in Nat : b = Len(BorderParams(t))
      BY <1>10, ListsOwn
    <2>3. b # 0
      <3>1. PICK e : e \in B
        BY <1>10 DEF Of
      <3>2. \E n \in 1..b : BorderParams(t)[n] = e
        BY <1>10, <2>2, <3>1 DEF Lists
      <3> QED
        BY <3>2
    <2>4. Len(s) = a + b /\ a >= N
      BY <1>9, <1>13, <2>1, <2>2
    <2> QED
      BY <2>3, <2>4
  <1>16. \A a \in Joined(F, N) \cup B : IsName(a)
    <2>1. \A a \in B : IsName(a)
      BY <1>10 DEF IsName, Of
    <2>2. ASSUME NEW n \in 1..N, NEW a \in F[n]
          PROVE  IsName(a)
      BY <1>1, <1>4 DEF IsName, Of
    <2> QED
      BY <2>1, <2>2 DEF Joined
  <1>17. \A i \in 1..Len(s) : s[i] \in Joined(F, N) \cup B
    BY <1>13 DEF Lists
  <1>18. IsInjective(s) /\ DOMAIN s = 1..Len(s) /\ Len(s) \in Nat
    BY <1>13, ListsOwn
  <1>19. NamesOnce(s)
    BY <1>1, <1>15, <1>16, <1>17, <1>18 DEF NamesOnce
  <1> QED
    BY <1>14, <1>19

-----------------------------------------------------------------------------
(* The block: calcConfig.                                                  *)
LEMMA DivMod ==
  ASSUME NEW a \in Int, NEW b \in Nat \ {0}
  PROVE  /\ a \div b \in Int /\ a % b \in Nat
         /\ a % b < b /\ a = b * (a \div b) + (a % b)
  OBVIOUS

LEMMA OrderOfProducts ==
  ASSUME NEW b \in Nat \ {0}, NEW x \in Int, NEW y \in Int, x < y
  PROVE  b * x + b <= b * y
  <1>1. PICK d \in Nat : y = x + 1 + d
    <2>1. y - x - 1 \in Nat /\ y = x + 1 + (y - x - 1)
      OBVIOUS
    <2> QED
      BY <2>1
  <1>2. b * d \in Nat
    OBVIOUS
  <1>3. b * y = b * x + b + b * d
    BY <1>1
  <1> QED
    BY <1>2, <1>3

LEMMA QuotientIs ==
  ASSUME NEW a \in Int, NEW b \in Nat \ {0}, NEW k \in Int, NEW r \in Nat,
         r < b, a = b * k + r
  PROVE  a \div b = k /\ a % b = r
  <1>1. PICK j \in Int : j = a \div b
    BY DivMod
  <1>2. PICK s \in Nat : s = a % b
    BY DivMod
  <1>3. s < b /\ a = b * j + s
    BY <1>1, <1>2, DivMod
  <1>4. b * j \in Int /\ b * k \in Int
    OBVIOUS
  <1>5. ~(j < k)
    <2>1. SUFFICES ASSUME j < k PROVE FALSE
      OBVIOUS
    <2>2. b * j + b <= b * k
      BY <2>1, OrderOfProducts
    <2> QED
      BY <1>3, <1>4, <2>2
  <1>6. ~(k < j)
    <2>1. SUFFICES ASSUME k < j PROVE FALSE
      OBVIOUS
    <2>2. b * k + b <= b * j
      BY <2>1, OrderOfProducts
    <2> QED
      BY <1>3, <1>4, <2>2
  <1>7. j = k
    BY <1>5, <1>6
  <1> QED
    BY <1>1, <1>2, <1>3, <1>4, <1>7

LEMMA CeilDivIs ==
  ASSUME NEW a \in Nat, NEW b \in Nat \ {0}
  PROVE  /\ CeilDiv(a, b) \in Nat
         /\ a = 0 => CeilDiv(a, b) = 0
         /\ 0 < a /\ a <= b => CeilDiv(a, b) = 1
  <1>1. PICK m \in Int : m = -a /\ m <= 0
    OBVIOUS
  <1>2. PICK j \in Int : j = m \div b
    BY DivMod
  <1>3. PICK s \in Nat : s = m % b
    BY DivMod
  <1>4. s < b /\ m = b * j + s
    BY <1>2, <1>3, DivMod
  <1>5. CeilDiv(a, b) = -j
    BY <1>1, <1>2 DEF CeilDiv
  <1>6. b * j \in Int
    OBVIOUS
  <1>7. j <= 0
    <2>1. SUFFICES ASSUME 0 < j PROVE FALSE
      OBVIOUS
    <2>2. b * 0 + b <= b * j
      BY <2>1, OrderOfProducts
    <2> QED
      BY <1>1, <1>4, <1>6, <2>2
  <1>8. a = 0 => j = 0
    <2>1. ASSUME a = 0
          PROVE  m = b * 0 + 0
      BY <1>1, <2>1
    <2> QED
      BY <1>2, <2>1, QuotientIs
  <1>9. 0 < a /\ a <= b => j = -1
    <2>1. ASSUME 0 < a, a <= b
          PROVE  j = -1
      <3>1. b - a \in Nat /\ b - a < b /\ m = b * (-1) + (b - a)
        BY <1>1, <2>1
      <3>2. -1 \in Int
        OBVIOUS
      <3> QED
        BY <1>2, <3>1, <3>2, QuotientIs
    <2> QED
      BY <2>1
  <1> QED
    BY <1>5, <1>7, <1>8, <1>9

LEMMA FiniteRange ==
  ASSUME NEW f, IsFiniteSet(DOMAIN f)
  PROVE  IsFiniteSet({f[x] : x \in DOMAIN f})
  <1>1. PICK g : g = [x \in DOMAIN f |-> f[x]]
    OBVIOUS
  <1>2. PICK S : S = DOMAIN f
    OBVIOUS
  <1>3. PICK T : T = {f[x] : x \in DOMAIN f}
    OBVIOUS
  <1>4. g \in [S -> T] /\ \A t \in T : \E x \in S : g[x] = t
    BY <1>1, <1>2, <1>3
  <1>5. g \in Surjection(S, T)
    BY <1>4 DEF Surjection
  <1>6. IsFiniteSet(T)
    BY <1>2, <1>5, FS_Surjection
  <1> QED
    BY <1>3, <1>6

(* What the configuration relies on.                                       *)
Declared == /\ program \in Programs /\ target \in Targets
            /\ MembersInOrder /\ MappedInOrder

LEMMA FieldsDeclared ==
  ASSUME Declared
  PROVE  /\ IsFiniteSet(ImageFields)
         /\ \A f \in ImageFields : /\ mapping[f].sizeX \in Nat \ {0}
                                   /\ mapping[f].sizeY \in Nat \ {0}
  <1>1. PICK N \in Nat \ {0} : N = Len(members)
    BY DEF Declared, MembersInOrder
  <1>2. PICK I : I = {n \in 1..N : IsImage(members[n])}
    OBVIOUS
  <1>3. ImageFields = {members[n].field : n \in I}
    BY <1>1, <1>2 DEF ImageFields
  <1>4. IsFiniteSet(I)
    <2>1. I \in SUBSET (1..N) /\ IsFiniteSet(1..N)
      BY <1>2, FS_Interval
    <2> QED
      BY <2>1, FS_Subset
  <1>5. IsFiniteSet(ImageFields)
    <2>1. PICK f : f = [n \in I |-> members[n].field]
      OBVIOUS
    <2>2. DOMAIN f = I /\ ImageFields = {f[n] : n \in DOMAIN f}
      BY <1>3, <2>1
    <2> QED
      BY <1>4, <2>2, FiniteRange
  <1>6. ASSUME NEW n \in I
        PROVE  /\ mapping[members[n].field].sizeX \in Nat \ {0}
               /\ mapping[members[n].field].sizeY \in Nat \ {0}
    <2>1. n \in 1..N /\ IsImage(members[n])
      BY <1>2
    <2>2. mapping[members[n].field] = program.args[n]
      BY <1>1, <2>1 DEF Declared, MappedInOrder, IsMapped
    <2>3. n \in DOMAIN program.args /\ IsAccessor(program.args[n])
      BY <1>1, <2>1 DEF Declared, MembersInOrder
    <2>4. program.args[n].sizeX \in Nat \ {0} /\ program.args[n].sizeY \in Nat \ {0}
      BY <2>3, ProgramFacts DEF Declared
    <2> QED
      BY <2>2, <2>4
  <1> QED
    BY <1>3, <1>5, <1>6

LEMMA SizesAreNumbers ==
  ASSUME Declared
  PROVE  /\ MaxSizeX \in Nat /\ MaxSizeY \in Nat /\ RadiusX \in Nat /\ RadiusY \in Nat
         /\ target.ppt \in Nat \ {0}
  <1>1. PICK B : B = Bordered
    OBVIOUS
  <1>2. B \in SUBSET ImageFields /\ IsFiniteSet(B)
    <2>1. B \in SUBSET ImageFields
      BY <1>1 DEF Bordered
    <2>2. IsFiniteSet(ImageFields)
      BY FieldsDeclared
    <2>3. IsFiniteSet(B)
      BY <2>1, <2>2, FS_Subset
    <2> QED
      BY <2>1, <2>3
  <1>3. \A f \in B : mapping[f].sizeX \in Nat /\ mapping[f].sizeY \in Nat
    BY <1>2, FieldsDeclared
  <1>4. ASSUME NEW g, DOMAIN g = B, \A f \in B : g[f] \in Nat
        PROVE  Max({0} \cup {g[f] : f \in B}) \in Nat
    <2>1. PICK T : T = {g[f] : f \in DOMAIN g}
      OBVIOUS
    <2>2. IsFiniteSet(T)
      BY <1>2, <1>4, <2>1, FiniteRange
    <2>3. IsFiniteSet(T \cup {0})
      BY <2>2, FS_AddElement
    <2>4. PICK U : U = {0} \cup T
      OBVIOUS
    <2>5. U \subseteq Nat /\ IsFiniteSet(U) /\ U # {}
      <3>1. U = T \cup {0}
        BY <2>4
      <3>2. T \subseteq Nat
        BY <1>4, <2>1
      <3> QED
        BY <2>3, <3>1, <3>2
    <2>6. Max(U) \in U
      BY <2>5, Greatest
    <2>7. U = {0} \cup {g[f] : f \in B}
      BY <1>4, <2>1, <2>4
    <2> QED
      BY <2>5, <2>6, <2>7
  <1>5. MaxSizeX \in Nat
    <2>1. PICK g : g = [f \in B |-> mapping[f].sizeX]
      OBVIOUS
    <2>2. Max({0} \cup {g[f] : f \in B}) \in Nat
      BY <1>3, <1>4, <2>1
    <2>3. {g[f] : f \in B} = {mapping[f].sizeX : f \in B}
      BY <2>1
    <2> QED
      BY <1>1, <2>2, <2>3 DEF MaxSizeX
  <1>6. MaxSizeY \in Nat
    <2>1. PICK g : g = [f \in B |-> mapping[f].sizeY]
      OBVIOUS
    <2>2. Max({0} \cup {g[f] : f \in B}) \in Nat
      BY <1>3, <1>4, <2>1
    <2>3. {g[f] : f \in B} = {mapping[f].sizeY : f \in B}
      BY <2>1
    <2> QED
      BY <1>1, <2>2, <2>3 DEF MaxSizeY
  <1>7. RadiusX \in Nat /\ RadiusY \in Nat
    <2>1. \A a \in Nat : a \div 2 \in Nat
      OBVIOUS
    <2> QED
      BY <1>5, <1>6, <2>1 DEF RadiusX, RadiusY
  <1> QED
    BY <1>5, <1>6, <1>7, TargetsAssumption DEF Declared

(* A quotient of numbers of threads is a number of threads.                *)
LEMMA QuotientInRange ==
  ASSUME NEW n \in Nat \ {0}, NEW x \in 1..n
  PROVE  n \div x \in 1..n
  <1> x \in Nat \ {0}
    OBVIOUS
  <1>1. PICK q \in Int : q = n \div x
    BY DivMod
  <1>2. PICK r \in Nat : r = n % x
    BY DivMod
  <1>3. r < x /\ n = x * q + r
    BY <1>1, <1>2, DivMod
  <1>4. ~(q < 1)
    <2>1. SUFFICES ASSUME q < 1 PROVE FALSE
      OBVIOUS
    <2>2. x * q + x <= x * 1
      BY <2>1, OrderOfProducts
    <2>3. x * q \in Int /\ x * 1 = x
      OBVIOUS
    <2> QED
      BY <1>3, <2>2, <2>3
  <1>5. q <= n
    <2>1. q \in Nat \ {0}
      BY <1>4
    <2>2. q * 0 + q <= q * x
      BY <2>1, OrderOfProducts
    <2>3. q * x = x * q /\ x * q \in Int /\ q * 0 = 0
      OBVIOUS
    <2> QED
      BY <1>3, <2>2, <2>3
  <1> QED
    BY <1>1, <1>4, <1>5

(* The numbers of threads that are measured are whole warps.               *)
Warps(n) == n \div WarpSize

LEMMA CandidatesAreWarps ==
  ASSUME NEW n \in Candidates
  PROVE  /\ n \in Nat \ {0} /\ n <= MaxThreads /\ WarpSize \in 1..n
         /\ Warps(n) \in 1..(MaxThreads \div WarpSize) /\ n = WarpSize * Warps(n)
  <1> WarpSize \in Nat \ {0} /\ MaxThreads \in Nat
    BY ThreadsAssumption
  <1>1. PICK w \in Int : w = MaxThreads \div WarpSize
    BY DivMod
  <1>2. PICK r \in Nat : r = MaxThreads % WarpSize
    BY DivMod
  <1>3. MaxThreads = WarpSize * w + r
    BY <1>1, <1>2, DivMod
  <1>4. PICK k \in 1..w : n = WarpSize * k
    BY <1>1 DEF Candidates
  <1>5. WarpSize * k \in Int /\ WarpSize * w \in Int
    BY <1>4
  <1>6. WarpSize * 0 + WarpSize <= WarpSize * k
    BY <1>4, OrderOfProducts
  <1>7. WarpSize * k <= WarpSize * w
    <2>1. CASE k = w
      BY <1>5, <2>1
    <2>2. CASE k # w
      <3>1. WarpSize * k + WarpSize <= WarpSize * w
        BY <1>4, <2>2, OrderOfProducts
      <3> QED
        BY <1>5, <3>1
    <2> QED
      BY <2>1, <2>2
  <1>8. Warps(n) = k
    <2>1. 0 \in Nat /\ 0 < WarpSize /\ n = WarpSize * k + 0
      BY <1>4, <1>5
    <2>2. n \in Int /\ k \in Int
      BY <1>4, <1>5
    <2> QED
      BY <2>1, <2>2, QuotientIs DEF Warps
  <1> QED
    BY <1>1, <1>3, <1>4, <1>5, <1>6, <1>7, <1>8

LEMMA SmallestBlock ==
  ASSUME Declared
  PROVE  /\ OptX \in Nat \ {0}
         /\ RadiusX <= WarpSize => OptX = WarpSize
  <1> WarpSize \in Nat \ {0}
    BY ThreadsAssumption
  <1>1. PICK c \in Nat : c = CeilDiv(RadiusX, WarpSize)
    BY SizesAreNumbers, CeilDivIs
  <1>2. PICK T : T = {1, c}
    OBVIOUS
  <1>3. T \subseteq Nat /\ T # {} /\ IsFiniteSet(T)
    <2>1. IsFiniteSet({1}) /\ IsFiniteSet({1} \cup {c})
      BY FS_Singleton, FS_AddElement
    <2>2. T = {1} \cup {c}
      BY <1>2
    <2> QED
      BY <1>2, <2>1, <2>2
  <1>4. PICK m : m = Max(T)
    OBVIOUS
  <1>5. m \in T /\ \A k \in T : m >= k
    BY <1>3, <1>4, Greatest
  <1>6. m \in Nat \ {0} /\ (c <= 1 => m = 1)
    BY <1>2, <1>5
  <1>7. OptX = WarpSize * m
    BY <1>1, <1>2, <1>4 DEF OptX
  <1>8. OptX \in Nat \ {0}
    <2>1. WarpSize * 0 + WarpSize <= WarpSize * m
      BY <1>6, OrderOfProducts
    <2>2. WarpSize * m \in Int /\ WarpSize * 0 = 0
      BY <1>6
    <2> QED
      BY <1>7, <2>1, <2>2
  <1>9. ASSUME RadiusX <= WarpSize
        PROVE  OptX = WarpSize
    <2>1. c <= 1
      <3>1. RadiusX \in Nat
        BY SizesAreNumbers
      <3>2. RadiusX = 0 => c = 0
        BY <1>1, <3>1, CeilDivIs
      <3>3. RadiusX # 0 => c = 1
        <4>1. RadiusX # 0 => 0 < RadiusX
          BY <3>1
        <4> QED
          BY <1>1, <1>9, <3>1, <4>1, CeilDivIs
      <3> QED
        BY <3>2, <3>3
    <2>2. m = 1
      BY <1>6, <2>1
    <2> QED
      BY <1>7, <2>2
  <1> QED
    BY <1>8, <1>9

(* A block of n threads, whatever shape.                                   *)
ShapeOf(t, n) == t.x \in 1..n /\ t.y = n \div t.x

LEMMA ShapesAre ==
  ASSUME Declared, NEW n \in Candidates
  PROVE  ShapeOf(FirstShape(n), n) /\ ShapeOf(NextShape(n), n)
  <1>1. n \in Nat \ {0} /\ WarpSize \in 1..n
    BY CandidatesAreWarps
  <1>2. Widest(n) \in 1..n
    <2>1. OptX \in Nat \ {0}
      BY SmallestBlock
    <2> QED
      BY <1>1, <2>1 DEF Widest
  <1>3. n \in 1..n
    BY <1>1
  <1> QED
    BY <1>1, <1>2, <1>3 DEF ShapeOf, FirstShape, NextShape

LEMMA ShapeInRange ==
  ASSUME NEW n \in Candidates, NEW t, ShapeOf(t, n)
  PROVE  t.x \in 1..MaxThreads /\ t.y \in 1..MaxThreads
  <1>1. n \in Nat \ {0} /\ n <= MaxThreads /\ MaxThreads \in Nat
    BY CandidatesAreWarps, ThreadsAssumption
  <1>2. t.x \in 1..n /\ t.y = n \div t.x
    BY DEF ShapeOf
  <1>3. t.y \in 1..n
    BY <1>1, <1>2, QuotientInRange
  <1> QED
    BY <1>1, <1>2, <1>3

(* The measured configuration with the highest occupancy and, among these, *)
(* the fewest threads.                                                     *)
Best(occ, n) ==
  n \in DOMAIN occ /\ \A m \in DOMAIN occ \ {n} :
    occ[m] < occ[n] \/ (occ[m] = occ[n] /\ n < m)

LEMMA FirstIs ==
  ASSUME NEW occ \in [Candidates -> Occupancies], DOMAIN occ # {}
  PROVE  Best(occ, First(occ))
  <1> \A n \in DOMAIN occ : occ[n] \in Occupancies /\ occ[n] \in Nat /\ n \in Nat
    BY CandidatesAreWarps, ThreadsAssumption
  <1>1. PICK T : T = {occ[n] : n \in DOMAIN occ}
    OBVIOUS
  <1>2. T \subseteq Nat /\ T # {} /\ IsFiniteSet(T)
    <2>1. T \in SUBSET Occupancies /\ T # {}
      BY <1>1
    <2> QED
      BY <2>1, FS_Subset, ThreadsAssumption
  <1>3. PICK top : top = Max(T)
    OBVIOUS
  <1>4. top \in T /\ \A k \in T : top >= k
    BY <1>2, <1>3, Greatest
  <1>5. PICK U : U = {n \in DOMAIN occ : occ[n] = top}
    OBVIOUS
  <1>6. U \subseteq Nat /\ U # {}
    BY <1>1, <1>4, <1>5
  <1>7. PICK u : u = Min(U)
    OBVIOUS
  <1>8. u \in U /\ \A k \in U : u <= k
    BY <1>6, <1>7, Least
  <1>9. Best(occ, u)
    <2>1. u \in DOMAIN occ /\ occ[u] = top
      BY <1>5, <1>8
    <2>2. ASSUME NEW m \in DOMAIN occ \ {u}
          PROVE  occ[m] < occ[u] \/ (occ[m] = occ[u] /\ u < m)
      <3>1. occ[m] \in T /\ occ[m] \in Nat /\ top \in Nat
        BY <1>1, <1>2, <1>4
      <3>2. occ[m] <= top
        BY <1>4, <3>1
      <3>3. occ[m] = top => u < m
        <4>1. occ[m] = top => u <= m
          BY <1>5, <1>8
        <4> QED
          BY <2>1, <2>2, <4>1
      <3> QED
        BY <2>1, <3>1, <3>2, <3>3
    <2> QED
      BY <2>1, <2>2 DEF Best
  <1>10. First(occ) = CHOOSE n \in DOMAIN occ : Best(occ, n)
    BY DEF First, Best
  <1>11. u \in DOMAIN occ
    BY <1>9 DEF Best
  <1> QED
    BY <1>9, <1>10, <1>11

(* The look-ahead runs over the numbers of warps, from one to the maximum. *)
BestUpTo(f, t, ties, w) ==
  f = [k \in 0..w |->
         IF k = 0 THEN t
         ELSE IF WarpSize * k \in ties THEN Fewer(f[k - 1], WarpSize * k) ELSE f[k - 1]]

LEMMA BestExists ==
  ASSUME NEW t, NEW ties, NEW w \in Nat
  PROVE  \E f : BestUpTo(f, t, ties, w)
<1> DEFINE S == {k \in Nat : \E f : BestUpTo(f, t, ties, k)}
<1>1. 0 \in S
  <2>1. PICK f : f = [k \in 0..0 |-> t]
    OBVIOUS
  <2>2. f = [k \in 0..0 |->
         IF k = 0 THEN t
         ELSE IF WarpSize * k \in ties THEN Fewer(f[k - 1], WarpSize * k) ELSE f[k - 1]]
    <3>1. \A k \in 0..0 : k = 0
      OBVIOUS
    <3> QED
      BY <2>1, <3>1
  <2> QED
    BY <2>2 DEF BestUpTo
<1>2. ASSUME NEW j \in Nat, j \in S
      PROVE  j + 1 \in S
  <2>1. PICK f : BestUpTo(f, t, ties, j)
    BY <1>2
  <2>2. PICK e : e = IF WarpSize * (j + 1) \in ties
                     THEN Fewer(f[j], WarpSize * (j + 1)) ELSE f[j]
    OBVIOUS
  <2>3. PICK g : g = [k \in 0..(j + 1) |-> IF k = j + 1 THEN e ELSE f[k]]
    OBVIOUS
  <2>4. \A k \in 0..j :
          f[k] = IF k = 0 THEN t
                 ELSE IF WarpSize * k \in ties THEN Fewer(f[k - 1], WarpSize * k) ELSE f[k - 1]
    BY <2>1 DEF BestUpTo
  <2>5. ASSUME NEW k \in 0..(j + 1)
        PROVE  g[k] = IF k = 0 THEN t
                      ELSE IF WarpSize * k \in ties THEN Fewer(g[k - 1], WarpSize * k)
                      ELSE g[k - 1]
    <3>1. k # 0 => g[k - 1] = f[k - 1]
      BY <2>3
    <3>2. CASE k = j + 1
      <4>1. k # 0 /\ k - 1 = j /\ g[k] = e
        BY <2>3, <3>2
      <4> QED
        BY <2>2, <3>1, <3>2, <4>1
    <3>3. CASE k # j + 1
      <4>1. k \in 0..j /\ g[k] = f[k]
        BY <2>3, <3>3
      <4> QED
        BY <2>4, <3>1, <4>1
    <3> QED
      BY <3>2, <3>3
  <2>6. g = [k \in 0..(j + 1) |-> g[k]]
    BY <2>3
  <2>7. BestUpTo(g, t, ties, j + 1)
    BY <2>5, <2>6 DEF BestUpTo
  <2> QED
    BY <2>7
<1>3. Nat \subseteq S
  <2> HIDE DEF S
  <2> QED
    BY <1>1, <1>2, InductionOnNat
<1> QED
  BY <1>3

(* The shapes that the look-ahead chooses from, and what it has seen.      *)
IsShape(s) == \E n \in Candidates : ShapeOf(s, n)

LEMMA BlocksAreNumbers ==
  ASSUME Declared, NEW s, IsShape(s)
  PROVE  BorderBlocks(s) \in Nat
  <1>1. s.x \in Nat \ {0} /\ s.y \in Nat \ {0}
    BY ShapeInRange DEF IsShape
  <1>2. PICK p : p = s.y * target.ppt
    OBVIOUS
  <1>3. p \in Nat \ {0}
    <2>1. target.ppt \in Nat \ {0}
      BY SizesAreNumbers
    <2>2. PICK a \in Nat \ {0} : a = s.y
      BY <1>1
    <2>3. PICK b \in Nat \ {0} : b = target.ppt
      BY <2>1
    <2>4. a * 0 + a <= a * b
      BY OrderOfProducts
    <2>5. a * b \in Int /\ a * 0 = 0
      OBVIOUS
    <2> QED
      BY <1>2, <2>2, <2>3, <2>4, <2>5
  <1>4. CeilDiv(RadiusX, s.x) \in Nat /\ CeilDiv(RadiusY, p) \in Nat
    BY <1>1, <1>3, SizesAreNumbers, CeilDivIs
  <1> QED
    BY <1>2, <1>4 DEF BorderBlocks

(* s is t or the shape of a tie, and no worse than t or the first k ties.  *)
BestSoFar(s, t, ties, k) ==
  /\ s = t \/ \E m \in ties : s = NextShape(m)
  /\ BorderBlocks(s) <= BorderBlocks(t)
  /\ \A i \in 1..k : WarpSize * i \in ties =>
       BorderBlocks(s) <= BorderBlocks(NextShape(WarpSize * i))

LEMMA FewerIsBetter ==
  ASSUME Declared, NEW t, IsShape(t), NEW ties \in SUBSET Candidates,
         NEW s, NEW k \in Nat, BestSoFar(s, t, ties, k), WarpSize * (k + 1) \in ties
  PROVE  BestSoFar(Fewer(s, WarpSize * (k + 1)), t, ties, k + 1)
  <1>1. PICK m : m = WarpSize * (k + 1)
    OBVIOUS
  <1>2. m \in ties /\ m \in Candidates
    BY <1>1
  <1>3. PICK u : u = NextShape(m)
    OBVIOUS
  <1>4. PICK b : b = Fewer(s, m)
    OBVIOUS
  <1>5. \A n \in ties : IsShape(NextShape(n))
    BY ShapesAre DEF IsShape
  <1>6. s = t \/ \E n \in ties : s = NextShape(n)
    BY DEF BestSoFar
  <1>7. IsShape(s) /\ IsShape(u)
    BY <1>2, <1>3, <1>5, <1>6
  <1>8. /\ BorderBlocks(s) \in Nat /\ BorderBlocks(u) \in Nat /\ BorderBlocks(t) \in Nat
        /\ \A n \in ties : BorderBlocks(NextShape(n)) \in Nat
    BY <1>5, <1>7, BlocksAreNumbers
  <1>9. b = IF BorderBlocks(u) < BorderBlocks(s) THEN u ELSE s
    BY <1>3, <1>4 DEF Fewer
  <1>10. BorderBlocks(b) \in Nat /\ BorderBlocks(b) <= BorderBlocks(s)
         /\ BorderBlocks(b) <= BorderBlocks(u)
    BY <1>8, <1>9
  <1>11. b = t \/ \E n \in ties : b = NextShape(n)
    BY <1>2, <1>3, <1>6, <1>9
  <1>12. BorderBlocks(b) <= BorderBlocks(t)
    <2>1. BorderBlocks(s) <= BorderBlocks(t)
      BY DEF BestSoFar
    <2> QED
      BY <1>8, <1>10, <2>1
  <1>13. ASSUME NEW i \in 1..(k + 1), WarpSize * i \in ties
         PROVE  BorderBlocks(b) <= BorderBlocks(NextShape(WarpSize * i))
    <2>1. CASE i = k + 1
      BY <1>1, <1>3, <1>10, <2>1
    <2>2. CASE i # k + 1
      <3>1. i \in 1..k
        BY <2>2
      <3>2. PICK v : v = BorderBlocks(NextShape(WarpSize * i))
        OBVIOUS
      <3>3. BorderBlocks(s) <= v
        BY <1>13, <3>1, <3>2 DEF BestSoFar
      <3>4. v \in Nat
        BY <1>8, <1>13, <3>2
      <3> QED
        BY <1>8, <1>10, <3>2, <3>3, <3>4
    <2> QED
      BY <2>1, <2>2
  <1>14. BestSoFar(b, t, ties, k + 1)
    BY <1>11, <1>12, <1>13 DEF BestSoFar
  <1> QED
    BY <1>1, <1>4, <1>14

LEMMA BestIsBest ==
  ASSUME Declared, NEW t, IsShape(t), NEW ties \in SUBSET Candidates,
         NEW w \in Nat, NEW f, BestUpTo(f, t, ties, w)
  PROVE  BestSoFar(f[w], t, ties, w)
  <1> DEFINE S == {k \in Nat : k \in 0..w => BestSoFar(f[k], t, ties, k)}
  <1>1. \A k \in 0..w :
          f[k] = IF k = 0 THEN t
                 ELSE IF WarpSize * k \in ties THEN Fewer(f[k - 1], WarpSize * k) ELSE f[k - 1]
    BY DEF BestUpTo
  <1>2. BestSoFar(f[0], t, ties, 0)
    <2>1. f[0] = t
      BY <1>1
    <2>2. BorderBlocks(t) \in Nat
      BY BlocksAreNumbers
    <2>3. BorderBlocks(t) <= BorderBlocks(t)
      BY <2>2
    <2>4. BestSoFar(t, t, ties, 0)
      BY <2>3 DEF BestSoFar
    <2> QED
      BY <2>1, <2>4
  <1>3. ASSUME NEW k \in Nat, k \in S
        PROVE  k + 1 \in S
    <2>1. SUFFICES ASSUME k + 1 \in 0..w PROVE BestSoFar(f[k + 1], t, ties, k + 1)
      OBVIOUS
    <2>2. BestSoFar(f[k], t, ties, k)
      BY <1>3, <2>1
    <2>3. PICK j : j = k + 1
      OBVIOUS
    <2>4. j \in 0..w /\ j # 0 /\ j - 1 = k
      BY <2>1, <2>3
    <2>5. f[j] = IF WarpSize * j \in ties THEN Fewer(f[k], WarpSize * j) ELSE f[k]
      BY <1>1, <2>4
    <2>6. CASE WarpSize * j \in ties
      <3>1. f[j] = Fewer(f[k], WarpSize * (k + 1)) /\ WarpSize * (k + 1) \in ties
        BY <2>3, <2>5, <2>6
      <3>2. BestSoFar(Fewer(f[k], WarpSize * (k + 1)), t, ties, k + 1)
        BY <2>2, <3>1, FewerIsBetter
      <3> QED
        BY <2>3, <3>1, <3>2
    <2>7. CASE WarpSize * j \notin ties
      <3>1. f[j] = f[k]
        BY <2>5, <2>7
      <3>2. \A i \in 1..(k + 1) : WarpSize * i \in ties => i \in 1..k
        BY <2>3, <2>7
      <3>3. BestSoFar(f[k], t, ties, k + 1)
        BY <2>2, <3>2 DEF BestSoFar
      <3> QED
        BY <2>3, <3>1, <3>3
    <2> QED
      BY <2>6, <2>7
  <1>4. 0 \in S
    BY <1>2
  <1>5. Nat \subseteq S
    <2> HIDE DEF S
    <2> QED
      BY <1>3, <1>4, InductionOnNat
  <1>6. w \in S /\ w \in 0..w
    BY <1>5
  <1> QED
    BY <1>6

(* The configurations as good as the first one, and what the look-ahead    *)
(* returns for a shape t of the first one.                                 *)
Ties(occ) == {n \in DOMAIN occ \ {First(occ)} : occ[n] = occ[First(occ)]}

Looked(s, t, occ) ==
  /\ s = t \/ \E m \in Ties(occ) : s = NextShape(m)
  /\ \/ /\ BorderBlocks(s) <= BorderBlocks(t)
        /\ \A m \in Ties(occ) : BorderBlocks(s) <= BorderBlocks(NextShape(m))
     \/ s = t /\ MaxSizeY <= 1 /\ t.x = OptX

LEMMA LookAheadIs ==
  ASSUME Declared, NEW occ \in [Candidates -> Occupancies], NEW t, IsShape(t)
  PROVE  Looked(LookAhead(t, occ), t, occ)
  <1>1. PICK w : w = MaxThreads \div WarpSize
    OBVIOUS
  <1>2. w \in Nat
    <2>1. WarpSize \in Nat \ {0} /\ MaxThreads \in Nat
      BY ThreadsAssumption
    <2> QED
      BY <1>1, <2>1
  <1>3. PICK ties : ties = Ties(occ)
    OBVIOUS
  <1>4. ties \in SUBSET Candidates
    BY <1>3 DEF Ties
  <1>5. PICK f : f = CHOOSE g : BestUpTo(g, t, ties, w)
    OBVIOUS
  <1>6. BestUpTo(f, t, ties, w)
    BY <1>2, <1>5, BestExists
  <1>7. LookAhead(t, occ) = IF MaxSizeY > 1 \/ t.x # OptX \/ t.y # OptY THEN f[w] ELSE t
    BY <1>1, <1>3, <1>5 DEF LookAhead, BestUpTo, Ties
  <1>8. BestSoFar(f[w], t, ties, w)
    BY <1>2, <1>4, <1>6, BestIsBest
  <1>9. ASSUME NEW m \in ties
        PROVE  BorderBlocks(f[w]) <= BorderBlocks(NextShape(m))
    <2>1. PICK k : k = Warps(m)
      OBVIOUS
    <2>2. k \in 1..w /\ m = WarpSize * k
      BY <1>1, <1>4, <2>1, CandidatesAreWarps
    <2> QED
      BY <1>8, <2>2 DEF BestSoFar
  <1>10. MaxSizeY > 1 \/ MaxSizeY <= 1
    BY SizesAreNumbers
  <1> QED
    BY <1>3, <1>7, <1>8, <1>9, <1>10 DEF Looked, BestSoFar

LEMMA ConfigIs ==
  ASSUME Declared, NEW occ \in [Candidates -> Occupancies], DOMAIN occ # {},
         ~target.userConfig
  PROVE  /\ Best(occ, First(occ)) /\ First(occ) \in Candidates
         /\ Ties(occ) \subseteq Candidates
         /\ Looked(CalcConfig(occ), FirstShape(First(occ)), occ)
  <1>1. Best(occ, First(occ))
    BY FirstIs
  <1>2. First(occ) \in Candidates
    BY <1>1 DEF Best
  <1>3. Looked(LookAhead(FirstShape(First(occ)), occ), FirstShape(First(occ)), occ)
    <2>1. IsShape(FirstShape(First(occ)))
      BY <1>2, ShapesAre DEF IsShape
    <2> QED
      BY <2>1, LookAheadIs
  <1> QED
    BY <1>1, <1>2, <1>3 DEF CalcConfig, Ties

LEMMA ConfigInRange ==
  ASSUME Declared, NEW occ, occ = << >> \/ occ \in [Candidates -> Occupancies]
  PROVE  CalcConfig(occ).x \in 1..MaxThreads /\ CalcConfig(occ).y \in 1..MaxThreads
  <1>1. CASE DOMAIN occ = {} \/ target.userConfig
    BY <1>1, ThreadsAssumption DEF CalcConfig
  <1>2. CASE ~(DOMAIN occ = {} \/ target.userConfig)
    <2>1. occ \in [Candidates -> Occupancies]
      <3>1. DOMAIN << >> = {}
        OBVIOUS
      <3> QED
        BY <1>2, <3>1
    <2>2. PICK s : s = CalcConfig(occ)
      OBVIOUS
    <2>3. PICK t : t = FirstShape(First(occ))
      OBVIOUS
    <2>4. First(occ) \in Candidates /\ Ties(occ) \subseteq Candidates /\ Looked(s, t, occ)
      BY <1>2, <2>1, <2>2, <2>3, ConfigIs
    <2>5. s = t \/ \E m \in Ties(occ) : s = NextShape(m)
      BY <2>4 DEF Looked
    <2>6. \E n \in Candidates : ShapeOf(s, n)
      BY <2>3, <2>4, <2>5, ShapesAre
    <2> QED
      BY <2>2, <2>6, ShapeInRange
  <1> QED
    BY <1>1, <1>2

(* For windows within a warp's width on each side, every shape is one warp *)
(* wide, but for the first of a kernel without rows.                       *)
OneWarp(n) == [x |-> WarpSize, y |-> Warps(n)]

LEMMA NarrowShapes ==
  ASSUME Declared, RadiusX <= WarpSize, NEW n \in Candidates
  PROVE  /\ NextShape(n) = OneWarp(n)
         /\ \/ FirstShape(n) = OneWarp(n)
            \/ FirstShape(n) = [x |-> n, y |-> 1] /\ ~UseShared /\ MaxSizeY <= 1
  <1>1. Widest(n) = WarpSize
    BY SmallestBlock DEF Widest
  <1>2. n \div n = 1
    <2>1. n \in Nat \ {0}
      BY CandidatesAreWarps
    <2>2. 0 \in Nat /\ 0 < n /\ n = n * 1 + 0 /\ 1 \in Int /\ n \in Int
      BY <2>1
    <2> QED
      BY <2>1, <2>2, QuotientIs
  <1>3. MaxSizeY > 1 \/ MaxSizeY <= 1
    BY SizesAreNumbers
  <1> QED
    BY <1>1, <1>2, <1>3 DEF NextShape, FirstShape, OneWarp, Warps

LEMMA RowsNeedNoMore ==
  ASSUME Declared, RadiusX <= WarpSize, MaxSizeY <= 1,
         NEW n \in Candidates, NEW m \in Candidates
  PROVE  /\ BorderBlocks([x |-> n, y |-> 1]) = BorderBlocks(OneWarp(m))
         /\ BorderBlocks(OneWarp(n)) = BorderBlocks(OneWarp(m))
  <1> WarpSize \in Nat \ {0}
    BY ThreadsAssumption
  <1>1. \A y, z : BorderBlocks([x |-> WarpSize, y |-> y]) = BorderBlocks([x |-> WarpSize, y |-> z])
    BY DEF BorderBlocks
  <1>2. RadiusX \in Nat /\ n \in Nat \ {0} /\ WarpSize <= n
    BY SizesAreNumbers, CandidatesAreWarps
  <1>3. CeilDiv(RadiusX, n) = CeilDiv(RadiusX, WarpSize)
    <2>1. CASE RadiusX = 0
      BY <1>2, <2>1, CeilDivIs
    <2>2. CASE RadiusX # 0
      <3>1. 0 < RadiusX /\ RadiusX <= n
        BY <1>2, <2>2
      <3>2. CeilDiv(RadiusX, n) = 1
        BY <1>2, <3>1, CeilDivIs
      <3>3. CeilDiv(RadiusX, WarpSize) = 1
        BY <1>2, <3>1, CeilDivIs
      <3> QED
        BY <3>2, <3>3
    <2> QED
      BY <2>1, <2>2
  <1>4. BorderBlocks([x |-> n, y |-> 1]) = BorderBlocks(OneWarp(m))
    BY <1>3 DEF BorderBlocks, OneWarp
  <1> QED
    BY <1>1, <1>4 DEF OneWarp

(* The sum over no images, by the recursive function that defines it.      *)
SumsUp(g, f, S) ==
  g = [s \in SUBSET S |->
         IF s = {} THEN 0
         ELSE LET x == CHOOSE x \in s : TRUE IN f[x] + g[s \ {x}]]

LEMMA NothingStaged ==
  ASSUME NEW f, DOMAIN f = {}
  PROVE  SumFunction(f) = 0
  <1>1. SumFunction(f) = (CHOOSE g : SumsUp(g, f, DOMAIN f))[DOMAIN f]
    BY DEF SumFunction, SumFunctionOnSet, FoldFunctionOnSet, MapThenFoldSet, SumsUp
  <1>2. \E g : SumsUp(g, f, {})
    <2>1. PICK g : g = [s \in SUBSET {} |-> 0]
      OBVIOUS
    <2>2. \A s \in SUBSET {} : s = {}
      OBVIOUS
    <2>3. g = [s \in SUBSET {} |->
                 IF s = {} THEN 0
                 ELSE LET x == CHOOSE x \in s : TRUE IN f[x] + g[s \ {x}]]
      BY <2>1, <2>2
    <2> QED
      BY <2>3 DEF SumsUp
  <1>3. PICK g : g = CHOOSE h : SumsUp(h, f, {})
    OBVIOUS
  <1>4. SumsUp(g, f, {})
    BY <1>2, <1>3
  <1>5. g[{}] = 0
    BY <1>4, SMT DEF SumsUp
  <1> QED
    BY <1>1, <1>3, <1>5

(* The tiles of the compiled kernel are those that were measured.          *)
LEMMA TilesFit ==
  ASSUME WarpSize = TileWidth, NEW n \in Candidates
  PROVE  TileSize(OneWarp(n)) = SharedEstimate(n)
  <1>1. ASSUME NEW o
        PROVE  TileEstimate(o, n)
                 = (OneWarp(n).x * (IF o.sizeX > 1 THEN 3 ELSE 1) + 1)
                     * CeilDiv(target.ppt * OneWarp(n).y + o.sizeY - 1, OneWarp(n).y)
                     * OneWarp(n).y
    <2>1. OneWarp(n).x = TileWidth /\ OneWarp(n).y = n \div TileWidth
      BY DEF OneWarp, Warps
    <2> QED
      BY <2>1 DEF TileEstimate
  <1>2. [f \in Staged |-> TileEstimate(mapping[f], n)]
         = [f \in Staged |->
             (OneWarp(n).x * (IF mapping[f].sizeX > 1 THEN 3 ELSE 1) + 1)
               * CeilDiv(target.ppt * OneWarp(n).y + mapping[f].sizeY - 1, OneWarp(n).y)
               * OneWarp(n).y]
    BY <1>1
  <1> QED
    BY <1>2 DEF TileSize, SharedEstimate

LEMMA SharedIsUsed ==
  ASSUME NEW n \in Candidates, Staged # {}
  PROVE  UseShared /\ SharedEstimate(n) <= MaxShared
  <1>1. PICK k \in 1..(MaxThreads \div WarpSize) : n = WarpSize * k
    BY DEF Candidates
  <1>2. n % TileWidth = 0 /\ SharedEstimate(n) <= MaxShared
    BY DEF Candidates
  <1> QED
    BY <1>1, <1>2 DEF UseShared

LEMMA ConfigFits ==
  ASSUME Declared, measured \in [Candidates -> Occupancies], threads = CalcConfig(measured)
  PROVE  ConfigurationFits
  <1>1. SUFFICES ASSUME DOMAIN measured # {}, ~target.userConfig, RadiusX <= WarpSize,
                        WarpSize = TileWidth
                 PROVE  /\ threads.x * threads.y \in DOMAIN measured
                        /\ TileSize(threads) <= MaxShared
                        /\ \A m \in DOMAIN measured :
                             /\ measured[m] <= measured[threads.x * threads.y]
                             /\ measured[m] = measured[threads.x * threads.y] =>
                                  BorderBlocks(threads)
                                    <= BorderBlocks([x |-> WarpSize, y |-> m \div WarpSize])
    BY DEF ConfigurationFits
  <1>2. PICK first : first = First(measured)
    OBVIOUS
  <1>3. PICK t : t = FirstShape(first)
    OBVIOUS
  <1>4. PICK ties : ties = Ties(measured)
    OBVIOUS
  <1>5. /\ Best(measured, first) /\ first \in Candidates /\ first \in DOMAIN measured
        /\ ties \subseteq Candidates /\ Looked(threads, t, measured)
    BY <1>1, <1>2, <1>3, <1>4, ConfigIs DEF Best
  <1>6. ASSUME NEW m \in ties
        PROVE  m \in DOMAIN measured /\ m # first /\ measured[m] = measured[first]
    BY <1>2, <1>4 DEF Ties
  <1>7. threads = t \/ \E m \in ties : threads = OneWarp(m)
    <2>1. \A m \in ties : NextShape(m) = OneWarp(m)
      BY <1>1, <1>5, NarrowShapes
    <2> QED
      BY <1>4, <1>5, <2>1 DEF Looked
  <1>8. \/ t = OneWarp(first)
        \/ t = [x |-> first, y |-> 1] /\ ~UseShared /\ MaxSizeY <= 1
    BY <1>1, <1>3, <1>5, NarrowShapes
  <1>9. \A m \in DOMAIN measured : measured[m] \in Nat /\ m \in Candidates
    BY ThreadsAssumption
  <1>10. ASSUME NEW m \in Candidates
         PROVE  /\ OneWarp(m).x * OneWarp(m).y = m
                /\ IsShape(OneWarp(m))
                /\ OneWarp(m) = [x |-> WarpSize, y |-> m \div WarpSize]
    <2>1. m = WarpSize * Warps(m)
      BY CandidatesAreWarps
    <2>2. IsShape(OneWarp(m))
      BY <1>1, NarrowShapes, ShapesAre DEF IsShape
    <2> QED
      BY <2>1, <2>2 DEF OneWarp, Warps
  <1>11. PICK n : n = threads.x * threads.y
    OBVIOUS
  <1>12. n \in DOMAIN measured /\ measured[n] = measured[first]
    <2>1. CASE threads = t
      <3>1. n = first
        <4>1. CASE t = OneWarp(first)
          BY <1>5, <1>10, <1>11, <2>1, <4>1
        <4>2. CASE t = [x |-> first, y |-> 1]
          <5>1. first \in Nat
            BY <1>5, CandidatesAreWarps
          <5> QED
            BY <1>11, <2>1, <4>2, <5>1
        <4> QED
          BY <1>8, <4>1, <4>2
      <3> QED
        BY <1>5, <3>1
    <2>2. CASE \E m \in ties : threads = OneWarp(m)
      <3>1. PICK m \in ties : threads = OneWarp(m)
        BY <2>2
      <3>2. n = m
        BY <1>5, <1>10, <1>11, <3>1
      <3> QED
        BY <1>6, <3>2
    <2> QED
      BY <1>7, <2>1, <2>2
  <1>13. TileSize(threads) <= MaxShared
    <2>1. CASE Staged = {}
      <3>1. TileSize(threads) = 0
        BY <2>1, NothingStaged DEF TileSize
      <3> QED
        BY <3>1, ThreadsAssumption
    <2>2. CASE Staged # {}
      <3>1. UseShared
        BY <1>5, <2>2, SharedIsUsed
      <3>2. PICK m \in Candidates : threads = OneWarp(m)
        BY <1>5, <1>7, <1>8, <3>1
      <3>3. TileSize(threads) = SharedEstimate(m) /\ SharedEstimate(m) <= MaxShared
        BY <1>1, <2>2, <3>2, TilesFit, SharedIsUsed
      <3> QED
        BY <3>3
    <2> QED
      BY <2>1, <2>2
  <1>14. ASSUME NEW m \in DOMAIN measured
         PROVE  measured[m] <= measured[n]
    <2>1. m = first \/ measured[m] < measured[first] \/ measured[m] = measured[first]
      BY <1>5 DEF Best
    <2>2. measured[m] \in Nat /\ measured[first] \in Nat
      BY <1>5, <1>9
    <2> QED
      BY <1>12, <2>1, <2>2
  <1>15. ASSUME NEW m \in DOMAIN measured, measured[m] = measured[n]
         PROVE  BorderBlocks(threads) <= BorderBlocks(OneWarp(m))
    <2>1. m = first \/ m \in ties
      BY <1>2, <1>4, <1>12, <1>15 DEF Ties
    <2>2. m \in Candidates /\ first \in Candidates
      BY <1>5, <1>9
    <2>3. IsShape(t)
      BY <1>3, <1>5, ShapesAre DEF IsShape
    <2>4. IsShape(threads)
      BY <1>5, <1>7, <1>10, <2>3
    <2>5. /\ BorderBlocks(threads) \in Nat /\ BorderBlocks(t) \in Nat
          /\ BorderBlocks(OneWarp(m)) \in Nat /\ BorderBlocks(OneWarp(first)) \in Nat
      BY <1>10, <2>2, <2>3, <2>4, BlocksAreNumbers
    <2>6. BorderBlocks(t) <= BorderBlocks(OneWarp(first))
      <3>1. CASE t = OneWarp(first)
        BY <2>5, <3>1
      <3>2. CASE t = [x |-> first, y |-> 1] /\ MaxSizeY <= 1
        <4>1. BorderBlocks(t) = BorderBlocks(OneWarp(first))
          BY <1>1, <2>2, <3>2, RowsNeedNoMore
        <4> QED
          BY <2>5, <4>1
      <3> QED
        BY <1>8, <3>1, <3>2
    <2>7. CASE /\ BorderBlocks(threads) <= BorderBlocks(t)
               /\ \A k \in ties : BorderBlocks(threads) <= BorderBlocks(NextShape(k))
      <3>1. CASE m = first
        BY <2>5, <2>6, <2>7, <3>1
      <3>2. CASE m \in ties
        <4>1. NextShape(m) = OneWarp(m)
          BY <1>1, <2>2, NarrowShapes
        <4> QED
          BY <2>7, <3>2, <4>1
      <3> QED
        BY <2>1, <3>1, <3>2
    <2>8. CASE threads = t /\ MaxSizeY <= 1 /\ t.x = OptX
      <3>1. BorderBlocks(OneWarp(first)) = BorderBlocks(OneWarp(m))
        BY <1>1, <2>2, <2>8, RowsNeedNoMore
      <3> QED
        BY <2>5, <2>6, <2>8, <3>1
    <2> QED
      BY <1>4, <1>5, <2>7, <2>8 DEF Looked
  <1> QED
    BY <1>9, <1>10, <1>11, <1>12, <1>13, <1>14, <1>15

-----------------------------------------------------------------------------
(* The launch: what LaunchMatchesKernel says of a launch l.                *)
MeaningIn(l, a) == IF a[1] = "bh" THEN <<"info", l.info, a[2]>> ELSE <<Given(a[1]).name, a[2]>>

DenotedIn(l, value) ==
  IF value[1] = "tmp" /\ value[2] \in DOMAIN l.literals
  THEN <<l.literals[value[2]], "">> ELSE value

ArgumentsMatch(l) == \A p \in ToSet(l.args) : DenotedIn(l, p.value) = MeaningIn(l, p.name)

ParametersMatch(l) ==
  IF target.lang = "Renderscript"
  THEN {p.name : p \in ToSet(l.args)} = printed.globals
  ELSE /\ Len(l.args) = Len(printed.params)
       /\ \A i \in 1..Len(printed.params) :
            DenotedIn(l, l.args[i].value) = MeaningIn(l, printed.params[i])

TexturesMatch(l) ==
  /\ {[as |-> t.as, field |-> t.field] : t \in l.textures} = printed.textures
  /\ \A t \in l.textures : t.value = MeaningIn(l, <<t.field, "">>)

Matches(l) ==
  l.info >= 0 /\ FirstIsPassed =>
    /\ ArgumentsMatch(l) /\ ParametersMatch(l) /\ TexturesMatch(l)
    /\ l.block = printed.block /\ l.opened

LEMMA MatchesNow ==
  LaunchMatchesKernel <=> Matches(launch)
  <1>1. \A a : Meaning(a) = MeaningIn(launch, a)
    BY DEF Meaning, MeaningIn
  <1>2. \A v : Denoted(v) = DenotedIn(launch, v)
    BY DEF Denoted, DenotedIn
  <1> QED
    BY <1>1, <1>2
    DEF LaunchMatchesKernel, Matches, ArgumentsMatch, ParametersMatch, TexturesMatch

LEMMA MatchesNext ==
  ASSUME UNCHANGED <<program, target, members, mapping, deviceArgs, used, printed>>,
         Matches(launch')
  PROVE  LaunchMatchesKernel'
  <1>1. \A f : Given(f)' = Given(f)
    BY DEF Given
  <1>2. \A a : Meaning(a)' = MeaningIn(launch', a)
    BY <1>1 DEF Meaning, MeaningIn
  <1>3. \A v : Denoted(v)' = DenotedIn(launch', v)
    BY DEF Denoted, DenotedIn
  <1>4. FirstIsPassed' <=> FirstIsPassed
    <2>1. \A f : Member(f)' = Member(f)
      BY DEF Member
    <2>2. \A a : Kind(a)' = Kind(a)
      BY <2>1 DEF Kind
    <2>3. \A f : BoundAsTexture(f)' = BoundAsTexture(f)
      <3>1. \A f : TextureOf(f)' = TextureOf(f)
        BY <2>1 DEF TextureOf
      <3> QED
        BY <3>1 DEF BoundAsTexture
    <2>4. \A a : IsConstantMask(a)' = IsConstantMask(a)
      BY <2>2 DEF IsConstantMask
    <2>5. \A a : IsPassed(a)' <=> IsPassed(a)
      BY <2>2, <2>3, <2>4 DEF IsPassed
    <2>6. deviceArgs' = deviceArgs /\ target' = target
      OBVIOUS
    <2>7. IsPassed(deviceArgs[1])' <=> IsPassed(deviceArgs[1])
      BY <2>5, <2>6
    <2> QED
      BY <2>6, <2>7 DEF FirstIsPassed
  <1> QED
    BY <1>2, <1>3, <1>4
    DEF LaunchMatchesKernel, Matches, ArgumentsMatch, ParametersMatch, TexturesMatch

(* What is passed is what the kernel takes.                                *)
LEMMA KindsAre ==
  ASSUME MembersInOrder, NEW a, IsName(a)
  PROVE  /\ Kind(a) \in FieldKinds /\ a = <<a[1], a[2]>>
         /\ Kind(a) # "Normal" => a[1] # "bh" /\ a[2] = "" /\ Member(a[1]).kind = Kind(a)
  <1>1. CASE \E part : a = <<"bh", part>>
    BY <1>1 DEF Kind, FieldKinds
  <1>2. CASE \E n \in 1..Len(members) : \E part : a = <<members[n].field, part>>
    <2>1. PICK n \in 1..Len(members) : \E part : a = <<members[n].field, part>>
      BY <1>2
    <2>2. PICK part : a = <<members[n].field, part>>
      BY <2>1
    <2>3. a[1] = members[n].field /\ a[2] = part
      BY <2>2
    <2>4. Member(members[n].field) = members[n] /\ members[n].kind \in FieldKinds
      BY DEF MembersInOrder
    <2>5. members[n].field # "bh"
      BY DEF MembersInOrder
    <2>6. Member(a[1]).kind \in FieldKinds /\ a[1] # "bh"
      BY <2>3, <2>4, <2>5
    <2> QED
      BY <2>2, <2>3, <2>6 DEF Kind, FieldKinds
  <1> QED
    BY <1>1, <1>2 DEF IsName

LEMMA PassedAre ==
  ASSUME MembersInOrder, target \in Targets, NEW a, IsName(a)
  PROVE  /\ target.lang # "Renderscript" =>
              (IsPassed(a) <=> a \in used /\ IsParameter(a))
         /\ target.lang = "Renderscript" => (IsPassed(a) <=> a \in used /\ IsGlobal(a))
  <1>1. target.lang \in {"C99", "CUDA", "OpenCL", "Renderscript"}
    BY TargetsAssumption DEF Languages
  <1>2. Kind(a) \in {"Normal", "Mask", "IterationSpace", "Image"}
    BY KindsAre DEF FieldKinds
  <1>3. target.lang = "Renderscript" => ~BoundAsTexture(a[1])
    BY DEF BoundAsTexture
  <1>4. IsConstantMask(a) => Kind(a) = "Mask"
    BY DEF IsConstantMask
  <1>5. CASE Kind(a) = "Normal"
    BY <1>4, <1>5 DEF IsPassed, IsParameter, IsGlobal
  <1>6. CASE Kind(a) = "Mask"
    BY <1>1, <1>6 DEF IsPassed, IsParameter, IsGlobal
  <1>7. CASE Kind(a) \in {"IterationSpace", "Image"}
    BY <1>3, <1>4, <1>7 DEF IsPassed, IsParameter, IsGlobal
  <1> QED
    BY <1>2, <1>5, <1>6, <1>7

(* The state in which a launch is generated: the kernel has been printed.  *)
KernelPrinted ==
  /\ Declared /\ literalCount \in Nat
  /\ deviceArgs = ParametersFor(threads) /\ used \subseteq ToSet(deviceArgs)
  /\ printed = PrintedKernel(deviceArgs, used)

\* What is passed for the i-th parameter.
PassesAt(i) == Passes(HostArg(i), deviceArgs[i], HostLiterals, infoStrCnt)

LEMMA EachPasses ==
  ASSUME KernelPrinted
  PROVE  /\ Len(deviceArgs) \in Nat /\ DOMAIN deviceArgs = 1..Len(deviceArgs)
         /\ \A i \in 1..Len(deviceArgs) : PassesAt(i) /\ IsName(deviceArgs[i])
  <1>1. MembersInOrder /\ MappedInOrder /\ literalCount \in Nat
    BY DEF KernelPrinted, Declared
  <1>2. Pairs(deviceArgs, HostArgs, HostLiterals, infoStrCnt)
    BY <1>1, ArgumentsPair DEF KernelPrinted
  <1>3. NamesOnce(deviceArgs)
    BY <1>1, ParametersOnce DEF KernelPrinted
  <1>4. PICK H : H = HostArgs
    OBVIOUS
  <1>5. PICK s : s = deviceArgs
    OBVIOUS
  <1>6. PICK A : s \in Seq(A) /\ H \in Seq(A)
    BY <1>2, <1>4, <1>5 DEF Pairs
  <1>7. Len(s) = Len(H)
    BY <1>2, <1>4, <1>5 DEF Pairs
  <1>8. DOMAIN H = 1..Len(s)
    BY <1>6, <1>7
  <1>9. ASSUME NEW i \in 1..Len(s)
        PROVE  PassesAt(i)
    <2>1. HostArg(i) = H[i]
      BY <1>4, <1>8, <1>9 DEF HostArg
    <2>2. Passes(H[i], s[i], HostLiterals, infoStrCnt)
      BY <1>2, <1>4, <1>5 DEF Pairs
    <2> QED
      BY <1>5, <2>1, <2>2 DEF PassesAt
  <1> QED
    BY <1>3, <1>5, <1>9 DEF NamesOnce

LEMMA CallParts ==
  /\ WriteKernelCall.info = infoStrCnt /\ WriteKernelCall.literals = HostLiterals
  /\ WriteKernelCall.block = threads
  /\ WriteKernelCall.opened = FirstIsPassed
  <1>1. FirstIsPassed = (target.lang = "C99" => IsPassed(deviceArgs[1]))
    BY DEF FirstIsPassed
  <1> QED
    BY <1>1 DEF WriteKernelCall

LEMMA PassedMeans ==
  ASSUME NEW i, PassesAt(i)
  PROVE  DenotedIn(WriteKernelCall, HostArg(i)) = MeaningIn(WriteKernelCall, deviceArgs[i])
  BY CallParts DEF PassesAt, Passes, DenotedIn, MeaningIn

\* The positions of the arguments that are passed, and the list they are taken from.
Passed == {i \in 1..Len(deviceArgs) : IsPassed(deviceArgs[i])}
Offered == [i \in 1..Len(deviceArgs) |-> [name |-> deviceArgs[i], value |-> HostArg(i)]]

LEMMA PassedIsFinite ==
  ASSUME KernelPrinted
  PROVE  Passed \subseteq Nat /\ IsFiniteSet(Passed)
  <1>1. PICK N \in Nat : N = Len(deviceArgs)
    BY EachPasses
  <1>2. Passed \in SUBSET (1..N)
    BY <1>1 DEF Passed
  <1>3. IsFiniteSet(1..N)
    BY FS_Interval
  <1>4. IsFiniteSet(Passed)
    BY <1>2, <1>3, FS_Subset
  <1> QED
    BY <1>2, <1>4

LEMMA CallTakes ==
  ASSUME KernelPrinted
  PROVE  Taken(WriteKernelCall.args, Offered, Passed)
  <1>1. {i \in DOMAIN Offered : IsPassed(Offered[i].name)} = Passed
    BY DEF Offered, Passed
  <1>2. WriteKernelCall.args = At(Offered, {i \in DOMAIN Offered : IsPassed(Offered[i].name)})
    BY DEF WriteKernelCall, Offered
  <1>3. WriteKernelCall.args = At(Offered, Passed)
    BY <1>1, <1>2
  <1> QED
    BY <1>3, PassedIsFinite, AtIs

LEMMA CallArgumentsMatch ==
  ASSUME KernelPrinted
  PROVE  ArgumentsMatch(WriteKernelCall)
  <1>1. ToSet(WriteKernelCall.args) = {Offered[i] : i \in Passed}
    BY CallTakes DEF Taken
  <1>2. ASSUME NEW i \in Passed
        PROVE  DenotedIn(WriteKernelCall, Offered[i].value)
                 = MeaningIn(WriteKernelCall, Offered[i].name)
    <2>1. i \in 1..Len(deviceArgs)
      BY DEF Passed
    <2>2. Offered[i].name = deviceArgs[i] /\ Offered[i].value = HostArg(i)
      BY <2>1 DEF Offered
    <2>3. PassesAt(i)
      BY <2>1, EachPasses
    <2> QED
      BY <2>2, <2>3, PassedMeans
  <1> QED
    BY <1>1, <1>2 DEF ArgumentsMatch

LEMMA CallParametersMatch ==
  ASSUME KernelPrinted
  PROVE  ParametersMatch(WriteKernelCall)
  <1>1. MembersInOrder /\ target \in Targets
    BY DEF KernelPrinted, Declared
  <1>2. PICK N \in Nat : N = Len(deviceArgs)
    BY EachPasses
  <1>3. DOMAIN deviceArgs = 1..N /\ \A i \in 1..N : IsName(deviceArgs[i])
    BY <1>2, EachPasses
  <1>4. \A i \in 1..N : Offered[i].name = deviceArgs[i] /\ Offered[i].value = HostArg(i)
    BY <1>2 DEF Offered
  <1>5. CASE target.lang = "Renderscript"
    <2>1. ToSet(WriteKernelCall.args) = {Offered[i] : i \in Passed}
      BY CallTakes DEF Taken
    <2>2. \A i \in Passed : i \in 1..N
      BY <1>2 DEF Passed
    <2>3. {p.name : p \in ToSet(WriteKernelCall.args)} = {deviceArgs[i] : i \in Passed}
      BY <1>4, <2>1, <2>2
    <2>4. ToSet(deviceArgs) = {deviceArgs[i] : i \in 1..N}
      BY <1>3 DEF ToSet
    <2>5. printed.globals = {a \in ToSet(deviceArgs) \cap used : IsGlobal(a)}
      BY DEF KernelPrinted, PrintedKernel
    <2>6. \A i \in 1..N : i \in Passed <=> deviceArgs[i] \in used /\ IsGlobal(deviceArgs[i])
      BY <1>1, <1>2, <1>3, <1>5, PassedAre DEF Passed
    <2>7. {deviceArgs[i] : i \in Passed} = printed.globals
      BY <2>2, <2>4, <2>5, <2>6
    <2> QED
      BY <1>5, <2>3, <2>7 DEF ParametersMatch
  <1>6. CASE target.lang # "Renderscript"
    <2>1. PICK J : J = {i \in DOMAIN deviceArgs :
                          deviceArgs[i] \in used /\ IsParameter(deviceArgs[i])}
      OBVIOUS
    <2>2. J = Passed
      <3>1. \A i \in 1..N : i \in Passed <=>
              deviceArgs[i] \in used /\ IsParameter(deviceArgs[i])
        BY <1>1, <1>2, <1>3, <1>6, PassedAre DEF Passed
      <3>2. \A i \in Passed : i \in 1..N
        BY <1>2 DEF Passed
      <3>3. \A i \in J : i \in 1..N
        BY <1>3, <2>1
      <3>4. \A i \in 1..N : i \in J <=> deviceArgs[i] \in used /\ IsParameter(deviceArgs[i])
        BY <1>3, <2>1
      <3> QED
        BY <3>1, <3>2, <3>3, <3>4
    <2>3. printed.params = At(deviceArgs, Passed)
      BY <2>1, <2>2 DEF KernelPrinted, PrintedKernel
    <2>4. Taken(printed.params, deviceArgs, Passed)
      BY <2>3, PassedIsFinite, AtIs
    <2>5. PICK c \in Nat : c = Cardinality(Passed)
      BY <2>4 DEF Taken
    <2>6. Len(printed.params) = c /\ Len(WriteKernelCall.args) = c
      BY <2>4, <2>5, CallTakes DEF Taken
    <2>7. ASSUME NEW k \in 1..c
          PROVE  DenotedIn(WriteKernelCall, WriteKernelCall.args[k].value)
                   = MeaningIn(WriteKernelCall, printed.params[k])
      <3>1. PICK i : i = Place(Passed, k)
        OBVIOUS
      <3>2. i \in Passed /\ i \in 1..N
        BY <1>2, <2>5, <3>1, Places, PassedIsFinite DEF Passed
      <3>3. printed.params[k] = deviceArgs[i]
        BY <2>4, <2>5, <3>1 DEF Taken
      <3>4. WriteKernelCall.args[k] = Offered[i]
        BY <2>5, <3>1, CallTakes DEF Taken
      <3>5. PassesAt(i)
        BY <1>2, <3>2, EachPasses
      <3> QED
        BY <1>4, <3>2, <3>3, <3>4, <3>5, PassedMeans
    <2> QED
      BY <1>6, <2>6, <2>7 DEF ParametersMatch
  <1> QED
    BY <1>5, <1>6

LEMMA CallTexturesMatch ==
  ASSUME KernelPrinted
  PROVE  TexturesMatch(WriteKernelCall)
  <1>1. MembersInOrder /\ target \in Targets
    BY DEF KernelPrinted, Declared
  <1>2. PICK N \in Nat : N = Len(deviceArgs)
    BY EachPasses
  <1>3. DOMAIN deviceArgs = 1..N /\ \A i \in 1..N : IsName(deviceArgs[i])
    BY <1>2, EachPasses
  <1>4. PICK bound : bound = {i \in 1..N : deviceArgs[i] \in used /\ IsTexture(deviceArgs[i])}
    OBVIOUS
  <1>5. ASSUME NEW i \in bound
        PROVE  /\ i \in 1..N /\ Kind(deviceArgs[i]) \in {"IterationSpace", "Image"}
               /\ deviceArgs[i][1] # "bh" /\ deviceArgs[i] = <<deviceArgs[i][1], "">>
               /\ Member(deviceArgs[i][1]).kind # "Normal"
    <2>1. i \in 1..N /\ Kind(deviceArgs[i]) \in {"IterationSpace", "Image"}
      BY <1>4 DEF IsTexture
    <2> QED
      BY <1>1, <1>3, <2>1, KindsAre
  <1>6. WriteKernelCall.textures =
          {[as    |-> IF Kind(deviceArgs[i]) = "IterationSpace" THEN "surface" ELSE "texture",
            field |-> deviceArgs[i][1], value |-> HostArg(i)] : i \in bound}
    BY <1>2, <1>4 DEF WriteKernelCall
  <1>7. ASSUME NEW t \in WriteKernelCall.textures
        PROVE  t.value = MeaningIn(WriteKernelCall, <<t.field, "">>)
    <2>1. PICK i \in bound : t.field = deviceArgs[i][1] /\ t.value = HostArg(i)
      BY <1>6
    <2>2. PassesAt(i)
      BY <1>2, <1>5, EachPasses
    <2>3. HostArg(i)[1] # "tmp"
      BY <1>5, <2>2 DEF PassesAt, Passes
    <2>4. DenotedIn(WriteKernelCall, HostArg(i)) = HostArg(i)
      BY <2>3 DEF DenotedIn
    <2>5. <<t.field, "">> = deviceArgs[i]
      BY <1>5, <2>1
    <2> QED
      BY <2>1, <2>2, <2>4, <2>5, PassedMeans
  <1>8. {[as |-> t.as, field |-> t.field] : t \in WriteKernelCall.textures}
          = {[as    |-> IF Kind(deviceArgs[i]) = "IterationSpace" THEN "surface" ELSE "texture",
              field |-> deviceArgs[i][1]] : i \in bound}
    <2>1. PICK v : v = [i \in bound |->
            [as    |-> IF Kind(deviceArgs[i]) = "IterationSpace" THEN "surface" ELSE "texture",
             field |-> deviceArgs[i][1], value |-> HostArg(i)]]
      OBVIOUS
    <2>2. WriteKernelCall.textures = {v[i] : i \in bound}
      BY <1>6, <2>1
    <2>3. {[as |-> t.as, field |-> t.field] : t \in WriteKernelCall.textures}
            = {[as |-> v[i].as, field |-> v[i].field] : i \in bound}
      BY <2>2
    <2>4. ASSUME NEW i \in bound
          PROVE  /\ v[i].as
                      = IF Kind(deviceArgs[i]) = "IterationSpace" THEN "surface" ELSE "texture"
                 /\ v[i].field = deviceArgs[i][1]
      BY <2>1
    <2> QED
      BY <2>3, <2>4
  <1>9. \A i \in bound :
          (IF Kind(deviceArgs[i]) = "IterationSpace" THEN "surface" ELSE "texture")
            = (IF Kind(deviceArgs[i]) = "Image" THEN "texture" ELSE "surface")
    BY <1>5
  <1>10. {a \in ToSet(deviceArgs) \cap used : IsTexture(a)} = {deviceArgs[i] : i \in bound}
    <2>1. ToSet(deviceArgs) = {deviceArgs[i] : i \in 1..N}
      BY <1>3 DEF ToSet
    <2> QED
      BY <1>4, <2>1
  <1>11. printed.textures =
           {[as    |-> IF Kind(a) = "Image" THEN "texture" ELSE "surface", field |-> a[1]] :
              a \in {b \in ToSet(deviceArgs) \cap used : IsTexture(b)}}
    BY DEF KernelPrinted, PrintedKernel
  <1>12. printed.textures =
           {[as    |-> IF Kind(deviceArgs[i]) = "Image" THEN "texture" ELSE "surface",
             field |-> deviceArgs[i][1]] : i \in bound}
    BY <1>10, <1>11
  <1>13. {[as |-> t.as, field |-> t.field] : t \in WriteKernelCall.textures} = printed.textures
    BY <1>8, <1>9, <1>12
  <1> QED
    BY <1>7, <1>13 DEF TexturesMatch

LEMMA CallMatches ==
  ASSUME KernelPrinted
  PROVE  Matches(WriteKernelCall)
  <1>1. printed.block = threads
    BY DEF KernelPrinted, PrintedKernel
  <1> QED
    BY <1>1, CallParts, CallArgumentsMatch, CallParametersMatch, CallTexturesMatch DEF Matches

-----------------------------------------------------------------------------
(* While the declaration stays, so does everything that is computed of it. *)
LEMMA SizesStay ==
  ASSUME UNCHANGED declared
  PROVE  /\ ImageFields' = ImageFields
         /\ MaxSizeX' = MaxSizeX /\ MaxSizeY' = MaxSizeY
         /\ RadiusX' = RadiusX /\ RadiusY' = RadiusY
  <1>1. ImageFields' = ImageFields
    BY DEF declared, ImageFields
  <1>2. Bordered' = Bordered
    BY <1>1 DEF declared, Bordered
  <1>3. MaxSizeX' = MaxSizeX /\ MaxSizeY' = MaxSizeY
    BY <1>2 DEF declared, MaxSizeX, MaxSizeY
  <1> QED
    BY <1>1, <1>3 DEF RadiusX, RadiusY

LEMMA ParametersStay ==
  ASSUME UNCHANGED declared, NEW t
  PROVE  /\ ParametersFor(t)' = ParametersFor(t)
         /\ \A created : CreateArgInfo(created, t)
                           = IF created # << >> THEN created ELSE ParametersFor(t)
  <1>1. members' = members /\ target' = target /\ mapping' = mapping
    BY DEF declared
  <1>2. \A m : ParamsOf(m)' = ParamsOf(m)
    BY <1>1 DEF ParamsOf
  <1>3. BorderParams(t)' = BorderParams(t)
    BY <1>1, SizesStay DEF BorderParams
  <1>4. [n \in 1..Len(members) |-> ParamsOf(members[n])]'
          = [n \in 1..Len(members) |-> ParamsOf(members[n])]
    BY <1>1, <1>2
  <1>5. ParametersFor(t)' = ParametersFor(t)
    BY <1>3, <1>4 DEF ParametersFor
  <1> QED
    BY <1>5 DEF CreateArgInfo, ParametersFor

LEMMA PrintedStays ==
  ASSUME UNCHANGED declared, UNCHANGED threads
  PROVE  \A args, names : PrintedKernel(args, names)' = PrintedKernel(args, names)
  <1>1. members' = members /\ target' = target /\ mapping' = mapping /\ threads' = threads
    BY DEF declared
  <1>2. \A f : Member(f)' = Member(f)
    BY <1>1 DEF Member
  <1>3. \A a : Kind(a)' = Kind(a)
    BY <1>2 DEF Kind
  <1>4. \A f : BoundAsTexture(f)' <=> BoundAsTexture(f)
    <2>1. \A f : TextureOf(f)' = TextureOf(f)
      BY <1>1, <1>2 DEF TextureOf
    <2> QED
      BY <1>1, <2>1 DEF BoundAsTexture
  <1>5. \A a : IsConstantMask(a)' <=> IsConstantMask(a)
    BY <1>1, <1>3 DEF IsConstantMask
  <1>6. \A a : /\ IsParameter(a)' <=> IsParameter(a)
               /\ IsGlobal(a)' <=> IsGlobal(a)
               /\ IsTexture(a)' <=> IsTexture(a)
    <2>1. \A a : IsParameter(a)' <=> IsParameter(a)
      BY <1>1, <1>3, <1>4, <1>5 DEF IsParameter
    <2>2. \A a : IsGlobal(a)' <=> IsGlobal(a)
      BY <1>1, <1>5 DEF IsGlobal
    <2>3. \A a : IsTexture(a)' <=> IsTexture(a)
      BY <1>3, <1>4 DEF IsTexture
    <2> QED
      BY <2>1, <2>2, <2>3
  <1>7. ASSUME NEW args, NEW names
        PROVE  PrintedKernel(args, names)' = PrintedKernel(args, names)
    <2>1. {i \in DOMAIN args : args[i] \in names /\ IsParameter(args[i])}'
            = {i \in DOMAIN args : args[i] \in names /\ IsParameter(args[i])}
      BY <1>6
    <2>2. {a \in ToSet(args) \cap names : IsGlobal(a)}'
            = {a \in ToSet(args) \cap names : IsGlobal(a)}
      BY <1>6
    <2>3. {a \in ToSet(args) \cap names : IsTexture(a)}'
            = {a \in ToSet(args) \cap names : IsTexture(a)}
      BY <1>6
    <2>4. {[as |-> IF Kind(a) = "Image" THEN "texture" ELSE "surface", field |-> a[1]] :
             a \in {b \in ToSet(args) \cap names : IsTexture(b)}}'
            = {[as |-> IF Kind(a) = "Image" THEN "texture" ELSE "surface", field |-> a[1]] :
                 a \in {b \in ToSet(args) \cap names : IsTexture(b)}}
      BY <1>3, <2>3
    <2> QED
      BY <1>1, <2>1, <2>2, <2>4 DEF PrintedKernel
  <1> QED
    BY <1>7

LEMMA CandidatesStay ==
  ASSUME UNCHANGED declared
  PROVE  Candidates' = Candidates /\ (UseShared' <=> UseShared)
  <1>1. members' = members /\ target' = target /\ mapping' = mapping
    BY DEF declared
  <1>2. Staged' = Staged
    BY <1>1, SizesStay DEF Staged, UseLocalMemory
  <1>3. \A o, n : TileEstimate(o, n)' = TileEstimate(o, n)
    BY <1>1 DEF TileEstimate
  <1>4. \A n : SharedEstimate(n)' = SharedEstimate(n)
    <2>1. SUFFICES ASSUME NEW n PROVE SharedEstimate(n)' = SharedEstimate(n)
      OBVIOUS
    <2>2. [f \in Staged |-> TileEstimate(mapping[f], n)]'
            = [f \in Staged |-> TileEstimate(mapping[f], n)]
      BY <1>1, <1>2, <1>3
    <2> QED
      BY <2>2 DEF SharedEstimate
  <1> QED
    BY <1>2, <1>4 DEF Candidates, UseShared

LEMMA ConfigStays ==
  ASSUME UNCHANGED declared
  PROVE  \A occ : CalcConfig(occ)' = CalcConfig(occ)
  <1>1. members' = members /\ target' = target /\ mapping' = mapping
    BY DEF declared
  <1>2. OptX' = OptX /\ OptY' = OptY
    BY <1>1, SizesStay DEF OptX, OptY
  <1>3. \A n : Widest(n)' = Widest(n)
    BY <1>2 DEF Widest
  <1>4. \A n : FirstShape(n)' = FirstShape(n) /\ NextShape(n)' = NextShape(n)
    BY <1>3, SizesStay, CandidatesStay DEF FirstShape, NextShape
  <1>5. \A t : BorderBlocks(t)' = BorderBlocks(t)
    BY <1>1, SizesStay DEF BorderBlocks
  <1>6. \A t, n : Fewer(t, n)' = Fewer(t, n)
    BY <1>4, <1>5 DEF Fewer
  <1>7. \A t, occ : LookAhead(t, occ)' = LookAhead(t, occ)
    <2>1. SUFFICES ASSUME NEW t, NEW occ PROVE LookAhead(t, occ)' = LookAhead(t, occ)
      OBVIOUS
    <2>2. PICK w : w = MaxThreads \div WarpSize
      OBVIOUS
    <2>3. \A f, ties : BestUpTo(f, t, ties, w)' <=> BestUpTo(f, t, ties, w)
      BY <1>6 DEF BestUpTo
    <2>4. LookAhead(t, occ) = IF MaxSizeY > 1 \/ t.x # OptX \/ t.y # OptY
                              THEN (CHOOSE f : BestUpTo(f, t, Ties(occ), w))[w] ELSE t
      BY <2>2 DEF LookAhead, BestUpTo, Ties
    <2>5. LookAhead(t, occ)'
            = IF MaxSizeY' > 1 \/ t.x # OptX' \/ t.y # OptY'
              THEN (CHOOSE f : BestUpTo(f, t, Ties(occ), w)')[w] ELSE t
      BY <2>2 DEF LookAhead, BestUpTo, Ties
    <2>6. (CHOOSE f : BestUpTo(f, t, Ties(occ), w)') = CHOOSE f : BestUpTo(f, t, Ties(occ), w)
      BY <2>3
    <2> QED
      BY <1>2, <2>4, <2>5, <2>6, SizesStay
  <1> QED
    BY <1>1, <1>4, <1>7 DEF CalcConfig

-----------------------------------------------------------------------------
(* The inductive invariant: what each phase has established.               *)
DeclarationKnown ==
  /\ phase \in {"class", "declaration", "configuration", "estimate", "translation",
                "main", "done"}
  /\ program \in Programs /\ target \in Targets
  /\ phase # "class" => members = MembersOf(program)
  /\ phase \notin {"class", "declaration"} => mapping = MappingOf(members, program.args)

BlockKnown ==
  /\ threads.x \in 1..MaxThreads /\ threads.y \in 1..MaxThreads
  /\ phase \notin {"translation", "main", "done"} => measured = << >>
  /\ measured = << >> \/ (measured \in [Candidates -> Occupancies]
                          /\ threads = CalcConfig(measured))

CountsKnown ==
  /\ infoStrCnt \in 0..MaxExecutions /\ literalCount \in Nat
  /\ launch.info \in Int /\ launch.info < infoStrCnt

ParametersKnown ==
  /\ phase \in {"class", "declaration", "configuration"} => deviceArgs = << >>
  /\ phase = "translation" => deviceArgs = << >> \/ deviceArgs = ParametersFor(threads)
  /\ phase \in {"estimate", "main", "done"} =>
       /\ deviceArgs = ParametersFor(threads) /\ used \subseteq ToSet(deviceArgs)
       /\ printed = PrintedKernel(deviceArgs, used)

LaunchKnown ==
  /\ phase \notin {"main", "done"} => launch.info = -1
  /\ LaunchMatchesKernel

MasksKnown ==
  /\ phase \notin {"main", "done"} => launch.info = -1 /\ maskKernels = {}
  /\ phase \in {"main", "done"} => maskKernels = IF launch.info < 0 THEN {} ELSE MasksTaken
  /\ phase = "done" =>
       symbols = IF target.lang = "CUDA" /\ ~target.explore THEN SymbolsWritten ELSE {}

ArgsInv == /\ DeclarationKnown /\ BlockKnown /\ CountsKnown
           /\ ParametersKnown /\ LaunchKnown /\ MasksKnown

LEMMA DeclaredKnown ==
  ASSUME DeclarationKnown, phase \notin {"class", "declaration"}
  PROVE  Declared
  <1>1. program \in Programs /\ target \in Targets /\ members = MembersOf(program)
    BY DEF DeclarationKnown
  <1>2. mapping = MappingOf(members, program.args)
    BY DEF DeclarationKnown
  <1>3. MembersInOrder
    BY <1>1, MembersKnown
  <1>4. MappedInOrder
    BY <1>2, <1>3, MappingKnown DEF MappedInOrder
  <1> QED
    BY <1>1, <1>3, <1>4 DEF Declared

LEMMA ArgsInit == Init => ArgsInv
  <1>1. SUFFICES ASSUME Init PROVE ArgsInv
    OBVIOUS
  <1>2. phase = "class" /\ launch.info = -1 /\ infoStrCnt = 0
    BY <1>1 DEF Init, NoLaunch
  <1>3. DeclarationKnown
    BY <1>1 DEF Init, DeclarationKnown
  <1>4. BlockKnown
    BY <1>1, ThreadsAssumption DEF Init, BlockKnown
  <1>5. CountsKnown
    BY <1>1, <1>2, ThreadsAssumption DEF Init, CountsKnown
  <1>6. ParametersKnown
    BY <1>1 DEF Init, ParametersKnown
  <1>7. LaunchKnown
    BY <1>2 DEF LaunchKnown, LaunchMatchesKernel
  <1>8. MasksKnown
    BY <1>1, <1>2 DEF Init, MasksKnown
  <1> QED
    BY <1>3, <1>4, <1>5, <1>6, <1>7, <1>8 DEF ArgsInv

(* Before the first launch nothing is claimed of it.                       *)
LEMMA NothingLaunched ==
  ASSUME launch'.info = -1
  PROVE  LaunchMatchesKernel'
  <1>1. ~(launch'.info >= 0)
    OBVIOUS
  <1> QED
    BY <1>1, Zenon DEF LaunchMatchesKernel

LEMMA VisitClassKeeps ==
  ASSUME ArgsInv, VisitClass
  PROVE  ArgsInv'
  <1> phase = "class" /\ phase' = "declaration" /\ launch' = launch
    BY DEF VisitClass, host
  <1>1. launch.info = -1
    BY DEF ArgsInv, LaunchKnown
  <1>2. DeclarationKnown'
    BY DEF ArgsInv, DeclarationKnown, VisitClass
  <1>3. BlockKnown'
    BY DEF ArgsInv, BlockKnown, VisitClass
  <1>4. CountsKnown'
    BY DEF ArgsInv, CountsKnown, VisitClass, host
  <1>5. ParametersKnown'
    BY DEF ArgsInv, ParametersKnown, VisitClass
  <1>6. LaunchKnown'
    BY <1>1, NothingLaunched DEF LaunchKnown
  <1>7. MasksKnown'
    BY <1>1 DEF ArgsInv, MasksKnown, VisitClass, host
  <1> QED
    BY <1>2, <1>3, <1>4, <1>5, <1>6, <1>7 DEF ArgsInv

LEMMA DeclareKernelKeeps ==
  ASSUME ArgsInv, DeclareKernel
  PROVE  ArgsInv'
  <1> phase = "declaration" /\ phase' = "configuration" /\ launch' = launch
    BY DEF DeclareKernel, host
  <1>1. launch.info = -1
    BY DEF ArgsInv, LaunchKnown
  <1>2. DeclarationKnown'
    <2>1. mapping' = MappingOf(members, program.args) /\ members' = members
          /\ program' = program /\ target' = target
      BY DEF DeclareKernel
    <2>2. MappingOf(members, program.args)' = MappingOf(members, program.args)
      BY <2>1
    <2> QED
      BY <2>1, <2>2 DEF ArgsInv, DeclarationKnown
  <1>3. BlockKnown'
    BY DEF ArgsInv, BlockKnown, DeclareKernel
  <1>4. CountsKnown'
    BY DEF ArgsInv, CountsKnown, DeclareKernel, host
  <1>5. ParametersKnown'
    BY DEF ArgsInv, ParametersKnown, DeclareKernel
  <1>6. LaunchKnown'
    BY <1>1, NothingLaunched DEF LaunchKnown
  <1>7. MasksKnown'
    BY <1>1 DEF ArgsInv, MasksKnown, DeclareKernel, host
  <1> QED
    BY <1>2, <1>3, <1>4, <1>5, <1>6, <1>7 DEF ArgsInv

LEMMA DeclarationStays ==
  ASSUME DeclarationKnown, UNCHANGED declared, phase \notin {"class", "declaration"},
         phase' \in {"configuration", "estimate", "translation", "main", "done"}
  PROVE  DeclarationKnown'
  <1>1. /\ program' = program /\ target' = target
        /\ members' = members /\ mapping' = mapping
    BY DEF declared
  <1> QED
    BY <1>1 DEF DeclarationKnown

LEMMA SetDefaultConfigKeeps ==
  ASSUME ArgsInv, SetDefaultConfig
  PROVE  ArgsInv'
  <1> phase = "configuration" /\ phase' = "translation" /\ launch' = launch
    BY DEF SetDefaultConfig, host
  <1>1. launch.info = -1
    BY DEF ArgsInv, LaunchKnown
  <1>2. DeclarationKnown'
    BY DeclarationStays DEF ArgsInv, SetDefaultConfig, declared
  <1>3. BlockKnown'
    BY ThreadsAssumption DEF ArgsInv, BlockKnown, SetDefaultConfig
  <1>4. CountsKnown'
    BY DEF ArgsInv, CountsKnown, SetDefaultConfig, host
  <1>5. ParametersKnown'
    BY DEF ArgsInv, ParametersKnown, SetDefaultConfig
  <1>6. LaunchKnown'
    BY <1>1, NothingLaunched DEF LaunchKnown
  <1>7. MasksKnown'
    BY <1>1 DEF ArgsInv, MasksKnown, SetDefaultConfig, host
  <1> QED
    BY <1>2, <1>3, <1>4, <1>5, <1>6, <1>7 DEF ArgsInv

(* The printed kernel has the parameters for the block, whenever they were *)
(* made, and uses some of them.                                            *)
LEMMA TranslationPrints ==
  ASSUME Declared, UNCHANGED declared, UNCHANGED threads,
         deviceArgs = << >> \/ deviceArgs = ParametersFor(threads),
         NEW names \in UsedNames(CreateArgInfo(deviceArgs, threads)), Translate(names)
  PROVE  /\ deviceArgs' = ParametersFor(threads)' /\ used' \subseteq ToSet(deviceArgs')
         /\ printed' = PrintedKernel(deviceArgs, used)'
  <1>1. CreateArgInfo(deviceArgs, threads) = ParametersFor(threads)
    BY ParametersStay
  <1>2. deviceArgs' = ParametersFor(threads)
    BY <1>1 DEF Translate
  <1>3. \A t : ParametersFor(t)' = ParametersFor(t)
    BY ParametersStay
  <1>4. deviceArgs' = ParametersFor(threads)'
    BY <1>2, <1>3
  <1>5. names \subseteq ToSet(ParametersFor(threads))
    BY <1>1 DEF UsedNames
  <1>6. used' = names /\ printed' = PrintedKernel(deviceArgs', names)
    BY DEF Translate
  <1>7. PrintedKernel(deviceArgs', names) = PrintedKernel(deviceArgs, used)'
    BY <1>6, PrintedStays
  <1> QED
    BY <1>2, <1>4, <1>5, <1>6, <1>7

LEMMA EstimateResourcesKeeps ==
  ASSUME ArgsInv, EstimateResources
  PROVE  ArgsInv'
  <1> /\ phase = "configuration" /\ phase' = "estimate" /\ launch' = launch
      /\ UNCHANGED declared /\ UNCHANGED threads
    BY DEF EstimateResources, host
  <1>1. launch.info = -1
    BY DEF ArgsInv, LaunchKnown
  <1>2. DeclarationKnown'
    BY DeclarationStays DEF ArgsInv
  <1>3. BlockKnown'
    BY DEF ArgsInv, BlockKnown, EstimateResources
  <1>4. CountsKnown'
    BY DEF ArgsInv, CountsKnown, EstimateResources, host
  <1>5. ParametersKnown'
    <2>1. PICK names \in UsedNames(CreateArgInfo(deviceArgs, threads)) : Translate(names)
      BY DEF EstimateResources
    <2>2. Declared
      BY DeclaredKnown DEF ArgsInv
    <2>3. deviceArgs = << >>
      BY DEF ArgsInv, ParametersKnown
    <2>4. /\ deviceArgs' = ParametersFor(threads)' /\ used' \subseteq ToSet(deviceArgs')
          /\ printed' = PrintedKernel(deviceArgs, used)'
      BY <2>1, <2>2, <2>3, TranslationPrints
    <2> QED
      BY <2>4 DEF ParametersKnown
  <1>6. LaunchKnown'
    BY <1>1, NothingLaunched DEF LaunchKnown
  <1>7. MasksKnown'
    BY <1>1 DEF ArgsInv, MasksKnown, EstimateResources, host
  <1> QED
    BY <1>2, <1>3, <1>4, <1>5, <1>6, <1>7 DEF ArgsInv

LEMMA SetResourceUsageKeeps ==
  ASSUME ArgsInv, SetResourceUsage
  PROVE  ArgsInv'
  <1> /\ phase = "estimate" /\ phase' = "translation" /\ launch' = launch
      /\ UNCHANGED declared
    BY DEF SetResourceUsage, host
  <1>1. launch.info = -1
    BY DEF ArgsInv, LaunchKnown
  <1>2. DeclarationKnown'
    BY DeclarationStays DEF ArgsInv
  <1>3. BlockKnown'
    <2>1. PICK occ \in [Candidates -> Occupancies] : measured' = occ /\ threads' = CalcConfig(occ)
      BY DEF SetResourceUsage
    <2>2. Declared
      BY DeclaredKnown DEF ArgsInv
    <2>3. threads'.x \in 1..MaxThreads /\ threads'.y \in 1..MaxThreads
      BY <2>1, <2>2, ConfigInRange
    <2>4. measured' \in [Candidates' -> Occupancies]
      BY <2>1, CandidatesStay
    <2>5. CalcConfig(measured)' = CalcConfig(occ)
      BY <2>1, ConfigStays
    <2> QED
      BY <2>1, <2>3, <2>4, <2>5 DEF BlockKnown
  <1>4. CountsKnown'
    BY DEF ArgsInv, CountsKnown, SetResourceUsage, host
  <1>5. ParametersKnown'
    <2>1. deviceArgs' = CreateArgInfo(ClearArgInfo(deviceArgs), threads')
      BY DEF SetResourceUsage
    <2>2. deviceArgs' = CreateArgInfo(<< >>, threads')
      BY <2>1 DEF ClearArgInfo
    <2>3. PICK t : t = threads'
      OBVIOUS
    <2>4. deviceArgs' = ParametersFor(t)
      BY <2>2, <2>3, ParametersStay
    <2>5. ParametersFor(t)' = ParametersFor(t)
      BY ParametersStay
    <2>6. ParametersFor(threads)' = ParametersFor(t)'
      BY <2>3 DEF ParametersFor
    <2>7. deviceArgs' = ParametersFor(threads)'
      BY <2>4, <2>5, <2>6
    <2> QED
      BY <2>7 DEF ParametersKnown
  <1>6. LaunchKnown'
    BY <1>1, NothingLaunched DEF LaunchKnown
  <1>7. MasksKnown'
    BY <1>1 DEF ArgsInv, MasksKnown, SetResourceUsage, host
  <1> QED
    BY <1>2, <1>3, <1>4, <1>5, <1>6, <1>7 DEF ArgsInv

(* The block stays when neither the declaration nor the measurement change. *)
LEMMA BlockStays ==
  ASSUME BlockKnown, UNCHANGED declared, UNCHANGED <<threads, measured>>,
         phase \in {"translation", "main", "done"}, phase' \in {"translation", "main", "done"}
  PROVE  BlockKnown'
  <1>1. measured' = measured /\ threads' = threads
    OBVIOUS
  <1>2. CalcConfig(measured)' = CalcConfig(measured)
    BY <1>1, ConfigStays
  <1>3. Candidates' = Candidates
    BY CandidatesStay
  <1> QED
    BY <1>1, <1>2, <1>3 DEF BlockKnown

LEMMA TranslateKernelKeeps ==
  ASSUME ArgsInv, TranslateKernel
  PROVE  ArgsInv'
  <1> /\ phase = "translation" /\ phase' = "main" /\ launch' = launch
      /\ UNCHANGED declared /\ UNCHANGED threads
    BY DEF TranslateKernel, host
  <1>1. launch.info = -1
    BY DEF ArgsInv, LaunchKnown
  <1>2. DeclarationKnown'
    BY DeclarationStays DEF ArgsInv
  <1>3. BlockKnown'
    BY BlockStays DEF ArgsInv, TranslateKernel
  <1>4. CountsKnown'
    BY DEF ArgsInv, CountsKnown, TranslateKernel, host
  <1>5. ParametersKnown'
    <2>1. PICK names \in UsedNames(CreateArgInfo(deviceArgs, threads)) : Translate(names)
      BY DEF TranslateKernel
    <2>2. Declared
      BY DeclaredKnown DEF ArgsInv
    <2>3. deviceArgs = << >> \/ deviceArgs = ParametersFor(threads)
      BY DEF ArgsInv, ParametersKnown
    <2>4. /\ deviceArgs' = ParametersFor(threads)' /\ used' \subseteq ToSet(deviceArgs')
          /\ printed' = PrintedKernel(deviceArgs, used)'
      BY <2>1, <2>2, <2>3, TranslationPrints
    <2> QED
      BY <2>4 DEF ParametersKnown
  <1>6. LaunchKnown'
    BY <1>1, NothingLaunched DEF LaunchKnown
  <1>7. MasksKnown'
    <2>1. maskKernels' = {} /\ launch'.info < 0
      BY <1>1 DEF ArgsInv, MasksKnown, TranslateKernel, host
    <2> QED
      BY <2>1 DEF MasksKnown
  <1> QED
    BY <1>2, <1>3, <1>4, <1>5, <1>6, <1>7 DEF ArgsInv

(* The printed kernel and its parameters stay while main() is written.     *)
LEMMA ParametersAreKept ==
  ASSUME ParametersKnown, UNCHANGED declared, UNCHANGED <<threads, deviceArgs, used, printed>>,
         phase = "main", phase' \in {"main", "done"}
  PROVE  ParametersKnown'
  <1>1. /\ deviceArgs = ParametersFor(threads) /\ used \subseteq ToSet(deviceArgs)
        /\ printed = PrintedKernel(deviceArgs, used)
    BY DEF ParametersKnown
  <1>2. /\ threads' = threads /\ deviceArgs' = deviceArgs /\ used' = used
        /\ printed' = printed
    OBVIOUS
  <1>3. ParametersFor(threads)' = ParametersFor(threads)
    <2>1. PICK t : t = threads
      OBVIOUS
    <2>2. ParametersFor(t)' = ParametersFor(t)
      BY ParametersStay
    <2>3. ParametersFor(threads)' = ParametersFor(t)'
      BY <1>2, <2>1 DEF ParametersFor
    <2> QED
      BY <2>1, <2>2, <2>3
  <1>4. PrintedKernel(deviceArgs, used)' = PrintedKernel(deviceArgs, used)
    BY <1>2, PrintedStays
  <1> QED
    BY <1>1, <1>2, <1>3, <1>4 DEF ParametersKnown

LEMMA ExecuteKeeps ==
  ASSUME ArgsInv, Execute
  PROVE  ArgsInv'
  <1> /\ phase = "main" /\ phase' = "main" /\ UNCHANGED declared
      /\ launch' = WriteKernelCall /\ infoStrCnt' = infoStrCnt + 1
      /\ UNCHANGED <<threads, measured, deviceArgs, used, printed>>
    BY DEF Execute
  <1>1. Declared
    BY DeclaredKnown DEF ArgsInv
  <1>2. infoStrCnt \in 0..MaxExecutions /\ literalCount \in Nat /\ infoStrCnt < MaxExecutions
    BY DEF ArgsInv, CountsKnown, Execute
  <1>3. launch'.info = infoStrCnt
    BY CallParts
  <1>4. DeclarationKnown'
    BY DeclarationStays DEF ArgsInv
  <1>5. BlockKnown'
    BY BlockStays DEF ArgsInv
  <1>6. CountsKnown'
    <2>1. TemporariesBefore(Len(members) + 1) \in Nat
      <3>1. PICK N \in Nat : N = Len(members)
        BY <1>1 DEF Declared, MembersInOrder
      <3>2. PICK T : T = {k \in 1..((N + 1) - 1) : IsTemporary(k)}
        OBVIOUS
      <3>3. T \in SUBSET (1..N)
        BY <3>2
      <3>4. IsFiniteSet(1..N)
        BY FS_Interval
      <3>5. IsFiniteSet(T)
        BY <3>3, <3>4, FS_Subset
      <3>6. Cardinality(T) \in Nat
        BY <3>5, FS_CardinalityType
      <3> QED
        BY <3>1, <3>2, <3>6 DEF TemporariesBefore
    <2>2. literalCount' = literalCount + TemporariesBefore(Len(members) + 1)
      BY DEF Execute
    <2>3. literalCount' \in Nat
      BY <1>2, <2>1, <2>2
    <2>4. infoStrCnt' \in 0..MaxExecutions /\ launch'.info \in Int /\ launch'.info < infoStrCnt'
      BY <1>2, <1>3, ThreadsAssumption
    <2> QED
      BY <2>3, <2>4 DEF CountsKnown
  <1>7. ParametersKnown'
    BY ParametersAreKept DEF ArgsInv
  <1>8. LaunchKnown'
    <2>1. KernelPrinted
      BY <1>1, <1>2 DEF ArgsInv, ParametersKnown, KernelPrinted
    <2>2. Matches(launch')
      BY <2>1, CallMatches
    <2>3. LaunchMatchesKernel'
      BY <2>2, MatchesNext DEF declared
    <2> QED
      BY <2>3 DEF LaunchKnown
  <1>9. MasksKnown'
    <2>1. /\ mapping' = mapping /\ target' = target /\ used' = used
          /\ maskKernels' = maskKernels \cup MasksTaken
      BY DEF declared, Execute
    <2>2. MasksTaken' = MasksTaken
      BY <2>1 DEF MasksTaken
    <2>3. maskKernels \subseteq MasksTaken
      BY DEF ArgsInv, MasksKnown
    <2>4. ~(launch'.info < 0)
      BY <1>2, <1>3
    <2> QED
      BY <2>1, <2>2, <2>3, <2>4 DEF MasksKnown
  <1> QED
    BY <1>4, <1>5, <1>6, <1>7, <1>8, <1>9 DEF ArgsInv

LEMMA EndOfProgramKeeps ==
  ASSUME ArgsInv, EndOfProgram
  PROVE  ArgsInv'
  <1> /\ phase = "main" /\ phase' = "done" /\ UNCHANGED declared /\ UNCHANGED launch
      /\ UNCHANGED <<threads, measured, deviceArgs, used, printed>>
    BY DEF EndOfProgram
  <1>1. DeclarationKnown'
    BY DeclarationStays DEF ArgsInv
  <1>2. BlockKnown'
    BY BlockStays DEF ArgsInv
  <1>3. CountsKnown'
    BY DEF ArgsInv, CountsKnown, EndOfProgram
  <1>4. ParametersKnown'
    BY ParametersAreKept DEF ArgsInv
  <1>5. LaunchKnown'
    <2>1. Matches(launch)
      BY MatchesNow DEF ArgsInv, LaunchKnown
    <2>2. Matches(launch')
      BY <2>1
    <2>3. LaunchMatchesKernel'
      BY <2>2, MatchesNext DEF declared
    <2> QED
      BY <2>3 DEF LaunchKnown
  <1>6. MasksKnown'
    <2>1. /\ program' = program /\ mapping' = mapping /\ target' = target /\ used' = used
          /\ maskKernels' = maskKernels
          /\ symbols' = IF target.lang = "CUDA" /\ ~target.explore THEN SymbolsWritten ELSE {}
      BY DEF declared, EndOfProgram
    <2>2. MasksTaken' = MasksTaken
      BY <2>1 DEF MasksTaken
    <2>3. SymbolsWritten' = SymbolsWritten
      <3>1. MaskObjects' = MaskObjects
        BY <2>1 DEF MaskObjects
      <3> QED
        BY <2>1, <3>1 DEF SymbolsWritten
    <2>4. maskKernels = IF launch.info < 0 THEN {} ELSE MasksTaken
      BY DEF ArgsInv, MasksKnown
    <2> QED
      BY <2>1, <2>2, <2>3, <2>4 DEF MasksKnown
  <1> QED
    BY <1>1, <1>2, <1>3, <1>4, <1>5, <1>6 DEF ArgsInv

LEMMA StutterKeeps ==
  ASSUME ArgsInv, UNCHANGED vars
  PROVE  ArgsInv'
  <1> /\ UNCHANGED declared /\ phase' = phase /\ launch' = launch
      /\ UNCHANGED <<threads, measured, deviceArgs, used, printed>>
      /\ UNCHANGED <<infoStrCnt, literalCount, maskKernels, symbols>>
    BY DEF vars, declared
  <1> /\ program' = program /\ target' = target /\ members' = members /\ mapping' = mapping
    BY DEF vars
  <1>1. DeclarationKnown'
    BY DEF ArgsInv, DeclarationKnown
  <1>2. BlockKnown'
    <2>1. CalcConfig(measured)' = CalcConfig(measured)
      BY ConfigStays
    <2>2. Candidates' = Candidates
      BY CandidatesStay
    <2> QED
      BY <2>1, <2>2 DEF ArgsInv, BlockKnown
  <1>3. CountsKnown'
    BY DEF ArgsInv, CountsKnown
  <1>4. ParametersKnown'
    <2>1. ParametersFor(threads)' = ParametersFor(threads)
      <3>1. PICK t : t = threads
        OBVIOUS
      <3>2. ParametersFor(t)' = ParametersFor(t)
        BY ParametersStay
      <3>3. ParametersFor(threads)' = ParametersFor(t)'
        BY <3>1 DEF ParametersFor
      <3> QED
        BY <3>1, <3>2, <3>3
    <2>2. PrintedKernel(deviceArgs, used)' = PrintedKernel(deviceArgs, used)
      BY PrintedStays
    <2> QED
      BY <2>1, <2>2 DEF ArgsInv, ParametersKnown
  <1>5. LaunchKnown'
    <2>1. Matches(launch)
      BY MatchesNow DEF ArgsInv, LaunchKnown
    <2>2. Matches(launch')
      BY <2>1
    <2>3. LaunchMatchesKernel'
      BY <2>2, MatchesNext
    <2> QED
      BY <2>3 DEF ArgsInv, LaunchKnown
  <1>6. MasksKnown'
    <2>1. MasksTaken' = MasksTaken
      BY DEF MasksTaken
    <2>2. SymbolsWritten' = SymbolsWritten
      <3>1. MaskObjects' = MaskObjects
        BY DEF MaskObjects
      <3> QED
        BY <3>1 DEF SymbolsWritten
    <2> QED
      BY <2>1, <2>2 DEF ArgsInv, MasksKnown
  <1> QED
    BY <1>1, <1>2, <1>3, <1>4, <1>5, <1>6 DEF ArgsInv

(* Of every kernel class, target and measurement, what each phase has      *)
(* established holds (Rewrite.cpp, ClassRepresentation.cpp).               *)
THEOREM ArgumentsInvariant == Spec => []ArgsInv
  <1>1. Init => ArgsInv
    BY ArgsInit
  <1>2. ArgsInv /\ [Next]_vars => ArgsInv'
    <2>1. SUFFICES ASSUME ArgsInv, [Next]_vars PROVE ArgsInv'
      OBVIOUS
    <2>2. CASE VisitClass
      BY <2>1, <2>2, VisitClassKeeps
    <2>3. CASE DeclareKernel
      BY <2>1, <2>3, DeclareKernelKeeps
    <2>4. CASE SetDefaultConfig
      BY <2>1, <2>4, SetDefaultConfigKeeps
    <2>5. CASE EstimateResources
      BY <2>1, <2>5, EstimateResourcesKeeps
    <2>6. CASE SetResourceUsage
      BY <2>1, <2>6, SetResourceUsageKeeps
    <2>7. CASE TranslateKernel
      BY <2>1, <2>7, TranslateKernelKeeps
    <2>8. CASE Execute
      BY <2>1, <2>8, ExecuteKeeps
    <2>9. CASE EndOfProgram
      BY <2>1, <2>9, EndOfProgramKeeps
    <2>10. CASE UNCHANGED vars
      BY <2>1, <2>10, StutterKeeps
    <2> QED
      BY <2>1, <2>2, <2>3, <2>4, <2>5, <2>6, <2>7, <2>8, <2>9, <2>10 DEF Next
  <1> QED
    BY <1>1, <1>2, PTL DEF Spec

LEMMA NamesAreKnown ==
  ASSUME ArgsInv
  PROVE  KernelArgsTypeOK
  <1>1. IsInjective(deviceArgs)
    <2>1. CASE deviceArgs = << >>
      BY <2>1 DEF IsInjective
    <2>2. CASE deviceArgs # << >>
      <3>1. phase \notin {"class", "declaration"} /\ deviceArgs = ParametersFor(threads)
        BY <2>2 DEF ArgsInv, ParametersKnown, DeclarationKnown
      <3>2. MembersInOrder
        BY <3>1, DeclaredKnown DEF ArgsInv, Declared
      <3> QED
        BY <3>1, <3>2, ParametersOnce DEF NamesOnce
    <2> QED
      BY <2>1, <2>2
  <1>2. ASSUME phase \in {"estimate", "main", "done"}
        PROVE  /\ Len(deviceArgs) > Len(members)
               /\ used \subseteq ToSet(deviceArgs)
               /\ ToSet(printed.params) \cup printed.globals \subseteq used
    <2>1. /\ deviceArgs = ParametersFor(threads) /\ used \subseteq ToSet(deviceArgs)
          /\ printed = PrintedKernel(deviceArgs, used)
      BY <1>2 DEF ArgsInv, ParametersKnown
    <2>2. MembersInOrder
      BY <1>2, DeclaredKnown DEF ArgsInv, Declared
    <2>3. NamesOnce(deviceArgs)
      BY <2>1, <2>2, ParametersOnce
    <2>4. PICK I : I = {i \in DOMAIN deviceArgs :
                          deviceArgs[i] \in used /\ IsParameter(deviceArgs[i])}
      OBVIOUS
    <2>5. I \subseteq Nat /\ IsFiniteSet(I)
      <3>1. PICK N \in Nat : N = Len(deviceArgs) /\ DOMAIN deviceArgs = 1..N
        BY <2>3 DEF NamesOnce
      <3>2. I \in SUBSET (1..N)
        BY <2>4, <3>1
      <3>3. IsFiniteSet(1..N)
        BY FS_Interval
      <3>4. IsFiniteSet(I)
        BY <3>2, <3>3, FS_Subset
      <3> QED
        BY <3>2, <3>4
    <2>6. printed.params = At(deviceArgs, I)
      BY <2>1, <2>4 DEF PrintedKernel
    <2>7. ToSet(printed.params) = {deviceArgs[i] : i \in I}
      BY <2>5, <2>6, AtIs DEF Taken
    <2>8. ToSet(printed.params) \subseteq used
      BY <2>4, <2>7
    <2>9. printed.globals \subseteq used
      BY <2>1 DEF PrintedKernel
    <2> QED
      BY <2>1, <2>3, <2>8, <2>9 DEF NamesOnce
  <1> QED
    BY <1>1, <1>2 DEF KernelArgsTypeOK, ArgsInv, DeclarationKnown, BlockKnown, CountsKnown

(* No parameter has its name twice, and what is used or printed of a       *)
(* kernel is among its parameters (createArgInfo, printKernelArguments).   *)
THEOREM ArgumentsTypeCorrect == Spec => []KernelArgsTypeOK
  <1>1. ArgsInv => KernelArgsTypeOK
    BY NamesAreKnown
  <1> QED
    BY <1>1, ArgumentsInvariant, PTL

(* A launch gives the printed kernel what the user's program means, in the *)
(* order of its parameters, and runs the block it was compiled for         *)
(* (createArgInfo and createHostArgInfo in ClassRepresentation.cpp,        *)
(* printKernelArguments in Rewrite.cpp, writeKernelCall in                 *)
(* CreateHostStrings.cpp).                                                 *)
THEOREM LaunchesMatch == Spec => []LaunchMatchesKernel
  <1>1. ArgsInv => LaunchMatchesKernel
    BY DEF ArgsInv, LaunchKnown
  <1> QED
    BY <1>1, ArgumentsInvariant, PTL

(* The compiled configuration has the best occupancy, its tiles fit the    *)
(* shared memory, and it needs the fewest blocks for the border            *)
(* (calcConfig in ClassRepresentation.cpp).                                *)
THEOREM ConfigurationsFit == Spec => []ConfigurationFits
  <1>1. ArgsInv => ConfigurationFits
    <2>1. SUFFICES ASSUME ArgsInv PROVE ConfigurationFits
      OBVIOUS
    <2>2. CASE phase \in {"translation", "main", "done"} /\ DOMAIN measured # {}
      <3>1. Declared
        BY <2>1, <2>2, DeclaredKnown DEF ArgsInv
      <3>2. measured # << >>
        <4>1. DOMAIN << >> = {}
          OBVIOUS
        <4> QED
          BY <2>2, <4>1
      <3>3. measured \in [Candidates -> Occupancies] /\ threads = CalcConfig(measured)
        BY <2>1, <3>2 DEF ArgsInv, BlockKnown
      <3> QED
        BY <3>1, <3>3, ConfigFits
    <2>3. CASE ~(phase \in {"translation", "main", "done"} /\ DOMAIN measured # {})
      BY <2>3, Zenon DEF ConfigurationFits
    <2> QED
      BY <2>2, <2>3
  <1> QED
    BY <1>1, ArgumentsInvariant, PTL

LEMMA SymbolsAreRead ==
  ASSUME Declared, target.lang = "CUDA", CopiedIsUsed, maskKernels = MasksTaken
  PROVE  SymbolsWritten = {mapping[f].name : f \in {g \in DOMAIN mapping :
                             mapping[g].kind = "Mask" /\ <<g, "">> \in used}}
  <1>1. PICK R : R = {g \in DOMAIN mapping : mapping[g].kind = "Mask" /\ <<g, "">> \in used}
    OBVIOUS
  <1>2. maskKernels = {mapping[f].name : f \in R}
    BY <1>1 DEF MasksTaken
  <1>3. ASSUME NEW o \in MaskObjects, o.copy # ""
        PROVE  o.copy \in maskKernels <=> \E f \in R : mapping[f] = o
    <2>1. o.kind = "Mask"
      BY DEF MaskObjects
    <2>2. (\E f \in DOMAIN mapping : mapping[f] = o /\ <<f, "">> \in used) <=>
          (\E g \in DOMAIN mapping : /\ mapping[g].kind = "Mask" /\ mapping[g].name = o.copy
                                     /\ <<g, "">> \in used)
      BY <1>3 DEF CopiedIsUsed
    <2> QED
      BY <1>1, <1>2, <2>1, <2>2
  <1>4. ASSUME NEW f \in R
        PROVE  mapping[f] \in MaskObjects
    <2>1. f \in DOMAIN mapping /\ mapping[f].kind = "Mask"
      BY <1>1
    <2>2. PICK n \in 1..Len(members) : f = members[n].field /\ IsMapped(members[n])
      BY <2>1 DEF Declared, MappedInOrder
    <2>3. mapping[f] = program.args[n]
      BY <2>2 DEF Declared, MappedInOrder
    <2>4. n \in DOMAIN program.args
      BY <2>2 DEF Declared, MembersInOrder
    <2> QED
      BY <2>1, <2>3, <2>4 DEF MaskObjects, ToSet
  <1>5. ASSUME NEW s \in SymbolsWritten
        PROVE  \E f \in R : mapping[f].name = s
    <2>1. CASE \E o \in MaskObjects : o.copy # "" /\ o.copy \in maskKernels /\ s = o.name
      BY <1>3, <2>1
    <2>2. CASE \E o \in MaskObjects : o.copy = "" /\ o.name \in maskKernels /\ s = o.name
      BY <1>2, <2>2
    <2> QED
      BY <2>1, <2>2 DEF SymbolsWritten
  <1>6. ASSUME NEW f \in R
        PROVE  mapping[f].name \in SymbolsWritten
    <2>1. PICK o : o = mapping[f]
      OBVIOUS
    <2>2. o \in MaskObjects
      BY <1>4, <2>1
    <2>3. CASE o.copy = ""
      <3>1. o.name \in maskKernels
        BY <1>2, <2>1
      <3> QED
        BY <2>1, <2>2, <2>3, <3>1 DEF SymbolsWritten
    <2>4. CASE o.copy # ""
      <3>1. o.copy \in maskKernels
        BY <1>3, <2>1, <2>2, <2>4
      <3> QED
        BY <2>1, <2>2, <2>4, <3>1 DEF SymbolsWritten
    <2> QED
      BY <2>3, <2>4
  <1>7. SymbolsWritten = {mapping[f].name : f \in R}
    <2>1. PICK S : S = SymbolsWritten
      OBVIOUS
    <2>2. (\A s \in S : \E f \in R : mapping[f].name = s)
          /\ (\A f \in R : mapping[f].name \in S)
      BY <1>5, <1>6, <2>1
    <2> QED
      BY <2>1, <2>2
  <1> QED
    BY <1>1, <1>7

(* main() writes exactly the symbols of the masks and domains that a       *)
(* launched kernel reads (writeKernelCall in CreateHostStrings.cpp,        *)
(* HandleTranslationUnit in Rewrite.cpp).                                  *)
THEOREM MasksWritten == Spec => []MasksAreWritten
  <1>1. ArgsInv => MasksAreWritten
    <2>1. SUFFICES ASSUME ArgsInv, phase = "done", target.lang = "CUDA", ~target.explore,
                          CopiedIsUsed
                   PROVE  symbols = IF launch.info < 0 THEN {}
                                    ELSE {mapping[f].name : f \in {g \in DOMAIN mapping :
                                            mapping[g].kind = "Mask" /\ <<g, "">> \in used}}
      BY DEF MasksAreWritten
    <2>2. Declared
      BY <2>1, DeclaredKnown DEF ArgsInv
    <2>3. /\ maskKernels = IF launch.info < 0 THEN {} ELSE MasksTaken
          /\ symbols = SymbolsWritten
      BY <2>1 DEF ArgsInv, MasksKnown
    <2>4. CASE launch.info < 0
      <3>1. SymbolsWritten = {}
        BY <2>3, <2>4 DEF SymbolsWritten
      <3> QED
        BY <2>3, <2>4, <3>1
    <2>5. CASE ~(launch.info < 0)
      BY <2>1, <2>2, <2>3, <2>5, SymbolsAreRead
    <2> QED
      BY <2>4, <2>5
  <1> QED
    BY <1>1, ArgumentsInvariant, PTL
=============================================================================
