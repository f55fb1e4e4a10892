---------------------------- MODULE KernelPrinter ---------------------------
(***************************************************************************)
(* Printing of kernels for Vivado (Rewrite::printKernelFunction and        *)
(* printKernelArguments, lib/Rewrite/Rewrite.cpp).  Each kernel            *)
(* declaration of main() prints the kernel as a functor and a function     *)
(* that calls an operator of the runtime library with it.  The border mode *)
(* and the window size of that call are put together while the argument    *)
(* lists are printed and are kept in members of Rewrite, vivadoBM and      *)
(* vivadoSizeX/Y, which no kernel resets for the next.                     *)
(***************************************************************************)
EXTENDS Naturals, Sequences, FiniteSets

CONSTANTS
  Mask,        \* masks and domains of the program, all constant
  MaskSize,    \* their sizes [x, y]
  KernelDef,   \* kernel declarations: modes of the accessors, masks
  MaxKernels   \* bound: kernels in the program

ASSUME MasksAreFinite == IsFiniteSet(Mask)
ASSUME MaskSizeType   == MaskSize \in [Mask -> [x : Nat \ {0}, y : Nat \ {0}]]

Boundary == {"UNDEFINED", "CLAMP", "REPEAT", "MIRROR", "CONSTANT"}

ASSUME KernelDefType ==
  KernelDef \subseteq [accs : Seq(Boundary), masks : SUBSET Mask]

VARIABLES
  asserts,     \* the build checks assertions
  vivadoBM,    \* vivadoBM
  vivadoSize,  \* vivadoSizeX, vivadoSizeY
  calls,       \* the library calls printed
  aborted      \* an assertion has failed

printerVars == <<asserts, vivadoBM, vivadoSize, calls, aborted>>

(* Sizes are strings of digits, and the empty string before any was set.   *)
NoSize == << >>
Str[n \in Nat] == IF n < 10 THEN <<n>> ELSE Append(Str[n \div 10], n % 10)

PrinterInit ==
  /\ asserts \in BOOLEAN
  /\ vivadoBM = "UNDEFINED"
  /\ vivadoSize = [x |-> NoSize, y |-> NoSize]
  /\ calls = << >>
  /\ aborted = FALSE

-----------------------------------------------------------------------------
(* std::string's order: by digits from the left, a prefix first.           *)
StrLess(s, t) ==
  \E n \in 0..Len(s) :
    /\ n <= Len(t) /\ SubSeq(s, 1, n) = SubSeq(t, 1, n)
    /\ \/ n = Len(s) /\ n < Len(t)
       \/ n < Len(s) /\ n < Len(t) /\ s[n + 1] < t[n + 1]

(* max over the masks of a kernel, whose sizes are strings.                *)
MaxStr(strings) == CHOOSE s \in strings : \A t \in strings : ~StrLess(s, t)

Union(d) == [x |-> MaxStr({Str[MaskSize[m].x] : m \in d.masks}),
             y |-> MaxStr({Str[MaskSize[m].y] : m \in d.masks})]

SizeSetOnce(d) ==                     \* mutant: set by the first kernel only
  IF d.masks # {} /\ vivadoSize.x = NoSize THEN Union(d) ELSE vivadoSize

(* printKernelArguments(KernelDecl).                                       *)
SizeAfter(d) ==
  IF d.masks # {} /\ d.accs # << >> THEN Union(d) ELSE vivadoSize

ModeSetOnce(d) ==                     \* mutant: set by the first kernel only
  IF vivadoBM = "UNDEFINED" THEN d.accs[Len(d.accs)] ELSE vivadoBM

(* printKernelArguments(KernelCall): the modes vivadoBM runs through.      *)
ModeAfter(d)  == IF d.accs = << >> THEN vivadoBM ELSE d.accs[Len(d.accs)]
ModeBefore(d, n) == IF n = 1 THEN vivadoBM ELSE d.accs[n - 1]
ModesAgree(d) ==
  \A n \in DOMAIN d.accs : ModeBefore(d, n) \in {"UNDEFINED", d.accs[n]}

BorderOf(mode) ==
  CASE mode = "CLAMP"  -> "BORDER_CLAMP"
    [] mode = "MIRROR" -> "BORDER_MIRROR"
    [] OTHER           -> "none"

(* The operator called: getImgFields() counts the output as well.          *)
FunctionFor(d) ==
  IF d.masks # {}
  THEN IF Len(d.accs) > 1 THEN "processMISO" ELSE "process"
  ELSE CASE Len(d.accs) <= 1 -> "processPixels"
         [] Len(d.accs) = 2 -> "processPixels2"
         [] OTHER           -> "processPixels3"

(* The assertions on the way: accessors agree, and a local operator's mode *)
(* is one the library knows.                                               *)
AssertionsHold(d) ==
  /\ ModesAgree(d)
  /\ d.masks # {} => BorderOf(ModeAfter(d)) # "none"

PrintKernel(d) ==
  /\ ~aborted
  /\ Len(calls) < MaxKernels
  /\ asserts => AssertionsHold(d)
  /\ vivadoSize' = SizeAfter(d)
  /\ vivadoBM' = ModeAfter(d)
  /\ calls' = Append(calls,
       [def |-> d, fn |-> FunctionFor(d), window |-> vivadoSize',
        border |-> IF d.masks # {} THEN BorderOf(vivadoBM') ELSE "none"])
  /\ UNCHANGED <<asserts, aborted>>

Abort(d) ==
  /\ ~aborted
  /\ Len(calls) < MaxKernels
  /\ asserts /\ ~AssertionsHold(d)
  /\ aborted' = TRUE
  /\ UNCHANGED <<asserts, vivadoBM, vivadoSize, calls>>

PrinterNext == \E d \in KernelDef : PrintKernel(d) \/ Abort(d)

PrinterSpec == PrinterInit /\ [][PrinterNext]_printerVars

-----------------------------------------------------------------------------
Uniform(d) == \A m, n \in DOMAIN d.accs : d.accs[m] = d.accs[n]
IsLocal(d) == d.masks # {}

(* Whatever was printed before, a local operator whose accessors agree is  *)
(* called with their border mode.                                          *)
OwnBorder ==
  \A n \in DOMAIN calls : LET d == calls[n].def IN
    IsLocal(d) /\ Uniform(d) /\ d.accs # << >> =>
      calls[n].border = BorderOf(d.accs[1])

(* The sizes of a kernel's masks along one axis, and those of them that    *)
(* are printed with as many digits as size e.                              *)
Extents(d, axis) == {MaskSize[m][axis] : m \in d.masks}
AsLong(d, axis, e) == {f \in Extents(d, axis) : Len(Str[f]) = Len(Str[e])}

(* Whatever was printed before, each side of a local operator's window     *)
(* is a side of one of its own masks, and no mask of as many digits is     *)
(* larger.  A mask of more digits may be: the window of masks 9 and 11     *)
(* wide is 9 wide, not the union of the comment at Rewrite.cpp:2840.       *)
WindowIsOwnMasks ==
  \A n \in DOMAIN calls : LET d == calls[n].def IN
    IsLocal(d) /\ d.accs # << >> => \A axis \in {"x", "y"} :
      \E e \in Extents(d, axis) :
        /\ calls[n].window[axis] = Str[e]
        /\ \A f \in AsLong(d, axis, e) : f <= e
=============================================================================
