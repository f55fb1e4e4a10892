------------------------------ MODULE MCKernels ------------------------------
(* The rewriter at work on kernels.  For Vivado it prints what              *)
(* KernelPrinter says: kernels with a few accessors and masks.  For other   *)
(* languages it does what KernelArguments says: four kernels and thirteen   *)
(* combinations of language, device and options.                            *)
EXTENDS KernelPrinter, KernelArguments

VARIABLE emitVivado   \* the language is Vivado (-emit-vivado)

kernelsVars == <<emitVivado, printerVars, vars>>

Modes(n) == UNION {[1..k -> {"UNDEFINED", "CLAMP", "MIRROR"}] : k \in 1..n}

(* Local operators on up to two images, point operators on up to three.    *)
LibraryKernels ==
  [accs : Modes(2), masks : SUBSET Mask \ {{}}] \cup
  [accs : Modes(3), masks : {{}}]

(* Sizes of one digit and of two, along both axes.                         *)
OddSizes ==
  [m \in Mask |-> CASE m = "m1" -> [x |-> 9,  y |-> 5]
                    [] m = "m2" -> [x |-> 11, y |-> 13]
                    [] m = "m3" -> [x |-> 3,  y |-> 11]]

Init1(field, param, kind, strided) ==
  [field |-> field, param |-> param, kind |-> kind, strided |-> strided]

Space(crop) ==
  [kind |-> "IterationSpace", name |-> "IS", crop |-> crop, border |-> FALSE,
   sizeX |-> 1, sizeY |-> 1]
Acc(name, crop, border, sizeX, sizeY) ==
  [kind |-> "Accessor", name |-> name, crop |-> crop, border |-> border,
   sizeX |-> sizeX, sizeY |-> sizeY]
MaskArg(name, constant, copy) ==
  [kind |-> "Mask", name |-> name, constant |-> constant, copy |-> copy]
Value(name, variable) == [kind |-> "Value", name |-> name, variable |-> variable]

\* Two values, members initialised in the other order, under each other's names.
PointKernel ==
  [params |-> <<"is", "a", "in", "b">>,
   inits  |-> <<Init1("b", "a", "Normal", FALSE), Init1("is", "is", "IterationSpace", FALSE),
                Init1("a", "b", "Normal", FALSE), Init1("in", "in", "Image", FALSE)>>,
   args   |-> <<Space(FALSE), Value("2.f", FALSE), Acc("In", TRUE, FALSE, 1, 1),
                Value("gain", TRUE)>>,
   idle   |-> {}]

\* A tall window on a whole image, a mask computed at run time and its domain.
LocalKernel ==
  [params |-> <<"is", "in", "mask", "dom", "t">>,
   inits  |-> <<Init1("is", "is", "IterationSpace", FALSE), Init1("in", "in", "Image", TRUE),
                Init1("dom", "dom", "Mask", FALSE), Init1("mask", "mask", "Mask", FALSE),
                Init1("t", "t", "Normal", FALSE)>>,
   args   |-> <<Space(FALSE), Acc("In", FALSE, TRUE, 3, 13), MaskArg("M", FALSE, ""),
                MaskArg("D", FALSE, "M"), Value("0.5f", FALSE)>>,
   idle   |-> {}]

\* Two images, one without border mode, on a region; an unused value.
BilateralKernel ==
  [params |-> <<"is", "left", "right", "mask", "s">>,
   inits  |-> <<Init1("s", "s", "Normal", FALSE), Init1("right", "left", "Image", TRUE),
                Init1("left", "right", "Image", FALSE), Init1("mask", "mask", "Mask", FALSE),
                Init1("is", "is", "IterationSpace", FALSE)>>,
   args   |-> <<Space(TRUE), Acc("L", FALSE, FALSE, 5, 3), Acc("R", TRUE, FALSE, 1, 1),
                MaskArg("C", TRUE, ""), Value("s", TRUE)>>,
   idle   |-> {"s"}]

\* A row filter, the iteration space given last, a mask the body does not read.
RowKernel ==
  [params |-> <<"in", "mask", "dom", "is">>,
   inits  |-> <<Init1("is", "is", "IterationSpace", FALSE), Init1("in", "in", "Image", TRUE),
                Init1("mask", "mask", "Mask", FALSE), Init1("dom", "dom", "Mask", FALSE)>>,
   args   |-> <<Acc("In", TRUE, TRUE, 9, 1), MaskArg("M", FALSE, ""), MaskArg("D", FALSE, ""),
                Space(FALSE)>>,
   idle   |-> {"mask"}]

MCPrograms == {PointKernel, LocalKernel, BilateralKernel, RowKernel}

Plain(lang, jit) ==
  [lang |-> lang, jit |-> jit, userConfig |-> FALSE, padding |-> FALSE, explore |-> FALSE,
   time |-> FALSE, ppt |-> 1, local |-> 9999, texture |-> "None"]

MCTargets ==
  LET cuda == Plain("CUDA", TRUE)
      cl   == Plain("OpenCL", TRUE)
      rs   == Plain("Renderscript", FALSE)
  IN {Plain("C99", FALSE), [Plain("C99", FALSE) EXCEPT !.padding = TRUE],
      cuda, [cuda EXCEPT !.local = 6, !.texture = "Linear1D"],
      [cuda EXCEPT !.texture = "Array2D", !.padding = TRUE, !.time = TRUE],
      [cuda EXCEPT !.local = 2, !.texture = "Ldg", !.ppt = 4],
      [cuda EXCEPT !.explore = TRUE, !.local = 6], [cuda EXCEPT !.userConfig = TRUE],
      cl, [cl EXCEPT !.local = 11, !.texture = "Array2D"], [cl EXCEPT !.jit = FALSE],
      rs, [rs EXCEPT !.padding = TRUE, !.explore = TRUE]}

MCDefaultThreads == [x |-> 32, y |-> 2]

(* A program is translated for one language; the other half stands still.   *)
KernelsInit ==
  /\ emitVivado \in BOOLEAN
  /\ PrinterInit
  /\ Init
  /\ IF emitVivado THEN program = PointKernel /\ target = Plain("C99", FALSE)
                   ELSE ~asserts

KernelsNext ==
  \/ emitVivado /\ PrinterNext /\ UNCHANGED <<emitVivado, vars>>
  \/ ~emitVivado /\ Next /\ UNCHANGED <<emitVivado, printerVars>>

KernelsSpec == KernelsInit /\ [][KernelsNext]_kernelsVars
=============================================================================
