-------------------------- MODULE MCStreamSchedule --------------------------
(* Host programs over a few images.  They start after the declarations of  *)
(* the images and of one accessor and one iteration space per image (the   *)
(* orders of declarations are explored by MCHostDataDeps); kernels are     *)
(* declared and executed in every order.                                   *)
EXTENDS StreamSchedule, TLC

AccessorOf(i)       == <<"acc", i>>
IterationSpaceOf(i) == <<"iter", i>>

OneAccessorPerImage       == {AccessorOf(i) : i \in Image}
OneIterationSpacePerImage == {IterationSpaceOf(i) : i \in Image}

CtorAny ==
  [iter : OneIterationSpacePerImage,
   accs : UNION {[1..n -> OneAccessorPerImage] : n \in 1..MaxAccs}]
CtorOutOfPlace ==
  {c \in CtorAny : \A n \in DOMAIN c.accs : c.accs[n][2] # c.iter[2]}

DeclaredInit ==
  /\ imgMap = Image
  /\ bcMap = << >>
  /\ accMap = [a \in Accessor |-> a[2]]
  /\ iterMap = [s \in IterationSpace |-> s[2]]
  /\ kernelMap = << >>
  /\ spaces = << >>
  /\ processes = << >>
  /\ link = 0
  /\ MarkInit

DeclaredSpec ==
  DeclaredInit /\ [][ScheduleNext]_vars /\ WF_vars(Mark)

Names == Permutations(Image) \cup Permutations(Kernel)
=============================================================================
