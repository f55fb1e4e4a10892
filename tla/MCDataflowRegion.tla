-------------------------- MODULE MCDataflowRegion --------------------------
(* Host programs that start after all declarations; the kernels are        *)
(* executed in every order.                                                *)
EXTENDS DataflowRegion, TLC

AccessorOf(i)       == <<"acc", i>>
IterationSpaceOf(i) == <<"iter", i>>

OneAccessorPerImage       == {AccessorOf(i) : i \in Image}
OneIterationSpacePerImage == {IterationSpaceOf(i) : i \in Image}

CtorAny ==
  [iter : OneIterationSpacePerImage,
   accs : UNION {[1..n -> OneAccessorPerImage] : n \in 1..MaxAccs}]

CONSTANTS k1, k2, i1, i2

(* A window of one row and a window of one column.                         *)
OneLocal == k1 :> [x |-> 1, y |-> 0] @@ k2 :> [x |-> 0, y |-> 1]

DeclaredInit ==
  /\ imgMap = Image
  /\ bcMap = << >>
  /\ accMap = [a \in Accessor |-> a[2]]
  /\ iterMap = [s \in IterationSpace |-> s[2]]
  /\ kernelMap \in [Kernel -> Ctor]
  /\ kernelMap[k1].iter[2] = i1
  /\ kernelMap[k2].iter[2] \in {i1, i2}
  /\ spaces = << >>
  /\ processes = << >>
  /\ link = 0
  /\ MarkInit
  /\ RunInit

DeclaredSpec == DeclaredInit /\ [][RegionNext]_allVars /\ RegionFairness
=============================================================================
