--------------------------- MODULE MCHostDataDeps ---------------------------
(* Small host programs: every order of declarations and executions over a  *)
(* few declared names.                                                     *)
EXTENDS HostDataDeps, TLC

CtorUpTo2 ==
  [iter : IterationSpace, accs : UNION {[1..n -> Accessor] : n \in 0..2}]

Names == Permutations(Image) \cup Permutations(BoundaryCondition)
         \cup Permutations(Accessor) \cup Permutations(IterationSpace)
         \cup Permutations(Kernel)
=============================================================================
