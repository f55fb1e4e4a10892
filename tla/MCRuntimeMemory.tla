--------------------------- MODULE MCRuntimeMemory ---------------------------
(* RuntimeMemory on two images, of which one may be half as large, two     *)
(* pyramids of up to three levels and one accessor, on all targets.        *)
EXTENDS RuntimeMemory, TLC

CONSTANTS A, B, P, Q, acc

MCSizes   == {<<4, 4>>, <<2, 2>>}
MCDepths  == {2, 3}
MCRegions == {[width |-> 2, height |-> 2, x |-> 1, y |-> 2]}

MCTargets ==
  {[lang |-> "C99", texture |-> FALSE, alignment |-> 3],
   [lang |-> "CUDA", texture |-> FALSE, alignment |-> 3],
   [lang |-> "CUDA", texture |-> TRUE, alignment |-> 0],
   [lang |-> "OpenCL", texture |-> FALSE, alignment |-> 3],
   [lang |-> "OpenCL", texture |-> TRUE, alignment |-> 3],
   [lang |-> "Renderscript", texture |-> FALSE, alignment |-> 3],
   [lang |-> "Vivado", texture |-> FALSE, alignment |-> 3]}
Renaming == Permutations(ImageNames) \union Permutations(PyramidNames)
=============================================================================
