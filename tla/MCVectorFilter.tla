--------------------------- MODULE MCVectorFilter ---------------------------
(* Calls of the vector operators on small images.                          *)
EXTENDS VectorFilter

AtLeastOne(n) == IF n = 0 THEN 1 ELSE n

Calls(ops, streams, kernelX, kernelY, vects, widths, paddings) ==
  [op : ops, streams : streams, kernelX : {kernelX}, kernelY : {kernelY},
   vect : vects, width : widths,
   height : AtLeastOne(kernelY - 1)..(IF kernelY < 5 THEN 4 ELSE kernelY - 1),
   padding : paddings]

Paddings == {"CLAMP", "MIRROR", "MIRROR_101"}

(* Windows of up to three words and of more, centred and not.              *)
LocalCalls ==
  Calls(PixelLocal, {1}, 3, 3, {1, 2, 4}, 2..MaxWidth, Paddings)
  \cup Calls({"processVECT"}, {1}, 7, 3, {1, 2, 4}, 6..MaxWidth,
                 Paddings)
  \cup Calls({"processVECT"}, {1}, 5, 1, {1, 2}, 4..MaxWidth, Paddings)
  \cup Calls({"processMISOVECT"}, {1}, 1, 5, {2, 4}, 1..MaxWidth, Paddings)
PointCalls ==
  Calls({"processPixelsVECT", "processPixelsVECTF"}, {1, 2, 3}, 3, 3, {2, 4},
        1..MaxWidth, {"CLAMP"})
  \cup Calls({"splitStreamVECT"}, {2, 3, 4}, 5, 3, {2, 4}, 1..MaxWidth, {"CLAMP"})


(* The older operators: sizes in words, a square window.                   *)
WordCalls(op, vect, kernels, widths) ==
  UNION {Calls({op}, {1}, k, k, {vect}, widths, Paddings) : k \in kernels}
OlderCalls ==
  WordCalls("processVECT2F", 2, {3}, {4, 12})
  \cup WordCalls("processVECT2", 2, {3, 5}, {4})
  \cup WordCalls("processVECT3", 3, {3}, {3, 5})
  \cup WordCalls("processVECT4F", 4, {3}, {4, 5})
  \cup WordCalls("processMISOVECT4", 4, {3}, {3, 5})
  \cup WordCalls("processVECT4", 4, {3, 5}, {4, 6})
  \cup WordCalls("processVECT4", 4, {11}, {5, 6})
  \cup WordCalls("processVECT8", 8, {3, 5}, {4, 6})
  \cup WordCalls("processVECT16", 16, {3}, {3})
  \cup WordCalls("processVECT32", 32, {3}, {3})
  \cup WordCalls("processVECT64", 64, {3}, {3})
  \cup Calls({"processPixelsVECT of words"}, {1, 2, 3}, 3, 3, {4}, {3, 5}, {"CLAMP"})
  \cup Calls(Pyramid, {1}, 3, 3, {4}, 2..4, {"CLAMP"})

SmallCalls == LocalCalls \cup PointCalls \cup OlderCalls
=============================================================================
