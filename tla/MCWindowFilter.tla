--------------------------- MODULE MCWindowFilter ---------------------------
(* Calls of the operators on small images.                                 *)
EXTENDS WindowFilter

Calls(ops, kernelX, kernelY, widths, heights, paddings, factors) ==
  [op : ops, streams : {1}, kernelX : {kernelX}, kernelY : {kernelY},
   width : widths, height : heights, padding : paddings, factor : factors]

Paddings == {"CLAMP", "MIRROR", "MIRROR_101"}

(* Images at least as large as the window less one pixel.                  *)
AtLeast(n) == IF n = 0 THEN 1 ELSE n
LocalCalls(kernelX, kernelY) ==
  Calls({"process", "processSIMO", "processMISO"}, kernelX, kernelY,
        AtLeast(kernelX - 1)..MaxWidth, AtLeast(kernelY - 1)..MaxHeight,
        Paddings, {1})
PyramidCalls ==
  Calls({"downsample", "upsample"}, 3, 3, 2..MaxWidth, 2..MaxHeight,
        Paddings, {2})

PointCalls ==
  [op : {"processPixels"}, streams : {1, 2, 3}, kernelX : {3}, kernelY : {3},
   width : 1..MaxWidth, height : {1, 3}, padding : {"CLAMP"}, factor : {1}]
  \cup
  [op : {"splitStream"}, streams : {2, 3, 4}, kernelX : {5}, kernelY : {3},
   width : 1..MaxWidth, height : {1, 3}, padding : {"CLAMP"}, factor : {1}]

SmallCalls ==
  LocalCalls(5, 3) \cup LocalCalls(3, 5) \cup LocalCalls(1, 3)
  \cup LocalCalls(3, 1) \cup PyramidCalls
  \cup PointCalls
=============================================================================
