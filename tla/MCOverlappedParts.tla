-------------------------- MODULE MCOverlappedParts --------------------------
(* Layouts of up to sixteen parts.                                         *)
EXTENDS OverlappedParts

Layouts(parts, vects, radii, widths, heights, paddings, floats, anyOrder) ==
  {[parts |-> l.parts, vect |-> l.vect, radius |-> l.radius, width |-> l.width,
    maxWidth |-> l.width, height |-> l.height, padding |-> l.padding,
    cut |-> l.width \div l.parts,
    fixed |-> FALSE, float |-> l.float, anyOrder |-> anyOrder] :
   l \in [parts : parts, vect : vects, radius : radii, width : widths,
          height : heights, padding : paddings, float : floats]}

Fixed(cut, layouts) ==
  {[l EXCEPT !.cut = cut, !.fixed = TRUE] : l \in layouts}

Paddings == {"CLAMP", "MIRROR", "MIRROR_101"}

(* Two parts in every order; more parts in one order.                      *)
SmallLayouts ==
  Layouts({2}, {1}, {1}, {4}, {3}, {"CLAMP"}, {FALSE}, TRUE)
  \cup Layouts({2}, {1, 2}, {1}, {4, 5}, {3, 4}, Paddings, BOOLEAN, FALSE)
  \cup Fixed(3, Layouts({2}, {2}, {1}, {5}, {3}, {"MIRROR"}, {FALSE}, FALSE))
  \cup Layouts({2}, {2}, {2}, {4, 5}, {5}, Paddings, {FALSE}, FALSE)
  \cup Layouts({2}, {2}, {3}, {8}, {7}, Paddings, {FALSE}, FALSE)
  \cup Layouts({4}, {1, 2}, {1}, {8, 10}, {3}, Paddings, BOOLEAN, FALSE)
  \cup Layouts({4}, {1}, {2}, {16}, {5}, {"MIRROR"}, {FALSE}, FALSE)
  \cup Layouts({8}, {2}, {1}, {16}, {3}, {"CLAMP"}, {FALSE}, FALSE)
  \cup Layouts({16}, {1}, {1}, {33}, {3}, {"CLAMP"}, {FALSE}, FALSE)

(* A few layouts of two parts.                                             *)
TwoParts == Layouts({2}, {1, 2}, {1}, {4}, {3}, {"CLAMP"}, BOOLEAN, FALSE)
=============================================================================
