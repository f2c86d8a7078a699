-------------------------------- MODULE Totals --------------------------------
(* Sums of functions with natural values, as the size of a set: an element is  *)
(* represented by as many units as its value, and the sum counts the units.    *)
(* Written this way a sum can be reasoned about from the finite set theorems.  *)
EXTENDS Integers, FiniteSets

Units(f) == UNION {{x} \X (1 .. f[x]) : x \in DOMAIN f}

Total(f) == Cardinality(Units(f))

Without(f, x) == [y \in DOMAIN f \ {x} |-> f[y]]
==============================================================================
