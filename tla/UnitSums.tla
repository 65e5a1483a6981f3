------------------------------ MODULE UnitSums ------------------------------
(***************************************************************************)
(* Sums of amounts of money, in whole micro-dollars, over the rows of a    *)
(* table.  The sum of f is counted rather than folded: row x contributes   *)
(* the f[x] units <<x, 1>> .. <<x, f[x]>>, and the sum is the number of    *)
(* units.  A count needs no recursive definition, so what it promises can  *)
(* be proved from the theorems about finite sets (UnitSumTheorems).        *)
(***************************************************************************)
EXTENDS Integers, FiniteSets

UnitsOf(f, x) == {x} \X (1..f[x])

Units(f) == UNION {UnitsOf(f, x) : x \in DOMAIN f}

\* SELECT COALESCE(SUM(f), 0)
Total(f) == Cardinality(Units(f))
=============================================================================
