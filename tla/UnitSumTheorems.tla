-------------------------- MODULE UnitSumTheorems --------------------------
(***************************************************************************)
(* What a sum over the rows of a finite table is worth: it is a natural    *)
(* number, rewriting one row moves it by the difference, a table of zeroes *)
(* sums to zero, and tables of different rows add up.                      *)
(***************************************************************************)
EXTENDS UnitSums, FiniteSetTheorems, FunctionTheorems, TLAPS

\* A row of amount n contributes exactly n units.
LEMMA UnitsOfSize ==
    ASSUME NEW S, NEW f \in [S -> Nat], NEW x \in S
    PROVE  /\ IsFiniteSet(UnitsOf(f, x))
           /\ Cardinality(UnitsOf(f, x)) = f[x]
<1>1. IsFiniteSet({x}) /\ Cardinality({x}) = 1
  BY FS_Singleton
<1>2. f[x] \in Nat
  OBVIOUS
<1>3. IsFiniteSet(1..f[x]) /\ Cardinality(1..f[x]) = f[x]
  BY <1>2, FS_Interval
<1>4. /\ IsFiniteSet({x} \X (1..f[x]))
      /\ Cardinality({x} \X (1..f[x])) = Cardinality({x}) * Cardinality(1..f[x])
  BY <1>1, <1>3, FS_Product
<1> QED
  BY <1>1, <1>2, <1>3, <1>4 DEF UnitsOf

\* The units of a finite table are finitely many, so their number is a number.
LEMMA UnitsFinite ==
    ASSUME NEW S, IsFiniteSet(S), NEW f \in [S -> Nat]
    PROVE  IsFiniteSet(Units(f)) /\ Total(f) \in Nat
<1> DEFINE T == {UnitsOf(f, x) : x \in S}
           g == [x \in S |-> UnitsOf(f, x)]
<1>1. g \in Surjection(S, T)
  BY DEF Surjection
<1>2. IsFiniteSet(T)
  BY <1>1, FS_Surjection
<1>3. \A U \in T : IsFiniteSet(U)
  BY UnitsOfSize
<1>4. IsFiniteSet(UNION T)
  BY <1>2, <1>3, FS_UNION
<1>5. Units(f) = UNION T
  BY DEF Units
<1> QED
  BY <1>4, <1>5, FS_CardinalityType DEF Total

\* Rewriting one row moves the sum by the difference of the two amounts.
THEOREM TotalUpdate ==
    ASSUME NEW S, IsFiniteSet(S), NEW f \in [S -> Nat], NEW x \in S, NEW v \in Nat
    PROVE  Total([f EXCEPT ![x] = v]) = Total(f) - f[x] + v
<1> DEFINE g == [f EXCEPT ![x] = v]
           rest == Units(f) \ UnitsOf(f, x)
<1> SUFFICES Total(g) = Total(f) - f[x] + v
  OBVIOUS
<1>1. g \in [S -> Nat] /\ g[x] = v /\ \A y \in S \ {x} : g[y] = f[y]
  OBVIOUS
<1> HIDE DEF g
<1>2. /\ IsFiniteSet(Units(f)) /\ IsFiniteSet(Units(g))
      /\ Total(f) \in Nat /\ Total(g) \in Nat
  BY <1>1, UnitsFinite
<1>3. UnitsOf(f, x) \subseteq Units(f)
  BY DEF Units
<1>4. /\ IsFiniteSet(UnitsOf(f, x)) /\ Cardinality(UnitsOf(f, x)) = f[x]
      /\ IsFiniteSet(UnitsOf(g, x)) /\ Cardinality(UnitsOf(g, x)) = v
  <2>1. IsFiniteSet(UnitsOf(f, x)) /\ Cardinality(UnitsOf(f, x)) = f[x]
    BY UnitsOfSize
  <2>2. IsFiniteSet(UnitsOf(g, x)) /\ Cardinality(UnitsOf(g, x)) = g[x]
    BY <1>1, UnitsOfSize
  <2> QED
    BY <1>1, <2>1, <2>2
<1>5. Units(f) \cap UnitsOf(f, x) = UnitsOf(f, x)
  BY <1>3
<1>6. IsFiniteSet(rest) /\ Cardinality(rest) = Total(f) - f[x]
  <2>1. /\ IsFiniteSet(rest)
        /\ Cardinality(rest) =
             Cardinality(Units(f)) - Cardinality(Units(f) \cap UnitsOf(f, x))
    BY <1>2, FS_Difference
  <2> QED
    BY <1>4, <1>5, <2>1 DEF Total
<1>7. \A u \in UnitsOf(f, x) \cup UnitsOf(g, x) : u[1] = x
  BY DEF UnitsOf
<1>8. \A y \in S \ {x} : \A u \in UnitsOf(f, y) : u[1] = y
  BY DEF UnitsOf
<1>9. rest = (UNION {UnitsOf(f, y) : y \in S \ {x}})
  BY <1>7, <1>8 DEF Units
<1>10. rest \cap UnitsOf(g, x) = {}
  BY <1>7, <1>8, <1>9
<1>11. Units(g) = (UNION {UnitsOf(g, y) : y \in S \ {x}}) \cup UnitsOf(g, x)
  BY <1>1 DEF Units
<1>12. \A y \in S \ {x} : UnitsOf(g, y) = UnitsOf(f, y)
  BY <1>1 DEF UnitsOf
<1>13. Units(g) = rest \cup UnitsOf(g, x)
  BY <1>9, <1>11, <1>12
<1>14. Cardinality(rest \cup UnitsOf(g, x)) =
         Cardinality(rest) + Cardinality(UnitsOf(g, x)) - Cardinality({})
  BY <1>4, <1>6, <1>10, FS_Union
<1>15. f[x] \in Nat
  OBVIOUS
<1>16. Total(g) = Cardinality(rest) + v
  BY <1>2, <1>4, <1>6, <1>13, <1>14, <1>15, FS_EmptySet DEF Total
<1> QED
  BY <1>2, <1>6, <1>15, <1>16

\* A sum of nothing but zeroes is zero: an empty ledger holds nothing.
THEOREM TotalZero ==
    ASSUME NEW S, NEW f, DOMAIN f = S, \A x \in S : f[x] = 0
    PROVE  Total(f) = 0
<1>1. \A x \in S : UnitsOf(f, x) = {}
  BY DEF UnitsOf
<1>2. Units(f) = {}
  BY <1>1 DEF Units
<1> QED
  BY <1>2, FS_EmptySet DEF Total

\* Two tables that hold nothing of the same row add up row by row.
THEOREM TotalDisjoint ==
    ASSUME NEW S, IsFiniteSet(S), NEW f \in [S -> Nat], NEW g \in [S -> Nat],
           NEW h \in [S -> Nat],
           \A x \in S : (f[x] = 0 /\ h[x] = g[x]) \/ (g[x] = 0 /\ h[x] = f[x])
    PROVE  Total(h) = Total(f) + Total(g)
<1>1. /\ IsFiniteSet(Units(f)) /\ IsFiniteSet(Units(g))
      /\ Total(f) \in Nat /\ Total(g) \in Nat
  BY UnitsFinite
<1>2. \A x \in S : /\ f[x] = 0 => UnitsOf(f, x) = {}
                   /\ g[x] = 0 => UnitsOf(g, x) = {}
                   /\ h[x] = f[x] => UnitsOf(h, x) = UnitsOf(f, x)
                   /\ h[x] = g[x] => UnitsOf(h, x) = UnitsOf(g, x)
  BY DEF UnitsOf
<1>3. \A x \in S : UnitsOf(h, x) = UnitsOf(f, x) \cup UnitsOf(g, x)
  BY <1>2
<1>4. Units(h) = Units(f) \cup Units(g)
  BY <1>3 DEF Units
<1>5. Units(f) \cap Units(g) = {}
  <2> SUFFICES ASSUME NEW u \in Units(f), u \in Units(g) PROVE FALSE
    OBVIOUS
  <2>1. PICK x \in S : u \in UnitsOf(f, x)
    BY DEF Units
  <2>2. PICK y \in S : u \in UnitsOf(g, y)
    BY DEF Units
  <2>3. x = y
    BY <2>1, <2>2 DEF UnitsOf
  <2> QED
    BY <1>2, <2>1, <2>2, <2>3
<1>6. Total(h) = Total(f) + Total(g) - 0
  BY <1>1, <1>4, <1>5, FS_Union, FS_EmptySet DEF Total
<1> QED
  BY <1>1, <1>6

\* A new row adds its amount.
THEOREM TotalExtend ==
    ASSUME NEW S, IsFiniteSet(S), NEW f \in [S -> Nat], NEW x, x \notin S,
           NEW g \in [S \cup {x} -> Nat], \A y \in S : g[y] = f[y]
    PROVE  Total(f) \in Nat /\ Total(g) = Total(f) + g[x]
<1>1. \A y \in S : UnitsOf(g, y) = UnitsOf(f, y)
  BY DEF UnitsOf
<1>2. Units(g) = Units(f) \cup UnitsOf(g, x)
  BY <1>1 DEF Units
<1>3. IsFiniteSet(S \cup {x})
  BY FS_AddElement
<1>4. IsFiniteSet(Units(f)) /\ Total(f) \in Nat
  BY UnitsFinite
<1>5. IsFiniteSet(UnitsOf(g, x)) /\ Cardinality(UnitsOf(g, x)) = g[x]
  <2> DEFINE T == S \cup {x}
  <2>1. g \in [T -> Nat] /\ x \in T
    OBVIOUS
  <2> HIDE DEF T
  <2> QED
    BY <2>1, UnitsOfSize
<1>6. Units(f) \cap UnitsOf(g, x) = {}
  BY DEF Units, UnitsOf
<1>7. Cardinality(Units(f) \cup UnitsOf(g, x)) = Cardinality(Units(f)) + Cardinality(UnitsOf(g, x)) - 0
  BY <1>4, <1>5, <1>6, FS_Union, FS_EmptySet
<1> QED
  BY <1>2, <1>4, <1>5, <1>7 DEF Total
=============================================================================
