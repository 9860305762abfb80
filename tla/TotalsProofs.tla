---------------------------- MODULE TotalsProofs -----------------------------
(***************************************************************************)
(* Laws of Total, the sums the other modules' invariants are written with. *)
(* They are what an inductive proof about a sum needs: the sum exists, and *)
(* changing the function at one place changes the sum by that much.  The   *)
(* laws that relate two whole sums are proved by induction over the        *)
(* subsets of the set summed over.                                         *)
(***************************************************************************)
EXTENDS Totals, FiniteSetTheorems, WellFoundedInduction, TLAPS

\* The functions a sum is taken of: natural numbers on a finite set.
Summable(f, S) == IsFiniteSet(S) /\ \A x \in S : f[x] \in Nat

LEMMA UnitsFinite ==
  ASSUME NEW f, NEW S, Summable(f, S)
  PROVE  IsFiniteSet(Units(f, S))
<1> DEFINE Places == {{x} \X (1..f[x]) : x \in S}
           g      == [x \in S |-> {x} \X (1..f[x])]
<1>1. g \in Surjection(S, Places)
  BY DEF Surjection
<1>2. IsFiniteSet(Places)
  <2>1. IsFiniteSet(S)
    BY DEF Summable
  <2> HIDE DEF g, Places
  <2> QED
    BY <1>1, <2>1, FS_Surjection
<1>3. ASSUME NEW x \in S PROVE IsFiniteSet({x} \X (1..f[x]))
  <2>1. IsFiniteSet({x})
    BY FS_Singleton
  <2>2. IsFiniteSet(1..f[x])
    <3>1. f[x] \in Int
      BY DEF Summable
    <3> QED
      BY <3>1, FS_Interval
  <2> QED
    BY <2>1, <2>2, FS_Product
<1>4. \A T \in Places : IsFiniteSet(T)
  BY <1>3
<1>5. Units(f, S) = UNION Places
  BY DEF Units
<1> HIDE DEF Places
<1> QED
  BY <1>2, <1>4, <1>5, FS_UNION

LEMMA TotalIsNat ==
  ASSUME NEW f, NEW S, Summable(f, S)
  PROVE  Total(f, S) \in Nat
  BY UnitsFinite, FS_CardinalityType DEF Total

LEMMA TotalOfNothing ==
  ASSUME NEW f
  PROVE  Total(f, {}) = 0
<1>1. Units(f, {}) = {}
  BY DEF Units
<1> QED
  BY <1>1, FS_EmptySet DEF Total

\* The sum depends on the values in the set alone.
LEMMA TotalSame ==
  ASSUME NEW f, NEW g, NEW S, \A x \in S : f[x] = g[x]
  PROVE  Total(f, S) = Total(g, S)
<1>1. Units(f, S) = Units(g, S)
  BY DEF Units
<1> QED
  BY <1>1 DEF Total

\* The units at one place are as many as the value there.
LEMMA UnitsAt ==
  ASSUME NEW x, NEW n \in Nat
  PROVE  IsFiniteSet({x} \X (1..n)) /\ Cardinality({x} \X (1..n)) = n
<1>1. IsFiniteSet({x}) /\ Cardinality({x}) = 1
  BY FS_Singleton
<1>2. IsFiniteSet(1..n) /\ Cardinality(1..n) = n
  BY FS_Interval
<1>3. /\ IsFiniteSet({x} \X (1..n))
      /\ Cardinality({x} \X (1..n)) = Cardinality({x}) * Cardinality(1..n)
  BY <1>1, <1>2, FS_Product
<1> QED
  BY <1>1, <1>2, <1>3

LEMMA TotalSplit ==
  ASSUME NEW f, NEW S, Summable(f, S), NEW x \in S
  PROVE  Total(f, S) = Total(f, S \ {x}) + f[x]
<1> DEFINE Rest == Units(f, S \ {x})
           Here == {x} \X (1..f[x])
<1>1. f[x] \in Nat
  BY DEF Summable
<1>2. IsFiniteSet(Here) /\ Cardinality(Here) = f[x]
  BY <1>1, UnitsAt
<1>3. Summable(f, S \ {x})
  BY FS_RemoveElement DEF Summable
<1>4. IsFiniteSet(Rest) /\ Cardinality(Rest) \in Nat
  BY <1>3, UnitsFinite, FS_CardinalityType
<1>5. Units(f, S) = Rest \cup Here
  BY DEF Units
<1>6. Rest \cap Here = {}
  BY DEF Units
<1> HIDE DEF Rest, Here
<1>7. Cardinality(Rest \cup Here) =
        Cardinality(Rest) + Cardinality(Here) - Cardinality(Rest \cap Here)
  BY <1>2, <1>4, FS_Union
<1>8. Cardinality(Rest \cap Here) = 0
  BY <1>6, FS_EmptySet
<1> QED
  BY <1>1, <1>2, <1>4, <1>5, <1>7, <1>8 DEF Total, Rest

LEMMA TotalAdded ==
  ASSUME NEW f, NEW S, Summable(f, S), NEW x, x \notin S, f[x] \in Nat
  PROVE  Total(f, S \cup {x}) = Total(f, S) + f[x]
<1>1. Summable(f, S \cup {x})
  BY FS_AddElement DEF Summable
<1>2. (S \cup {x}) \ {x} = S
  OBVIOUS
<1>3. Total(f, S \cup {x}) = Total(f, (S \cup {x}) \ {x}) + f[x]
  BY <1>1, TotalSplit
<1> QED
  BY <1>2, <1>3

\* Changing the function at one place.
LEMMA TotalChanged ==
  ASSUME NEW f, NEW g, NEW S, Summable(f, S), NEW x \in S, g[x] \in Nat,
         \A y \in S \ {x} : g[y] = f[y]
  PROVE  Total(g, S) = Total(f, S) - f[x] + g[x]
<1>1. Summable(g, S) /\ f[x] \in Nat
  BY DEF Summable
<1>2. Total(f, S) = Total(f, S \ {x}) + f[x]
  BY TotalSplit
<1>3. Total(g, S) = Total(g, S \ {x}) + g[x]
  BY <1>1, TotalSplit
<1>4. Total(g, S \ {x}) = Total(f, S \ {x})
  BY TotalSame
<1>5. Total(f, S \ {x}) \in Nat
  <2>1. Summable(f, S \ {x})
    BY FS_RemoveElement DEF Summable
  <2> QED
    BY <2>1, TotalIsNat
<1> QED
  BY <1>1, <1>2, <1>3, <1>4, <1>5

\* A part of the set, or one place of it, holds no more than the whole.
LEMMA TotalOfPart ==
  ASSUME NEW f, NEW S, Summable(f, S), NEW T \in SUBSET S
  PROVE  Total(f, T) <= Total(f, S)
<1>1. Units(f, T) \in SUBSET Units(f, S)
  BY DEF Units
<1>2. IsFiniteSet(Units(f, S))
  BY UnitsFinite
<1> QED
  BY <1>1, <1>2, FS_Subset DEF Total

\* A sum over a set is the sum over a part of it and over the rest.
LEMMA TotalPartition ==
  ASSUME NEW f, NEW S, Summable(f, S), NEW T \in SUBSET S
  PROVE  Total(f, S) = Total(f, T) + Total(f, S \ T)
<1> DEFINE In  == Units(f, T)
           Out == Units(f, S \ T)
<1>1. Summable(f, T) /\ Summable(f, S \ T)
  BY FS_Subset DEF Summable
<1>2. /\ IsFiniteSet(In) /\ Cardinality(In) \in Nat
      /\ IsFiniteSet(Out) /\ Cardinality(Out) \in Nat
  BY <1>1, UnitsFinite, FS_CardinalityType
<1>3. Units(f, S) = In \cup Out
  BY DEF Units
<1>4. In \cap Out = {}
  BY DEF Units
<1> HIDE DEF In, Out
<1>5. Cardinality(In \cup Out) =
        Cardinality(In) + Cardinality(Out) - Cardinality(In \cap Out)
  BY <1>2, FS_Union
<1>6. Cardinality(In \cap Out) = 0
  BY <1>4, FS_EmptySet
<1>7. Cardinality(In \cup Out) = Cardinality(In) + Cardinality(Out)
  BY <1>2, <1>5, <1>6
<1> QED
  BY <1>3, <1>7 DEF Total, In, Out

LEMMA TotalAtLeast ==
  ASSUME NEW f, NEW S, Summable(f, S), NEW x \in S
  PROVE  f[x] <= Total(f, S)
<1>1. Summable(f, S \ {x}) /\ f[x] \in Nat
  BY FS_RemoveElement DEF Summable
<1>2. Total(f, S \ {x}) \in Nat
  BY <1>1, TotalIsNat
<1> QED
  BY <1>1, <1>2, TotalSplit

\* A transfer between two places of the set keeps the sum, up to what is lost
\* on the way.
LEMMA TotalMoved ==
  ASSUME NEW f, NEW g, NEW S, Summable(f, S), NEW x \in S, NEW y \in S, x # y,
         g[x] \in Nat, g[y] \in Nat,
         \A z \in S \ {x, y} : g[z] = f[z]
  PROVE  Total(g, S) = Total(f, S) - f[x] - f[y] + g[x] + g[y]
<1>1. Summable(g, S) /\ Summable(f, S \ {x}) /\ f[x] \in Nat /\ f[y] \in Nat
  BY FS_RemoveElement DEF Summable
<1>2. Total(f, S) = Total(f, S \ {x}) + f[x]
  BY TotalSplit
<1>3. Total(g, S) = Total(g, S \ {x}) + g[x]
  BY <1>1, TotalSplit
<1>4. Total(g, S \ {x}) = Total(f, S \ {x}) - f[y] + g[y]
  <2>1. y \in S \ {x} /\ \A z \in (S \ {x}) \ {y} : g[z] = f[z]
    OBVIOUS
  <2> QED
    BY <1>1, <2>1, TotalChanged
<1>5. Total(f, S \ {x}) \in Nat
  BY <1>1, TotalIsNat
<1> QED
  BY <1>1, <1>2, <1>3, <1>4, <1>5

(***************************************************************************)
(* Induction over finite sets, and the laws proved with it.                *)
(***************************************************************************)
\* Induction over the subsets of a finite set, with the induction hypothesis
\* given as the set of subsets it holds of: a least counterexample under
\* inclusion would be a set the step leads to from a smaller one.
LEMMA SubsetInduction ==
  ASSUME NEW S, IsFiniteSet(S), NEW Good, {} \in Good,
         \A A \in SUBSET S : \A x \in S \ A : A \in Good => A \cup {x} \in Good
  PROVE  S \in Good
<1> DEFINE Bad == {A \in SUBSET S : A \notin Good}
           R   == StrictSubsetOrdering(S)
<1> SUFFICES ASSUME S \notin Good PROVE FALSE
  OBVIOUS
<1>1. IsWellFoundedOn(R, SUBSET S)
  BY FS_StrictSubsetOrderingWellFounded, FS_FiniteSubsetsOfFinite
<1>2. Bad \subseteq SUBSET S /\ Bad # {}
  OBVIOUS
<1>3. PICK A \in Bad : \A B \in Bad : <<B, A>> \notin R
  <2> HIDE DEF Bad, R
  <2> QED
    BY <1>1, <1>2, WFMin
<1>4. PICK x : x \in A
  BY <1>3
<1>5. A \ {x} \in SUBSET S /\ x \in S \ (A \ {x}) /\ A = (A \ {x}) \cup {x}
  BY <1>3, <1>4
<1>6. A \ {x} \in Good
  BY <1>3, <1>4, <1>5 DEF StrictSubsetOrdering
<1> QED
  BY <1>3, <1>5, <1>6

\* The sum of a sum.
LEMMA TotalOfSum ==
  ASSUME NEW f, NEW g, NEW h, NEW S, Summable(f, S), Summable(g, S),
         \A x \in S : h[x] = f[x] + g[x]
  PROVE  Total(h, S) = Total(f, S) + Total(g, S)
<1> DEFINE Good == {A \in SUBSET S : Total(h, A) = Total(f, A) + Total(g, A)}
<1>0. IsFiniteSet(S) /\ Summable(h, S)
  BY DEF Summable
<1>1. {} \in Good
  BY TotalOfNothing
<1>2. ASSUME NEW A \in SUBSET S, NEW x \in S \ A, A \in Good
      PROVE  A \cup {x} \in Good
  <2>1. Summable(f, A) /\ Summable(g, A) /\ Summable(h, A)
    BY <1>0, FS_Subset DEF Summable
  <2>2. f[x] \in Nat /\ g[x] \in Nat /\ h[x] = f[x] + g[x]
    BY DEF Summable
  <2>3. Total(f, A \cup {x}) = Total(f, A) + f[x]
    BY <2>1, <2>2, TotalAdded
  <2>4. Total(g, A \cup {x}) = Total(g, A) + g[x]
    BY <2>1, <2>2, TotalAdded
  <2>5. Total(h, A \cup {x}) = Total(h, A) + h[x]
    BY <2>1, <2>2, TotalAdded
  <2>6. Total(f, A) \in Nat /\ Total(g, A) \in Nat
    BY <2>1, TotalIsNat
  <2>7. Total(h, A) = Total(f, A) + Total(g, A)
    BY <1>2
  <2>8. Total(h, A \cup {x}) = Total(f, A \cup {x}) + Total(g, A \cup {x})
    BY <2>2, <2>3, <2>4, <2>5, <2>6, <2>7
  <2> QED
    BY <2>8
<1>3. S \in Good
  <2> HIDE DEF Good
  <2> QED
    BY <1>0, <1>1, <1>2, SubsetInduction
<1> QED
  BY <1>3

\* Sums that balance term by term balance.
LEMMA BalancedSums ==
  ASSUME NEW S, IsFiniteSet(S), NEW a, NEW b, NEW c, NEW d, NEW e,
         Summable(a, S), Summable(b, S), Summable(c, S), Summable(d, S), Summable(e, S),
         \A x \in S : a[x] + b[x] = c[x] + d[x] + e[x]
  PROVE  Total(a, S) + Total(b, S) = Total(c, S) + Total(d, S) + Total(e, S)
<1>1. PICK ab : ab = [x \in S |-> a[x] + b[x]]
  OBVIOUS
<1>2. PICK cd : cd = [x \in S |-> c[x] + d[x]]
  OBVIOUS
<1>3. PICK cde : cde = [x \in S |-> cd[x] + e[x]]
  OBVIOUS
<1>4. Total(ab, S) = Total(a, S) + Total(b, S)
  BY <1>1, TotalOfSum
<1>5. Total(cd, S) = Total(c, S) + Total(d, S)
  BY <1>2, TotalOfSum
<1>6. Summable(cd, S)
  BY <1>2 DEF Summable
<1>7. Total(cde, S) = Total(cd, S) + Total(e, S)
  BY <1>3, <1>6, TotalOfSum
<1>8. \A x \in S : ab[x] = cde[x]
  BY <1>1, <1>2, <1>3
<1>9. Total(ab, S) = Total(cde, S)
  BY <1>8, TotalSame
<1> QED
  BY <1>4, <1>5, <1>7, <1>9

\* The sum is monotone in the function.
LEMMA TotalMonotone ==
  ASSUME NEW f, NEW g, NEW S, Summable(f, S), Summable(g, S),
         \A x \in S : f[x] <= g[x]
  PROVE  Total(f, S) <= Total(g, S)
<1>1. PICK rest : rest = [x \in S |-> g[x] - f[x]]
  OBVIOUS
<1>2. Summable(rest, S)
  BY <1>1 DEF Summable
<1>3. \A x \in S : g[x] = f[x] + rest[x]
  BY <1>1 DEF Summable
<1>4. Total(g, S) = Total(f, S) + Total(rest, S)
  BY <1>2, <1>3, TotalOfSum
<1>5. Total(f, S) \in Nat /\ Total(rest, S) \in Nat
  BY <1>2, TotalIsNat
<1> QED
  BY <1>4, <1>5

\* A sum over a part is the sum over the whole of the function that is 0
\* outside the part.
LEMMA TotalMasked ==
  ASSUME NEW f, NEW g, NEW S, NEW T \in SUBSET S,
         \A x \in T : g[x] = f[x], \A x \in S \ T : g[x] = 0
  PROVE  Total(g, S) = Total(f, T)
<1>1. Units(g, S) = Units(f, T)
  BY DEF Units
<1> QED
  BY <1>1 DEF Total

\* A sum that is not 0 has a term that is not.
LEMMA TotalPositive ==
  ASSUME NEW f, NEW S, Summable(f, S), Total(f, S) > 0
  PROVE  \E x \in S : f[x] > 0
<1> SUFFICES ASSUME \A x \in S : f[x] = 0 PROVE FALSE
  BY DEF Summable
<1>1. Units(f, S) = {}
  BY DEF Units
<1> QED
  BY <1>1, FS_EmptySet DEF Total

(***************************************************************************)
(* Rounding down.                                                          *)
(***************************************************************************)
LEMMA DivMod ==
  ASSUME NEW a \in Nat, NEW d \in Nat, d > 0
  PROVE  /\ a \div d \in Nat
         /\ d * (a \div d) <= a
         /\ a < d * (a \div d) + d
  OBVIOUS

LEMMA DivBelow ==
  ASSUME NEW a \in Nat, NEW d \in Nat, d > 0, NEW q \in Nat, a < d * q + d
  PROVE  a \div d <= q
<1>1. PICK p : p = a \div d
  OBVIOUS
<1>2. p \in Nat /\ d * p <= a
  BY <1>1, DivMod
<1>3. CASE p >= q + 1
  <2>1. d * p >= d * (q + 1)
    BY <1>2, <1>3
  <2>2. d * (q + 1) = d * q + d
    OBVIOUS
  <2>3. d * p \in Nat /\ d * q \in Nat
    BY <1>2
  <2> QED
    BY <1>2, <2>1, <2>2, <2>3
<1> QED
  BY <1>1, <1>2, <1>3

LEMMA DivAbove ==
  ASSUME NEW a \in Nat, NEW d \in Nat, d > 0, NEW q \in Nat, d * q <= a
  PROVE  q <= a \div d
<1>1. PICK p : p = a \div d
  OBVIOUS
<1>2. p \in Nat /\ a < d * p + d
  BY <1>1, DivMod
<1>3. CASE q >= p + 1
  <2>1. d * q >= d * (p + 1)
    BY <1>2, <1>3
  <2>2. d * (p + 1) = d * p + d
    BY <1>2
  <2>3. d * p \in Nat /\ d * q \in Nat
    BY <1>2
  <2> QED
    BY <1>2, <2>1, <2>2, <2>3
<1> QED
  BY <1>1, <1>2, <1>3

LEMMA DivOfSum ==
  ASSUME NEW a \in Nat, NEW b \in Nat, NEW d \in Nat, d > 0
  PROVE  /\ a \div d + b \div d <= (a + b) \div d
         /\ (a + b) \div d <= a \div d + b \div d + 1
<1>1. PICK p, q : p = a \div d /\ q = b \div d
  OBVIOUS
<1>2. p \in Nat /\ q \in Nat /\ d * p \in Nat /\ d * q \in Nat
  BY <1>1, DivMod
<1>3. d * p <= a /\ a < d * p + d /\ d * q <= b /\ b < d * q + d
  BY <1>1, DivMod
<1>4. d * (p + q) = d * p + d * q /\ d * (p + q + 1) = d * p + d * q + d
  BY <1>2
<1>5. p + q <= (a + b) \div d
  BY <1>2, <1>3, <1>4, DivAbove
<1>6. (a + b) \div d <= p + q + 1
  BY <1>2, <1>3, <1>4, DivBelow
<1> QED
  BY <1>1, <1>5, <1>6

\* Rounding each of several amounts down, instead of their sum, loses less
\* than one unit per amount beyond the first.
LEMMA TotalOfFloors ==
  ASSUME NEW f, NEW S, Summable(f, S), S # {},
         NEW c \in Nat, NEW d \in Nat, d > 0,
         NEW g, \A x \in S : g[x] = (f[x] * c) \div d
  PROVE  (Total(f, S) * c) \div d + 1 <= Total(g, S) + Cardinality(S)
<1> DEFINE Good == {A \in SUBSET S :
      A # {} => (Total(f, A) * c) \div d + 1 <= Total(g, A) + Cardinality(A)}
<1>0. ASSUME NEW x \in S
      PROVE  f[x] \in Nat /\ f[x] * c \in Nat /\ g[x] \in Nat
  <2>1. f[x] \in Nat
    BY DEF Summable
  <2>2. f[x] * c \in Nat
    BY <2>1
  <2>3. (f[x] * c) \div d \in Nat
    BY <2>2, DivMod
  <2> QED
    BY <2>1, <2>2, <2>3
<1>1. {} \in Good
  OBVIOUS
<1>2. ASSUME NEW A \in SUBSET S, NEW x \in S \ A, A \in Good
      PROVE  A \cup {x} \in Good
  <2>1. IsFiniteSet(A) /\ Summable(f, A) /\ Summable(g, A)
    BY <1>0, FS_Subset DEF Summable
  <2>2. PICK a, b : a = Total(f, A) /\ b = Total(g, A)
    OBVIOUS
  <2>3. a \in Nat /\ b \in Nat
    BY <2>1, <2>2, TotalIsNat
  <2>4. Total(f, A \cup {x}) = a + f[x]
    BY <1>0, <2>1, <2>2, TotalAdded
  <2>5. Total(g, A \cup {x}) = b + g[x]
    BY <1>0, <2>1, <2>2, TotalAdded
  <2>6. Cardinality(A \cup {x}) = Cardinality(A) + 1 /\ Cardinality(A) \in Nat
    BY <2>1, FS_AddElement, FS_CardinalityType
  <2>7. CASE A = {}
    <3>1. a = 0 /\ b = 0 /\ Cardinality(A) = 0
      BY <2>2, <2>7, TotalOfNothing, FS_EmptySet
    <3>2. (Total(f, A \cup {x}) * c) \div d = g[x]
      BY <1>0, <2>4, <3>1
    <3> QED
      BY <1>0, <2>5, <2>6, <3>1, <3>2
  <2>8. CASE A # {}
    <3>1. (a * c) \div d + 1 <= b + Cardinality(A)
      BY <1>2, <2>2, <2>8
    <3>2. a * c \in Nat /\ (a + f[x]) * c = a * c + f[x] * c
      BY <1>0, <2>3
    <3>3. (a * c + f[x] * c) \div d <= (a * c) \div d + (f[x] * c) \div d + 1
      BY <1>0, <3>2, DivOfSum
    <3>4. (a * c + f[x] * c) \div d \in Nat /\ (a * c) \div d \in Nat
      BY <1>0, <3>2, DivMod
    <3>5. ((a + f[x]) * c) \div d + 1 <= b + g[x] + (Cardinality(A) + 1)
      BY <1>0, <2>3, <2>6, <3>1, <3>2, <3>3, <3>4
    <3> QED
      BY <2>4, <2>5, <2>6, <3>5
  <2> QED
    BY <2>7, <2>8
<1>3. S \in Good
  <2>1. IsFiniteSet(S)
    BY DEF Summable
  <2> HIDE DEF Good
  <2> QED
    BY <1>1, <1>2, <2>1, SubsetInduction
<1> QED
  BY <1>3
=============================================================================
