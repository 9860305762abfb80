------------------------------- MODULE Totals -------------------------------
(***************************************************************************)
(* Sums of natural-valued functions over finite sets, written as counts:   *)
(* a function f holds f[x] units at x, and the total is the number of      *)
(* units.  Stating a sum as a cardinality keeps it inside the theory of    *)
(* finite sets, for which the proof library has theorems.                  *)
(***************************************************************************)
EXTENDS Integers, FiniteSets

\* The units f holds at the members of S, each tagged with its place.
Units(f, S) == UNION {{x} \X (1..f[x]) : x \in S}

\* The sum of f[x] for x in S.
Total(f, S) == Cardinality(Units(f, S))
=============================================================================
