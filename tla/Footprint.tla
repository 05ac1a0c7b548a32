------------------------------ MODULE Footprint ------------------------------
(***************************************************************************)
(* The total of a function into Nat, as the cardinality of the set of the  *)
(* units it assigns: the form in which a sum over a finite set can be      *)
(* reasoned about with the theorems on finite sets.                        *)
(***************************************************************************)
EXTENDS Naturals, FiniteSets

Units(f, S) == UNION {{x} \X (1..f[x]) : x \in S}

Total(f) == Cardinality(Units(f, DOMAIN f))
=============================================================================
