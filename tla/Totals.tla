------------------------------- MODULE Totals -------------------------------
(***************************************************************************)
(* Sums over finite sets, written so that TLAPS can reason about them: the *)
(* total of f over S is the number of coins when every x \in S is handed   *)
(* f[x] numbered coins.  All the contracts' sums are of unsigned integers, *)
(* so counting loses nothing, and the library's theorems about Cardinality *)
(* replace the induction a recursive sum would need.                       *)
(***************************************************************************)
EXTENDS Integers, FiniteSets

Numbered(f, S) == UNION { {x} \X (1 .. f[x]) : x \in S }

Total(f, S) == Cardinality(Numbered(f, S))
=============================================================================
