------------------------------- MODULE MCToken -------------------------------
(***************************************************************************)
(* TokenSupplyManager for TLC.  The two holders are alike, roles included. *)
(*                                                                         *)
(* FewOrders: from a state with two pauses or freezes in force nothing     *)
(* further is explored.  Each pair of orders is reached and checked; what  *)
(* a longer series of them leads to, the proofs say.                       *)
(***************************************************************************)
EXTENDS TokenSupplyManager, TLC

Holders == Permutations(User)

FewOrders == Cardinality(paused) + Cardinality(frozen[Collateral])
               + Cardinality(frozen[Receipt]) <= 1
=============================================================================
