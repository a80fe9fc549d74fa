---------------------------- MODULE BackedSupply -----------------------------
(***************************************************************************)
(* What the dUSD contracts promise about the supply at steady prices: the  *)
(* whole of the protocol as three amounts of dUSD.  Every contract may     *)
(* round, but only its users lose by it, except when collateral is lent.   *)
(***************************************************************************)
EXTENDS Integers

VARIABLES
    circulating,   \* dUSD in other hands than the AMO's
    amo,           \* dUSD held by or allocated by the AMO manager
    backed         \* what the holder vault's collateral is worth in dUSD

supplyVars == <<circulating, amo, backed>>

Init == circulating = 0 /\ amo = 0 /\ backed = 0

Issued == circulating' - circulating
Paid   == backed' - backed

\* dUSD leaves the AMO's hands for circulation, or comes back.
Reclassified == amo - amo' = Issued

\* New dUSD is paid for.  (Deposits and exchanges: paid for, nothing issued.)
Issue == Issued >= 0 /\ Paid >= Issued /\ UNCHANGED amo

\* Burnt dUSD takes out its own worth at the most.
Redeem == Issued <= 0 /\ Paid >= Issued /\ UNCHANGED amo

\* Unpaid dUSD is issued only when all of it ends up backed.
IssueExcess == /\ Issued >= 0 /\ circulating' <= backed'
               /\ UNCHANGED <<amo, backed>>

\* The AMO's own supply is minted and burnt outside circulation.
ChangeAmoSupply == UNCHANGED <<circulating, backed>>

\* Collateral comes back from an AMO vault with the dUSD it backs.
Recall == Reclassified /\ Issued >= 0 /\ Paid >= Issued

\* Collateral is lent, or dUSD surrendered, to the AMO.
Lend == Reclassified /\ Issued <= 0 /\ Paid >= Issued - 1

Next == \/ Issue \/ Redeem \/ IssueExcess
        \/ ChangeAmoSupply \/ Recall \/ Lend

Spec == Init /\ [][Next]_supplyVars
=============================================================================
