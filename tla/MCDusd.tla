------------------------------- MODULE MCDusd -------------------------------
(***************************************************************************)
(* Instances of Dusd for TLC.  Units and prices are small numbers whose    *)
(* quotients leave remainders in every conversion: one dUSD unit is two    *)
(* units of oracle value (a hundred in the deployment), token "b" has      *)
(* decimals and costs one and a half.                                      *)
(***************************************************************************)
EXTENDS Dusd

MCUnit == [t \in Token |-> IF t = "b" THEN 2 ELSE 1]

\* dUSD at its peg, "b" at a dollar fifty for two units.
FixedPrice == [t \in Token |-> IF t = "b" THEN {3} ELSE {2}]

\* "b" also falls to half a dollar for two units.
MovingPrice == [FixedPrice EXCEPT !["b"] = {1, 3}]

\* Besides, dUSD rises above its peg.
BothMovingPrice == [MovingPrice EXCEPT !["dusd"] = {2, 3}]
=============================================================================
