--------------------------- MODULE MCLiquidation ----------------------------
(***************************************************************************)
(* dUSD at its peg, FRAX by one feed, sFRAX by two (its rate and FRAX) or  *)
(* by a Curve pool.  A base unit is half a dollar and a feed counts in     *)
(* quarters, so that a price can be below a base unit.                     *)
(***************************************************************************)
EXTENDS Liquidation, TLC

MCAsset == {"dusd", "frax", "sfrax"}
MCProxy == {"FRAX/USD", "sFRAX/FRAX"}
MCReported == ("FRAX/USD" :> {1, 6}) @@ ("sFRAX/FRAX" :> {4})
MCCoins == "pool" :> <<"frax", "sfrax">>
MCRates == "pool" :> <<4, 4>>
Par == [lowerThresholdInBase |-> 2, fixedPriceInBase |-> 2]
MCThreshold == {Par}
MCOracleOf == ("dusd" :> "peg") @@ ("frax" :> "api3") @@ ("sfrax" :> "composite")
MCProxyOf == [a \in MCAsset |-> IF a = "frax" THEN "FRAX/USD" ELSE NoAddress]
MCThresholdOf == [a \in MCAsset |-> NoThreshold]
MCCompositeOf == [a \in MCAsset |->
    IF a = "sfrax" THEN CompositeFeed("sFRAX/FRAX", "FRAX/USD", NoThreshold, Par)
    ELSE NoFeed]
MCConfigOf == [a \in MCAsset |->
    IF a = "sfrax" THEN [pool |-> "pool", tokenIndex |-> 1] ELSE NoConfig]
MCFirst == ("FRAX/USD" :> 6) @@ ("sFRAX/FRAX" :> 4)
MCRedeemerOf == [a \in MCAsset |-> IF a = "sfrax" THEN "minter" ELSE NoAddress]
MCShare == "minter" :> "sfrax"
MCAssetOf4626 == "minter" :> "frax"
MCAssetsPerShare == "minter" :> 1
MCDeployed == {<<"mint", "odos">>, <<"mint", "uniswap">>, <<"loan", "curve">>}
MCUnit == [a \in MCAsset |-> 1]
MCWrapperUnit == [w \in Wrapper |-> 2]
=============================================================================
