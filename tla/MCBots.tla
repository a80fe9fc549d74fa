--------------------------------- MODULE MCBots ---------------------------------
(* Small instances of BotScripts.                                              *)
EXTENDS BotScripts

MCIgnoreDuration == [b \in Bot |-> IF b = "uniswapV3" THEN 2 ELSE 1]
MCSpecificUsers == <<2, 1>>
MCDeployed ==
  {"FlashMintLiquidatorAaveBorrowRepayOdos", "FlashLoanLiquidatorAaveBorrowRepayOdos",
   "FlashMintLiquidatorAaveBorrowRepayCurve", "FlashLoanLiquidatorAaveBorrowRepayCurve",
   "FlashMintLiquidatorAaveBorrowRepayUniswapV3",
   "FlashLoanLiquidatorAaveBorrowRepayUniswapV3"}

(* Only Curve swaps the second user's collateral.                              *)
MCRoutes == [b \in Bot |-> IF b = "curve" THEN User ELSE User \ {2}]
===============================================================================
