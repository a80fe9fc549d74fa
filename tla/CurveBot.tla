-------------------------------- MODULE CurveBot --------------------------------
(* The bot that swaps the seized collateral through Curve pools:               *)
(* utils/liquidator-bot/curve. The pools are the ones the contracts have by    *)
(* default; only for a collateral to be unstaked does the bot look them up.    *)
EXTENDS LiquidatorBot

getCurveFlashMintLiquidatorBot == "FlashMintLiquidatorAaveBorrowRepayCurve" \in Deployed
getCurveFlashLoanLiquidatorBot == "FlashLoanLiquidatorAaveBorrowRepayCurve" \in Deployed

getAllCurveUserAddresses == fetchPage("curve")

getCurveUnderlyingAsset == call("curve", "underlying")

(* The calls a liquidation is made of.                                         *)
performCurveLiquidationDefault(u) ==
  (IF u \in Unstakes THEN <<"underlying", "defaultRoute">> ELSE <<>>)
    \o <<IF u \in BorrowsDusd THEN "flashMint" ELSE "flashLoan">>

performCurveLiquidationImplementation ==
  \/ getCurveUnderlyingAsset
  \/ findRoute("curve", "defaultRoute")
  \/ sendLiquidation("curve", "flashMint")
  \/ sendLiquidation("curve", "flashLoan")

getCurveLiquidationParams ==
  readBalances("curve") \/ chooseAmount("curve", performCurveLiquidationDefault(user))

curveLiquidatableUserInfos ==
  readHealthFactor("curve", TRUE) \/ pairHealthFactors("curve")

runCurveBotBatch ==
  \/ nextUser("curve")
  \/ getCurveLiquidationParams
  \/ performCurveLiquidationImplementation
  \/ putAway("curve")
  \/ saveUserState("curve")

runCurveBot ==
  \/ setUp("curve", getCurveFlashMintLiquidatorBot /\ getCurveFlashLoanLiquidatorBot)
  \/ getAllCurveUserAddresses
  \/ filterAndShuffle("curve")
  \/ nextBatch("curve")
  \/ curveLiquidatableUserInfos
  \/ runCurveBotBatch
===============================================================================
