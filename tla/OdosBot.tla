-------------------------------- MODULE OdosBot --------------------------------
(* The bot that swaps the seized collateral through the Odos router:           *)
(* utils/liquidator-bot/odos. Its quote is asked of a service, and a           *)
(* transaction is assembled between two approvals.                             *)
EXTENDS LiquidatorBot

getOdosFlashMintLiquidatorBot == "FlashMintLiquidatorAaveBorrowRepayOdos" \in Deployed
getOdosFlashLoanLiquidatorBot == "FlashLoanLiquidatorAaveBorrowRepayOdos" \in Deployed

getAllOdosUserAddresses == fetchPage("odos")

getOdosUnderlyingAsset == call("odos", "underlying")
getOdosSwapQuote == findRoute("odos", "quote")

getAssembledQuote ==
  \/ call("odos", "approveRouter")
  \/ call("odos", "assemble")
  \/ call("odos", "approveSwapper")

executeFlashMintLiquidation == sendLiquidation("odos", "flashMint")
executeFlashLoanLiquidation == sendLiquidation("odos", "flashLoan")

(* The calls a liquidation is made of: a debt in dUSD is repaid by a flash     *)
(* mint, any other by a flash loan.                                            *)
performOdosLiquidationDefault(u) ==
  (IF u \in Unstakes THEN <<"underlying">> ELSE <<>>)
    \o <<"quote", "approveRouter", "assemble", "approveSwapper",
         IF u \in BorrowsDusd THEN "flashMint" ELSE "flashLoan">>

getOdosLiquidationParams ==
  readBalances("odos") \/ chooseAmount("odos", performOdosLiquidationDefault(user))

odosLiquidatableUserInfos ==
  readHealthFactor("odos", TRUE) \/ pairHealthFactors("odos")

runOdosBotBatch ==
  \/ nextUser("odos")
  \/ getOdosLiquidationParams
  \/ getOdosUnderlyingAsset \/ getOdosSwapQuote \/ getAssembledQuote
  \/ executeFlashMintLiquidation \/ executeFlashLoanLiquidation
  \/ putAway("odos")
  \/ saveUserState("odos")

runOdosBot ==
  \/ setUp("odos", getOdosFlashMintLiquidatorBot /\ getOdosFlashLoanLiquidatorBot)
  \/ getAllOdosUserAddresses
  \/ filterAndShuffle("odos")
  \/ nextBatch("odos")
  \/ odosLiquidatableUserInfos
  \/ runOdosBotBatch
===============================================================================
