------------------------------ MODULE UniswapV3Bot ------------------------------
(* The bot that swaps the seized collateral through Uniswap v3 pools:          *)
(* utils/liquidator-bot/uniswap-v3. Its reads of the health factors are        *)
(* returned without an await, out of reach of the try around them.             *)
EXTENDS LiquidatorBot

getUniswapV3FlashMintLiquidatorBot ==
  "FlashMintLiquidatorAaveBorrowRepayUniswapV3" \in Deployed
getUniswapV3FlashLoanLiquidatorBot ==
  "FlashLoanLiquidatorAaveBorrowRepayUniswapV3" \in Deployed

getAllUniswapV3UserAddresses == fetchPage("uniswapV3")

getUniswapV3SwapPath == findRoute("uniswapV3", "path")

(* The calls a liquidation is made of.                                         *)
performUniswapV3Liquidation(u) ==
  <<"path", IF u \in BorrowsDusd THEN "flashMint" ELSE "flashLoan">>

getUniswapV3LiquidationParams ==
  readBalances("uniswapV3") \/ chooseAmount("uniswapV3", performUniswapV3Liquidation(user))

uniswapV3LiquidatableUserInfos ==
  readHealthFactor("uniswapV3", FALSE) \/ pairHealthFactors("uniswapV3")

runUniswapV3BotBatch ==
  \/ nextUser("uniswapV3")
  \/ getUniswapV3LiquidationParams
  \/ getUniswapV3SwapPath
  \/ sendLiquidation("uniswapV3", "flashMint")
  \/ sendLiquidation("uniswapV3", "flashLoan")
  \/ putAway("uniswapV3")
  \/ saveUserState("uniswapV3")

runUniswapV3Bot ==
  \/ setUp("uniswapV3", getUniswapV3FlashMintLiquidatorBot
                           /\ getUniswapV3FlashLoanLiquidatorBot)
  \/ getAllUniswapV3UserAddresses
  \/ filterAndShuffle("uniswapV3")
  \/ nextBatch("uniswapV3")
  \/ uniswapV3LiquidatableUserInfos
  \/ runUniswapV3BotBatch
===============================================================================
