----------------------------- MODULE BotDeploy -----------------------------
(***************************************************************************)
(* deploy/04_liquidator_bot: a flash minting and a flash loan liquidator   *)
(* for each exchange, and the two scripts of the first version.            *)
(***************************************************************************)
EXTENDS LendingDeploy

Proxied(bot, token) == <<"proxied", bot, token>>

(* The proxy contract of a token is set by a call nothing waits for. *)
setProxyContracts(bot, tokens) ==
    Get({bot}) \o ForEach(tokens, LAMBDA t : Send({Proxied(bot, t)}))

(* The flash minter's aToken is read of the lending pool. *)
getReserveTokensAddressesFromAddress ==
    Get({DataProvider}) \o Check({OnProvider("pool")})

BotScript(n, id, dependencies, body) ==
    ByBots(n, Script(id, {"liquidator-bot"}, dependencies, body))

uniswapV3FlashMint(n) ==
    LET bot == getConfig(n).bots.uniswapV3
        id  == "FlashMintLiquidatorAaveBorrowRepayUniswapV3"
    IN BotScript(n, id, <<>>,
        Only(bot.configured,
            Get({"SwapRouter", Provider})
              \o getReserveTokensAddressesFromAddress
              \o deployContract(id, {}) \o setProxyContracts(id, bot.proxied)))

uniswapV3FlashLoan(n) ==
    LET bot == getConfig(n).bots.uniswapV3
        id  == "FlashLoanLiquidatorAaveBorrowRepayUniswapV3"
    IN BotScript(n, id, <<>>,
        Only(bot.configured,
            Get({"SwapRouter", Provider}) \o deployContract(id, {})
              \o setProxyContracts(id, bot.proxied)))

(* No network's configuration has the section these two read: they throw   *)
(* at config.liquidatorBot, once the records before it are found.          *)
legacyFlashMint(n) ==
    BotScript(n, "FlashMintLiquidatorBorrowRepayAave", <<>>,
        Get({"SwapRouter"}) \o Get({Provider}) \o Throw)

legacyFlashLoan(n) ==
    BotScript(n, "FlashLoanLiquidatorBorrowRepayAave", <<>>,
        Get({"SwapRouter"}) \o Get({Provider}) \o Throw)

deployFlashMintLiquidatorBot(id, proxied) ==
    Get({Provider}) \o getReserveTokensAddressesFromAddress
      \o Get({"CurveHelper"}) \o deployContract(id, {})
      \o setProxyContracts(id, proxied)

curveFlashMint(n) ==
    LET bot == getConfig(n).bots.curve
        id  == "FlashMintLiquidatorAaveBorrowRepayCurve"
    IN BotScript(n, id, <<"curve-helper">>,
        IF isLocalNetwork(n)
        THEN IF bot.configured THEN Throw
             ELSE Get({"DUSD"}) \o Get({"MockCurveRouterNgPoolsOnlyV1"})
                    \o deployFlashMintLiquidatorBot(id, {})
        ELSE Only(bot.configured,
                  deployFlashMintLiquidatorBot(id, bot.proxied)))

deployFlashLoanLiquidatorBot(id, proxied) ==
    Get({Provider}) \o Get({"CurveHelper"}) \o deployContract(id, {})
      \o setProxyContracts(id, proxied)

curveFlashLoan(n) ==
    LET bot == getConfig(n).bots.curve
        id  == "FlashLoanLiquidatorAaveBorrowRepayCurve"
    IN BotScript(n, id, <<"curve-helper">>,
        IF isLocalNetwork(n)
        THEN IF bot.configured THEN Throw
             ELSE Get({"MockCurveRouterNgPoolsOnlyV1"})
                    \o deployFlashLoanLiquidatorBot(id, {})
        ELSE Only(bot.configured,
                  deployFlashLoanLiquidatorBot(id, bot.proxied)))

odosFlashMint(n) ==
    LET bot == getConfig(n).bots.odos
        id  == "FlashMintLiquidatorAaveBorrowRepayOdos"
    IN BotScript(n, id, <<>>,
        Only(bot.configured,
            Get({Provider}) \o getReserveTokensAddressesFromAddress
              \o deployContract(id, {}) \o setProxyContracts(id, bot.proxied)))

odosFlashLoan(n) ==
    LET bot == getConfig(n).bots.odos
        id  == "FlashLoanLiquidatorAaveBorrowRepayOdos"
    IN BotScript(n, id, <<>>,
        Only(bot.configured,
            Get({Provider}) \o deployContract(id, {})
              \o setProxyContracts(id, bot.proxied)))

botScripts(n) ==
    <<uniswapV3FlashMint(n), uniswapV3FlashLoan(n), legacyFlashMint(n),
      curveFlashMint(n), curveFlashLoan(n), legacyFlashLoan(n),
      odosFlashMint(n), odosFlashLoan(n)>>
=============================================================================
