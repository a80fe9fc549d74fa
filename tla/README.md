# dTRINITY contracts in TLA+

TLA+ models of the dTRINITY contracts (this repository's `contracts/`) and of the
programs around them (its TypeScript): the liquidator bots, their Slack
reporter, and the migration scripts that deploy everything.  TLC runs check the
models on small instances; TLAPS proves the core for every instance.  The core
is the dUSD stablecoin: how it is issued, redeemed and lent to AMO vaults, and
whether each circulating dUSD stays backed.

## The system

| Component | State it keeps | Operations | Who calls it, what it calls |
|---|---|---|---|
| `dusd/Issuer.sol` | references to the token, vault and AMO manager | `issue`, `issueUsingExcessCollateral`, `increaseAmoSupply`; rewiring | anyone, incentives manager, AMO manager role; mints dUSD, reads the holder vault's value and the AMO supply |
| `dusd/Redeemer.sol` | references | `redeem`; rewiring | redemption manager; burns dUSD, withdraws from the holder vault |
| `dusd/CollateralVault.sol`, `CollateralHolderVault.sol` | the set of supported collaterals; token balances | deposit, withdraw, allow, disallow; exchange | anyone, withdrawers (Redeemer and AmoManager among them), collateral managers, strategists |
| `dusd/AmoManager.sol` | `_amoVaults` (vault → allocation), `totalAllocated`, free dUSD | enable, disable, allocate, deallocate, decrease the AMO supply, move collateral both ways, withdraw profits; rewiring | admin, allocators, fee collectors; moves dUSD and collateral of the vaults |
| `dusd/AmoVault.sol` | AMO manager reference, allowance; balances | those of a vault, recovery, rewiring | recoverers, admin |
| `dusd/OracleAware.sol` | oracle and its unit | replace them | admin |
| `dusd/UniV3AmoVault.sol` | array and mapping of positions | mint, burn, increase, decrease, collect, swap | AMO traders; Uniswap's position manager |
| `dusd/CurveStableSwapNGAmoVault.sol` | set of LP tokens | add and remove liquidity, swap | AMO traders; Curve pools |
| `test/ERC20StablecoinUpgradeable.sol` | balances, paused, frozen | ERC20, mint, pause, freeze, seize, flash loans | every contract above |
| `token/TokenSupplyManager.sol` | none but its collateral balance | issue, redeem between decimals, migrate | anyone, owner; moves the one token, mints and burns the other |
| `oracle_aggregator/` | asset → wrapper, feeds, thresholds | set, remove, price | admin; API3, Curve and DEX feeds |
| `vault/DLoopVault*.sol` | shares, leverage bounds | deposit, redeem, increase and decrease leverage | anyone; dLEND, a flash lender, a DEX |
| `lending_liquidator/` | proxies, slippage | liquidate | bots; dLEND, a flash lender, a DEX |
| `dlend/`, `dex_oracle/`, `odos/`, `curve/` | little | balance aggregation, TWAPs, swap calls | the above |
| `lending/`, `dex/`, `dependencies/` | — | forks of Aave v3, Uniswap v3 and WETH | treated as external services |
| `utils/liquidator-bot/{odos,curve,uniswap-v3}`, `scripts/liquidator-bot` | the work of one run; users put away for a while | find, choose and liquidate users; loops, a combination, lists given by hand | an operator or a container; the subgraph, dLEND, the liquidators, swap services |
| `utils/utils.ts` (`ShortTermIgnoreMemory`) | a map per bot, one file per network | put, look up | the bots |
| `scripts/liquidator-bot/slack-reporter` | health factors reported last | check, alert, statistics | its container; the subgraph, dLEND, Slack |
| `config/` | constants of each network | read | the scripts and bots |
| `Makefile`, `utils/deploy.ts`, hardhat-deploy | `.migrations.json`, saved deployments | the deployment commands | an operator; runs the scripts |
| `deploy/`, `utils/lending/`, `utils/dex/` | none of their own | one migration each | the commands; sends transactions, reads and writes the records |

What is hard about it.  There is no concurrency inside a transaction, so the
difficulty is the *order* of transactions by actors who do not coordinate:
users, strategists, allocators, fee collectors, collateral managers and the
oracle.  Each transaction rounds several times, in units of different decimals;
each reads books (`totalAllocated`, allocations, supported collaterals, prices)
that others left behind; and reverts happen where a subtraction would go below
zero.  A call that reverts has no effect, and a contract never acts unless
called.

The programs around the contracts do have concurrency and faults.  A bot awaits
a service or a node at every step, while the market moves, accounts are indexed,
calls fail and the process dies, perhaps in the middle of a file.  A deployment
sends transactions, only some of which it waits for, reads contracts between
them, and may be killed anywhere and run again from its records; a node may
forget what it was sent.

What makes each component correct:

- *Issuer, Redeemer, holder vault*: no order of calls and no rounding leaves
  circulating dUSD unbacked; a shortfall that prices cause is not deepened.
- *AmoManager*: the AMO supply is neither issued nor lost by moving it; the
  total and the vaults' allocations differ only where the code lets them;
  profits are only what exceeds the allocation.
- *AMO vaults*: what they count they have; profits taken leave their allocation.
- *Token*: balances and supply agree; what is frozen or paused stays where it is.
- *TokenSupplyManager*: no holder's call, in a flash loan or out of it, uncovers a
  receipt, and a conversion keeps no more than dust.
- *Oracle wrappers*: a price is made of live feeds only, each under its own cap.
- *Liquidators*: where the sale brings what it is to bring, the loan is paid for by
  it and the caller out of the liquidation; what lies in the contract from before
  stays there.
- *DLoop vaults*: shares are paid their part; leverage ends within its bounds,
  unless the caller tolerates what the bounds do not.
- *Bots*: nobody worth liquidating is left alone for good; nobody is handled
  twice in a run, or again before the time is over; what is reported is so.
- *Reporter*: everyone who can be liquidated is alerted to, and not repeatedly.
- *Deployment*: a runbook ends; what it records as migrated is there, whatever
  was killed or forgotten; nothing points at what is not configured; rights
  given for a while are taken back.

## Modules

| Module | What it models |
|---|---|
| `Totals` | sums over a finite set, as a cardinality so that they can be proved about |
| `DusdState` | constants, variables and `TypeOK` of the dUSD system; conversions, views, the token's own operations |
| `CollateralVault` | `CollateralVault.sol`, `CollateralHolderVault.sol` and `AmoVault.recoverERC20` |
| `Issuer`, `Redeemer`, `AmoManager` | the contracts of these names, one action per function |
| `Dusd` | composes them: `Init`, `Next` by who calls, three specifications, the properties |
| `BackedSupply` | abstract specification: the protocol as three amounts of dUSD |
| `MCDusd` | small units and prices for TLC |
| `Stablecoin` | the token with its compliance extension and flash loans, several tokens at once |
| `TokenSupplyManager` | `TokenSupplyManager.sol` over two of them; who calls, properties |
| `MCToken` | two holders who are alike, few orders in force |
| `UniV3AmoVault` | `UniV3AmoVault.sol` with the position manager and its other users |
| `DLoopVault` | `DLoopVaultBase.sol` with `DLoopVaultCurve.sol`'s swap, its pool position and rebalancing |
| `IgnoreMemory` | `ShortTermIgnoreMemory` and the file the memories share |
| `OracleWrappers`, `OracleAggregator` | API3, Curve and hard-peg wrappers with the feeds behind them; which wrapper prices an asset |
| `Liquidator` | the six liquidator contracts, with the swap helpers they use |
| `Liquidation` | composes them: feeds, managers, owner and callers |
| `MCLiquidation` | three assets with a peg, a feed, and two feeds or a pool |
| `LiquidationAmount` | the amounts and profits of `shared/utils.ts` and `PercentMath.ts` |
| `LiquidatorBot` | market, subgraph, process; the steps the bots have in common |
| `OdosBot`, `CurveBot`, `UniswapV3Bot` | each bot: its steps put together, its calls |
| `BotScripts` | the scripts that run the bots; `Init`, `Next`, fairness, properties |
| `MCBots` | a small market and a swap only Curve can do |
| `SlackReporter` | `slack-reporter/run.ts` |
| `DeploySteps` | the language of the migration scripts: records, reads, transactions |
| `NetworkConfig` | `config/networks/*.ts`, as far as scripts branch on it |
| `DexDeploy` (with the local tokens), `OracleDeploy`, `LendingDeploy`, `BotDeploy`, `DusdDeploy` | every script of `deploy/`, one definition each, with the helpers they call |
| `DeployCommands` | the commands of the `Makefile`, the order of their scripts |
| `DeployOutline` | what each script leaves and, step by step, what it may rely on: the outline of a proof, computed, and the assumption that it is one |
| `Deployment` | process, records and chain while a runbook is carried out; properties |
| `ArithmeticTheorems` | lemmas about sums and about division rounding down |
| `DusdProofs` | types, supply and the AmoManager's books; rounding, backing and profits; `Dusd` implements `BackedSupply` |
| `LiquidationProofs` | types, prices and payments of `Liquidation` |
| `TokenProofs` | books, cover, conversions and flash loans of `TokenSupplyManager` |
| `UniV3Proofs` | the records, the recorded liquidity and the holdings of `UniV3AmoVault` |
| `DLoopProofs` | types of `DLoopVault`; what a share is worth after any call |
| `ProcessProofs` | the invariant of `Deployment` and five properties that follow from it; types of `SlackReporter`, which is silent about what did not change |
| `BotProofs` | types of `BotScripts`; what the bots report, handle once and leave alone |

### How state and actions correspond to the code

A transaction is one step, and a function that the code calls inside another is
part of that other's action: `redeem` burns the dUSD *and* takes the collateral
out of the vault.  A revert is a guard that is false; the invariants that
`allocateAmo`, `deallocateAmo` and `increaseAmoSupply` check after their changes
are conjuncts over the primed state.  Roles are not state: an action is the call
of somebody who may make it, and `Dusd!Next` lists who makes which.

`price`, `supported`, `balance`, `dusd`, `totalSupply` are the oracle, the
vaults' collateral sets, the ERC20 balances and the supply.  `EnumerableMap
_amoVaults` is two variables: its keys `active`, and `allocation`, 0 where
`tryGet` finds no key.  Both of the AmoManager's `set` idiosyncrasies are kept:
`transferFromAmoVaultToHoldingVault` adds a missing key, and
`disableAmoVault` removes a key without lowering `totalAllocated`.

Solidity's unsigned division is `\div` on naturals.  Every conversion keeps its
own order of multiplication and division and its own units, because their
rounding is what the backing depends on.  dUSD is valued at one dollar by the
Redeemer and at its oracle price by the AmoManager, as in the code.

`circulatingDusd` may be negative in the model (the code reverts on it); the two
calls that compute it have the guard that the subtraction succeeds.
`exchangeCollateral` receives before it pays, so the strategist's payment may
fund the payout.

Collateral outside the vaults is not tracked (who pays it, has it); dUSD is, in
everybody's wallet.  `allowCollateral` takes any token with a price, so dUSD may be
a collateral of any vault: somebody then pays it in to mint more of it, or redeems
dUSD for dUSD (`Pay` and `Send` move it between wallet and vault).  An AMO
vault is the one the repository's tests use (`mocks/MockAmoVault.sol`, without
its fake profit): worth its supported collateral and its dUSD, so one that supports
dUSD counts its dUSD twice, as that mock and `AmoVault`'s interface have it;
`UniV3AmoVault` counts its balances once.  Flash mints return in the transaction
that takes them and so leave no state.

### The position vault and the leveraged vault

`UniV3AmoVault` and `DLoopVault` stand alone: what they use (the position
manager, dLEND, the oracle, a DEX) is other people's code and appears as actions
of the environment, marked external in the map.

`UniV3AmoVault` keeps the vault's two records of a position apart,
`positionsArray` and `positionsMapping`, beside the manager's own `nft`, because
the code updates one, the other or both.  Amounts are counted in liquidity at a
price that stands still: adding `n` costs `n` and removing `n` makes the manager
owe `n`.  So what depends on ticks, ranges and slippage limits is left out, and
what depends on who records what is kept.  What the liquidity is worth,
`_getPositionValues`, is left out as well, and no property speaks of it: the code
puts the pool's price in its formulas without clamping it to the position's ticks,
so that a position out of its range is reported at more than could be taken out.
Anybody may add liquidity to the vault's positions or give it theirs, as the
manager allows.

`DLoopVault` is one position at dLEND, `collateral` and `debt`, and the balances
of the shares.  A flash loan is taken and returned inside a transaction, so a
deposit is its end effect: `leveraged(assets)` supplied and what the swap cost
borrowed.  A swap costs anything from `BestSwapBps` of its estimate to the most
the tolerance lets it take.  One ratio, `LtvBps`, is both the borrowing limit
and the liquidation threshold.  Liquidations, interest, repayment or supply by
others for the vault, and prices move between calls.  `outcome` is the error a
redemption just reverted with, because two runs ask about that;
`redeemReverts` are the two reverts in question.  Left out: `minReceiveAmount`
and allowances (they only forbid calls), tokens that stray to the vault's own
address, flash fees (dUSD's is zero), and the amounts that calls return.

### The token and its supply manager

`Stablecoin` keeps the books and the compliance state of several tokens, each
the repository's stablecoin; the collateral that `TokenSupplyManager` takes and
the receipt it mints are two of them.  Whoever calls holds the role or the
allowance the call needs, so these are not state.  Every movement passes
`_beforeTokenTransfer`, which asks about the account it takes *from*, the zero
address in a mint (`mayMove`); `burn`, `burnFrom` and `seize` are one action with
different callers.  The balance is added to without a check, as in the library.

A flash loan is the one thing in these contracts during which other calls run.
`flashLoan` opens `loan`, the borrower's own calls follow one by one, `repay`
closes it, and `revert` is the transaction failing at any of these: it restores
the books that `loan` keeps.  Inside a loan only the borrower moves; the pauser,
the compliance officer, other minters and the owner act between transactions.
Loans inside loans are left out.

`unit[t]` is `10 ** decimals` of a token, chosen at the start from `Units`, each
of which divides the larger ones; `_convertAmountBetweenDecimals` multiplies or
divides by their quotient (its `int8` shift is right below 128 decimals).

### The oracle and the liquidators

A wrapper's `getPriceInfo` is two operators, whether the price is alive and what
it is: a call that reverts and one that answers "not alive" come to the same in
`getAssetPrice`, which everybody reads.  A feed is its value (0 for anything not
positive) and its age in ticks; ages beyond every limit are not told apart
(`MaxAge`).  A pool's `price_oracle` and `stored_rates` are numbers.  Each kind of
wrapper is one contract; a plain `API3Wrapper` is one that has no thresholds.

One `Liquidator` stands for the six contracts: `lender` and `venue` are chosen at
the start.  A loan begins and ends inside one call, so the state is what the
contract holds between calls (`stock`), its settings, and `lastCall`, a history
variable for the two properties about calls.  `liquidateWithFlashLoan` follows
the code from `liquidate` through the lender's callback and back: seize, perhaps
unstake, sell for the debt and the premium, repay, pay the caller the difference.
Whoever calls says how to sell: the path at Uniswap, the whole call of the router
at Odos.  Neither contract compares what comes back with what was to come, so a
sale there takes any token the venue may still take (`approved`: the token to be
sold now, and every one an earlier call approved and left over) and brings any
token; Odos believes the amount it is told it got, and passes on what that amount
is above the one asked for.  Only one token is taken and one brought in a call of
the router.  Curve's routes are the owner's, and bring the debt token.  What is
checked after a sale is the absolute balance, which includes what the contract had
before; the lender takes its loan from that.  `lastCall` therefore remembers whether the
sale `brought` what it was to bring, and the two properties about calls are about
those that did.  The owner's setter keeps the tolerance within a hundred percent,
the constructor does not: it starts anywhere.  dLEND accepts any part of the amount offered, and gives
collateral for it at the aggregator's prices with a bonus.

### The bots and the reporter

One action is what a program does between two awaits; `pc` says which await it
stands at.  The market may move at each of them, because `debt` and
`healthFactor` are the environment's.  A call either answers or throws
(`FailTo`), and the exception goes where the code catches it: to `putAway` for
one user, to the next batch, or out of the run.  One debt and one collateral per
user stand for the reserves the code picks the most valuable of.  Prices, health
factors and amounts are integers; the health factors are those the code tells
apart (healthy, half liquidatable, fully liquidatable), and `LiquidationAmount`
computes with the code's rounding.  Time is what an entry of the memory has
left; a tick takes one from each, in memory and in the file.

The file of the memories is shared: each memory loads it when first used and
then only overwrites it, and the bots' durations differ, so that a file written
by one bot is unreadable to another (`Init` starts from each such file).

`SlackReporter` has the same shape; `delivered`, `news`, like `mined` and
`sentenced` of the bots, are history variables that no action reads.

### The deployment

A migration script is data: a sequence of steps built by a definition with the
script's name, from `Get` (a record looked up), `Check` (a state read and
refused), `deployContract`, `Send` (a transaction nobody waits for), `Await`,
`Unless`, `Save` and `WithAddress`, which asks whether a saved address is the zero
address: a proxy that is read before it is mined is saved as that, and the emission
manager, which does not check, is given it as its rewards controller.
`Deployment` interprets it, one action per kind of step.
The facts of the contracts are tuples; a transaction needs, adds and drops
facts, and reverts or is refused by the gas estimate without what it needs.
Only what some script reads or some contract demands is a fact; parameters that
are passed on are not.

`Queues` are the scripts of each command after hardhat-deploy's order by path,
tags and dependencies.  `pending` holds each sender's transactions in the order
of their nonces.  `RunBook` runs the Makefile's commands, first everything, then
the parts that a throwing script kept it from.  Three scripts throw whatever
happens (`AlwaysThrow`), as in the repository: an operator goes on after them.

`DeployOutline` says of every step of every script what is so whenever the script
stands there; no action reads it.  See *Proofs*.

The faults are a command killed between any two steps and run again, and the
last transactions of a sender forgotten by its node, one fault per behaviour.
hardhat-deploy's own record of pending transactions is not used here: a
deployment killed while it waits is made again.

### The three specifications of `Dusd`

- `RoutineSpec`: prices stand still, no collateral is lent, collateral taken in
  is collateral the holder vault counts.
- `SteadySpec`: the same with lending (`transferFromHoldingVaultToAmoVault`).
- `Spec`: everything the contracts allow: moving prices, disallowed collateral,
  withdrawals from the holder vault by role, collateral it does not count.

For the contracts no fairness is assumed and no liveness is stated: a contract
runs only when somebody sends a transaction, and nothing in the code makes
anybody.  Deadlock is not checked for the same reason; with every bound of
`MaxUint` reached the model may really have no call left.

### Fairness

- `BotScripts`: weak fairness of the process, whose loops are `while (true)` and
  wait only for timers and for calls that answer or throw, and which a container
  or an operator starts again; and of the passing of time.  Nothing is owed by
  the market, the index or the faults, which are bounded: an unbounded number of
  failures may keep any bot from anything.
- `SlackReporter`: weak fairness of the process, for the same reasons.
- `Deployment`: weak fairness of operator, process and chain together: while one
  of them can go on, something does.  That an operator runs a command again, and
  gives up after `Retries` more failures, is an assumption about people; it waits
  until nothing is pending.  A behaviour ends when the runbook is through, so
  deadlock is not checked there.

## Runs

| Run | Instance | Shows |
|---|---|---|
| `routine` | `RoutineSpec`, a collateral and dUSD as one, an AMO vault, amounts 1–4 | `CirculatingBacked`: circulating dUSD never exceeds the holder vault's worth; `SupplyPromise`: the contracts implement `BackedSupply` (with lending: proved) |
| `full` | `Spec`, a collateral that falls in price, dUSD as a collateral that rises above its peg, amounts 1–3 | `TypeOK`; `RoutineNeverDeepensShortfall` after anything; `LendingLosesAtMostOne`; `BooksMoveTogether`: where the total and the allocations may drift; `ProfitsLeaveAllocationCovered`, of vaults that count their dUSD once |
| `token` | `TokenSupplyManager`, two holders, one and two subunits, amounts 1 and 2 | `TypeOK`: supply is held, on restored books too; `HoldersNeverUncover` a receipt; `ConversionKeepsUnderAUnit`; `LoanLeavesNoMark`: a flash loan enriches nobody; `FrozenOrPausedStays` |
| `positions` | `Spec`, positions minted to the vault, three NFTs, liquidity 0–2 | `TypeOK`; `TrackedOnce`: array and mapping track the same positions, each once; `RecordedIsHeld`: the vault never counts liquidity it does not have; `HoldingsKept`: working on positions loses nothing |
| `positions_burning` | `AloneSpec` | violation of `BurnAsksForAllLiquidity` |
| `dloop` | two owners, 3x leverage, price 1 or 2, positions up to 8, tolerances of 0, 25 and 50 percent | `TypeOK`; `ShareValueKept`: no call takes from the others' shares beyond rounding and the slippage its caller allows; `BalanceKept`: no rebalancer, and no user whose tolerance the bounds can bear (`StaysInBounds`), takes the leverage clearly out of its bounds |
| `dloop_redeem_all` | the same | violation of `SharesSuffice` |
| `liquidation` | `Liquidation`, three assets, two feeds and a pool, three of the six liquidators, amounts 1–2, one change of settings | `TypeOK`: no balance below zero; `PricedByLiveFeeds`: one live feed never carries a silent one; `CapsHold`: a composite price is within its feeds' caps; `PaidOnlyFromGain`: a call that pays leaves no token poorer, and `LoanPaysForItself`: a sale pays for loan and premium, when the sale brings what it is to bring (others are in the run as well) |
| `bots` | all seven scripts, three bots, two users, one move, one failure, one death | `TypeOK`; `OncePerRun`; `ReportedTruly`: success was mined, failure is in the file; `IgnoredStayIgnored`, restarts included; `Rescued`: nobody worth liquidating stays so for good |
| `bots_paired` | the Odos loop | violation of `HealthFactorsPaired` |
| `reporter` | two users, three health factors, two moves, one failure, one message lost | `ReporterTypeOK`; `QuietWhileUnchanged`: no alert about a position that stands still; `Alerted`: a lasting one reaches the channel |
| `deployment` | every script, three networks, one retry, one fault | `TypeOK`: nothing migrated runs again; `PointedAtFeed`: an asset the aggregator points at a wrapper has its feed mined; `ProxiesSaved`: saved proxies are real; `MigratedMeansDone`: what a recorded script left is there; `GivesUpWhereKnown`: where a command can get stuck; `HandedOverConfigured`; `RiskAdminIsTemporary`; `Settles`: every runbook ends |

Bounds: `Amount` (what callers pass) and `MaxUint` (the largest stored integer,
for 2^256 − 1; a sum beyond it reverts, as checked arithmetic does).  They are
small, and enough, because prices and units are chosen so that every conversion
leaves a remainder already at amounts 1, 2 and 3: token `b` costs 3 for 2 units,
and a unit of dUSD is worth 2 units of oracle value.  dUSD is the second token of
every vault: in `routine` it is what a vault with two collaterals exchanges, lends
out and is redeemed for, beside what it is otherwise.  One user stands for all
holders that are neither vault nor manager; no rule of the contracts
distinguishes them.  One AMO vault is enough for the properties of a step, which
each concern one vault; for sums over several the theorems stand.  What the
bounds could still hide is what the proofs are for.

In `token`, `Units` 1 and 2 give equal decimals, more and fewer, and `MaxUint` 3
holds a loan beside a holding and refuses a second one.  From a state with two
pauses or freezes in force TLC goes no further (`FewOrders`), so each pair is
reached and checked; the theorems cover any number.  The holders are alike and
so symmetric.

`MaxTokenId` 3 is the smallest number at which a swap-and-pop moves an entry
that is neither first nor last.  `positions_burning` needs only two.  In `dloop`
a hundred percent is 8 points, so that the 3x target (24) is a small integer and
leverages between whole ones exist; the loan-to-value is 7/8, above the 2/3 that
a 3x position owes, and `MaxPosition` 8 holds two deposits with what rounding and
interest add.  A swap that costs more than the oracle's price is charged to all
shares by design, up to the caller's tolerance; `ShareValueKept` says so, and is
proved for any units and tolerances.  The tolerance is the caller's and the code
puts no limit to it.  At 3x the bounds are 1.5x and 6x, and the first deposit may
pay 25 percent too much before it is out of them; the run has callers who tolerate
50, and they do leave them, which is why `BalanceKept` has its condition.  A swap costs at least
half of its estimate (`BestSwapBps` 4).

In `liquidation` a base unit is half a dollar and a feed counts in quarters, so a
price can round to zero; a hundred percent is 2 points, the bonus 2 and the
premium 1, so that both are worth something at amounts 1 and 2.  The three
contracts chosen have both lenders and all venues between them; the theorems cover
all six.  Between calls the contract has at most one of each token (`MaxBalance`),
enough to be what pays for a loan whose sale brought something else, and a router
reports at most one more than it is asked for (`MaxExcess`).  The tolerance a
contract is made with is within a hundred percent or above it.  One change of settings reaches every
setter from the deployed state; a longer series of them is left to the theorems
as well.

In `bots`, two users are the fewest that have an order, a page and a place in a
batch each; they differ in what they owe (flash mint or flash loan), in whether
their collateral is unstaked, and in who can swap it.  One move, one failure and
one death each happen at every await; two failures in a row meet the same
handlers again.  `reporter` has two moves so that a health factor may come back
to one reported before.  `deployment` has the real configurations and so no size
to choose; one fault per behaviour, anywhere, is 600,000 states, and `Retries` 1
is enough because a second attempt starts with nothing pending.  More faults and
retries are what the theorems are for.  TLC evaluates `OutlineAssumption` on all
three networks before this run.

### What the violations show

- `positions_burning`: `burn` is to remove all liquidity, but removes what the
  mapping says, which only `mint` writes.  After `increaseLiquidity` or
  `decreaseLiquidity` it cannot succeed until the liquidity is brought back.
- `dloop_redeem_all`: the owner's balance is checked after the shares are burnt,
  so nobody redeems more than half of theirs at once.  A (skipped) test redeems
  everything.
- `bots_paired`: the health factors that could be read are matched with the
  users of the batch by position, so after one failed read everyone is judged by
  the next one's.  `Rescued` shows that it does not last.

### Disagreements without a run

The models follow the code in these as well; each is the reason for an exception
that a property states, or for one that is not stated.

- `test/dusd/lifecycle.ts` asserts after each operation that the circulating
  supply does not exceed the collateral value.  A loan of collateral may break
  that by one unit of dUSD, since the loan is booked rounded down.
  `LendingLosesAtMostOne` bounds the loss and is proved.
- The comment of `exchangeCollateral` says the collateral taken *in* must be
  supported; the code checks the one paid *out*.
- A test says only an administrator enables an AMO vault; an allocator's recall
  of a worthless amount does it too.
- DLoop withdrawals are scaled by a leverage that is rounded down, so they are
  rounded up; a comment says the pool then gives what there is, the pool refuses.
- `maxIn` of the liquidators is called the most to spend, but takes the amount of
  collateral as if it were an amount of the debt: it is too low or too high unless
  the two cost the same.  `liquidate` out of the contract's own balance never sets
  the token it pays in: the transfer goes to the zero address, which
  `SafeTransferLib` lets pass, and the seized collateral stays for the owner to
  withdraw (`liquidateFromBalance`).  What the Odos contracts send "to the caller"
  goes to the lender, who is the sender in the callback.
- `API3Wrapper` tests the price before it converts it and the Curve wrapper tests
  its factors but not their product, so a tiny price is alive at zero; the
  composite wrapper tests the product.  Without a feed of API3 the Curve wrapper
  answers in units of the pool's other coin; such a feed outlives the removal of
  its asset's pool and applies to the next one.
- The combination of bots tries Curve only after a run of Odos that threw as a
  whole, not for a user whose collateral Odos cannot swap; and its two memories
  overwrite each other's file, hence the exception in `IgnoredStayIgnored`.
- A "temporal" risk admin stays one when the command is killed between the two
  transactions: the script that is run again finds nothing left to configure.
- The incentives' proxy is read before the transaction that makes it is mined:
  on a live network the zero address is saved, hence the exception in
  `ProxiesSaved`.  The same script gives that address to the emission manager and
  then hands the manager over: hence the exception in `HandedOverConfigured`.
- "Make sure we have enough to repay the flash loan" compares what the liquidator
  has after a sale, not what the sale brought: what it had before may make up for a
  sale that the caller chose to bring something else.
- `AmoVault` calls `totalCollateralValue` that of the "non-dUSD collateral assets";
  nothing keeps dUSD from being allowed as collateral, and then the vault of the
  tests counts it there and in `totalDusdValue`.

## Proofs

The theorems about `Dusd` hold for every set of tokens, vaults and users, all prices,
decimals, amounts and integer width, under the assumptions of `DusdState`: the
sets are finite, the contracts' addresses differ, units are positive, and a unit
of dUSD is a whole number of oracle units (6 and 8 decimals in the deployment).
The last is used only for lending.

- `SupplyAlwaysHeld`: `Spec => [](TypeOK /\ SupplyIsHeld)`.  `TypeOK` alone is
  not inductive: the token adds to a balance without checking, so that the sum
  fits follows only from the supply being the sum of all balances.  `IInv` is
  `TypeOK` in named parts with `SupplyIsHeld`; one lemma per group of actions
  shows that it is kept.
- `ShortfallNeverDeepens`: `Spec => RoutineNeverDeepensShortfall`.  A call that
  adds value `v` to the vault's worth issues at most the dUSD of `v`
  (`DivOfSum`: parts valued apart are worth no more than their sum); a call that
  pays out an amount pays for at least its value (`ValueOfSend`); the others are
  `Quiet`, they neither lower the worth nor raise the circulating supply; and
  the excess issue checks after it mints.
- `LendingLosesLittle`: `Spec => LendingLosesAtMostOne`, from `DivOfSumAndOne`.
- `RoutineStaysBacked`: `RoutineSpec => []CirculatingBacked`, by induction over
  `IInv /\ Backing >= 0`.
- `SupplyPromiseKept`: `SteadySpec => SupplyPromise`, the refinement.  Total
  supply is circulating plus AMO supply, so a call that keeps the AMO supply is
  an issue or a redemption and one that keeps the total lends or recalls; the
  lemmas about the backing give the terms.

- `BooksStayTogether`: `Spec => BooksMoveTogether`.  One vault's allocation
  changes in a call, so the sum of all changes by as much (`BookedChange`, from
  `TotalChange`), and the total with it but in the two cases the property names.
- `ProfitsLeaveCover`: `Spec => ProfitsLeaveAllocationCovered`.  What leaves is
  valued apart from what stays, which differs by one unit of value at the most,
  for collateral as for dUSD.  The vault must not support dUSD, for what is counted
  twice leaves twice; nothing else is assumed of the vaults, the others may.

About `TokenSupplyManager`, for any holders, contracts, decimals, amounts and
integer width, assuming finite sets, a zero address that holds nothing, and
decimals whose units divide the larger ones:

- `TokenBooksSound`: `Spec => []TypeOK`.  As for dUSD, that an unchecked addition
  fits follows from the supply being held; the books kept by `loan` are sound
  because they were the token's.
- `ReceiptsKeepCover`, `ConversionsKeepLittle`, `FrozenStays`: from the types, one
  lemma per call; a conversion pays out at most its value and at least its value
  less one unit of the coarser token.
- `LoansLeaveNoMark`: needs `LoanOK` beside the types: inside a loan, with the loan
  left out of account, there is no new collateral, no less surplus and no richer
  borrower.  Each of the borrower's calls keeps that, and repaying takes the loan
  back out.

About `Liquidation`, for any assets, feeds, pools, contracts that unstake,
prices, units, bonus, premium, limits, thresholds and number of changes, under
the assumptions of its modules (units and a hundred percent are positive, the
zero address is nobody's):

- `LiquidationTypes`: `Spec => []TypeOK`, one lemma per operation.  That balances
  stay natural needs the code's order: dLEND takes at most the amount at hand, a
  sale spends at most what is there and was approved (`spendable`), and the loan
  comes back out of what there is after it.
- `LivePrices` and `CappedPrices`: `PricedByLiveFeeds` and `CapsHold` follow from
  the types for any feeds, settings and thresholds; the second needs that
  products of naturals are monotone and that `(m * n) \div u * u <= m * n`.
- `CallersPaidFromGain`, `LoansPayForThemselves`: from the types, by following
  the balances through `afterCallback` and `settle`, for all lenders and venues,
  collateral equal to the debt and unstaking included, of calls whose sale brought
  what it was to bring.  What they show is that the rest of the code is right: how
  much is asked of the sale, what is repaid, and of what the caller's gain is the
  difference.
- `CurveSalesBring`: at Curve that condition always holds, so both are so whatever
  the caller passes.

About `UniV3AmoVault`, for any number of positions, any amounts and any largest
amount, assuming that vault and outsiders differ and that callers pass amounts
that fit (`uint128`):

- `RecordsAgree`: `Spec => [](TypeOK /\ TrackedOnce)`, whoever the trader mints to.
  `TrackedOnce` is inductive only with what the manager promises: ids are given
  out in order and never again (`ManagerOK`), so that a new position is in
  neither record.  `Removed` is the swap-and-pop: what stays is every other entry,
  once.
- `RecordsAreThere`: `Spec => []RecordedIsHeld` when the trader mints to the vault.
  Every entry is `Backed` by a position of the vault with as much liquidity, which
  outsiders can only add to; entries stand for different positions, so they are
  no more in total (`TotalInjects`).  It is about liquidity, not about its worth.
- `WorkKeepsHoldings`: `Spec => HoldingsKept`.  What a position gains or loses the
  wallet loses or gains.
- `UniV3Types`: `Spec => []TypeOK`, from the same invariant.

About `DLoopVault`, for any owners, target leverage from 1x, loan-to-value, units,
prices, limits and tolerances (`VaultAssumption`: units and prices are positive, a
loan is at most what backs it):

- `VaultTypes`: `Spec => []TypeOK`.  `IInv` adds to the types that the shares'
  supply stays below `MaxPosition`, for a balance is bounded only by the supply.
  That no withdrawal exceeds what is there follows from the pool's own check.
- `ShareValueSafe`: `Spec => ShareValueKept`.  The value of collateral less debt
  changes by what the caller brings or takes, by what the swap costs above the
  oracle's price (`slippage`) and by the remainders of the two conversions to the
  base currency (`Dust`); `convertToShares` and `convertToAssets` round for the
  vault, previews of `mint` and `withdraw` for the caller, hence the one unit
  more there.  `Loss` puts the two together as products, without a quotient.

About `SlackReporter`, for any users and health factors:

- `ReporterTypes`: `ReporterSpec => []ReporterTypeOK`.
- `Quiet`: `ReporterSpec => QuietWhileUnchanged`, from `UpToDate`: of a user there is
  nothing new to tell about, what was reported, and what was read in this check,
  is what the market says.  The types alone do not give it: a user may move
  between its read and the comparison.

About `Deployment`, for any number of retries and faults and any of the three
networks.  What a script may rely on at a step is decided by all that may have
happened before: it was killed and run again, passed over what it had done, its
transactions are mined or on the way, and so are those of other scripts.  The
proof takes this apart as one proves a program with interference.

- `Outline` gives each script an assertion per step, of facts that last and hold
  (`known`), names that are saved, facts that hold or are on the way when nothing
  was forgotten (`sent`), whether the sender has nothing pending (`clear`), and
  which brief facts hold or may hold.  It is computed from the start of the script
  forward; where two ways meet, it is what both leave.  Each assertion is about
  lasting facts only, those no transaction of the network drops, which is why
  nothing that other scripts or late transactions do disturbs it.
- `OutlineAssumption` is what has to be so of the scripts, each by itself: each
  step leaves what the next assertion says, a transaction that points an asset at
  a wrapper is sent where its feed is known, what has to come before a transaction
  is `sent`, a proxy is saved where the fact that makes it is known, and no step
  can throw while a brief fact holds, no name is both deployed and saved by hand
  (`SavedBy`).  It is a statement about constants, and TLC
  evaluates it on all scripts of all networks: what the folds and the recursive
  walk behind the scripts and their order compute, the provers cannot find.  There
  are no other scripts for which it would have to be proved.
- `DeploymentInvariant`: `Spec => []IInv`.  The process keeps the outline true, for
  any faults, whatever the order of mining.  `Informed` and `SentOK` are the outline
  at the step where the script stands.  `SentOK` needs to know of the pending
  transactions that those that must come first do (`OrderOK`), or else one mined
  late might revert and never do what the outline counts on; `FeedsOK` the same of
  feeds, with the addition that these last.  `PendingOK` ties the transactions to
  scripts, so that the assumption speaks of them; `WaitingOK` says that the awaited
  one is the last, so that a script that goes on has nothing pending.  `BriefOK`
  accounts for the one thing that does not last, the temporal risk admin.
- `DeploymentTypes`, `NoUnfedOracle`, `RightProxies`, `MigrationsTrue` and
  `AdminGoes`: `TypeOK`, `PointedAtFeed`, `ProxiesSaved`, `MigratedMeansDone` and
  `RiskAdminIsTemporary`.  The invariant was checked with TLC on the three networks
  before it was proved (mainnet in part).
- `OwnershipPassesLast`: the emission manager passes to its last owner only with a
  controller given to it.  That this is the proxy, but where the zero address was
  saved (`HandedOverConfigured`), stays with TLC: that an address was saved as zero
  is nothing the outline keeps.

A change of a script that breaks one of these makes `OutlineAssumption` false, and
TLC says so before it explores anything.  So the variants of the model kept beside
the actions of `Deployment` (`checkNothing`, `submitAndGoOn`, `passOver`, `skip`)
are of the process: each breaks a property though the scripts are sound.

About `BotScripts`, for any number of users, page and batch sizes, durations,
routes, configured bots, moves, failures and deaths, assuming that the three bots
exist and that the list in a script of specific users names nobody twice:

- `BotTypes`: `Spec => []TypeOK`, with what the code relies on without a check: a
  liquidation is performed with calls left to make and something to repay
  (`PlaceOK`), and nothing is remembered longer than it was ignored for.
- `ReportsTrue`: `Spec => []ReportedTruly`, a part of the invariant itself; what
  it needs is that a user stays at the head of the list until it is reported.
- `HandledOnce`: `Spec => []OncePerRun`, from `OnceOK`: the lists of found, of
  batched and of picked users have no duplicates and nobody in common.  While
  pages are fetched the list is in the subgraph's order, and the next page is
  above its last element, so accounts indexed meanwhile can be missed but not
  repeated.
- `StaysIgnored`: `Spec => IgnoredStayIgnored`, for the scripts that run a bot
  alone.  `Recalled`: who is sentenced is in the loaded memory and in the file for
  at least as long, or the file is torn, and then the bot never gets past loading
  it.  `Spared`: nobody on the lists is sentenced, for they were filtered by that
  memory; the user just put away leaves the list in the next step.  Both are
  needed: time passes for memory, file and sentence alike.

Sums are cardinalities (`Totals`) because a recursive sum would need induction
over data, which the provers do not do here.

Only model-checked:

- Liveness, which with `ENABLED` is out of the provers' reach: `Rescued`,
  `Alerted`, `Settles`.
- `BalanceKept` of `DLoopVault`, for users whose tolerance `StaysInBounds` and up to
  what rounding does to a unit of each token (`ClearlyTooImbalanced`).  It held in
  every instance tried, with coarser units, dearer dUSD and other leverages; it
  multiplies quotients of quotients, which the provers do not do.
- `HandedOverConfigured` of `Deployment`, see above.
- `GivesUpWhereKnown` of `Deployment`: it is not so for all values of the constants.
  With one retry and two faults TLC refutes it, for each fault may end an attempt
  of any script; it holds for one, which the run tries at every step of every
  script.

## Not modelled, and the plan

In order:

1. `DusdWiring`: replacing the AMO manager, the vault and the oracle.
2. `CurveAmoVault`, `BalanceChecker`, `DexOracleWrapper` with the static DEX
   oracle, the swap contracts around the DLoop vaults.

Left out for good: the forks of Aave v3 and Uniswap v3 (vendored, and verified
where they come from; the modules that use them model what they rely on), tick
arithmetic, events and metadata, the list of liquidators that nothing reads, and
the liquidators' first version.  The bot of the first version
(`utils/liquidator-bot/run.ts`) is not modelled: its contracts' deployment always
throws, so it cannot run, and the three bots are its copies.  Of the deployment,
amounts minted and supplied are facts, so that doing it twice is doing it once;
constructor arguments count only as what must be found deployed; scripts that
only print or verify sources are left out.
