---------------------------- MODULE LiquidatorBot ----------------------------
(* What the liquidator bots of utils/liquidator-bot have in common: the state  *)
(* of the process that runs them, the lending market and the subgraph they     *)
(* read, and the steps their code is made of. A step lies between two awaits:  *)
(* the market may move before and after it. OdosBot, CurveBot and UniswapV3Bot *)
(* put the steps together; BotScripts runs them.                               *)
EXTENDS Sequences, SequencesExt, IgnoreMemory, LiquidationAmount

CONSTANTS
  PageSize,         \* accounts in a page of the subgraph
  BatchSize,        \* users whose health factors are read together
  MaxDebt,          \* bound: the largest debt
  MaxMoves,         \* bound: moves of the market
  MaxFailures,      \* bound: calls of a service, node or contract that fail
  MaxCrashes,       \* bound: deaths of the process
  BorrowsDusd,      \* users whose debt is dUSD, the others owe another token
  Unstakes,         \* users whose collateral is unstaked before it is swapped
  Routes,           \* [Bot -> users whose collateral the bot can swap]
  Configured,       \* bots the network's configuration has a section for
  Deployed          \* liquidator contracts with a deployment record

ASSUME BotAssumption ==
  /\ {PageSize, BatchSize} \subseteq Nat \ {0}
  /\ {MaxDebt, MaxMoves, MaxFailures, MaxCrashes} \subseteq Nat
  /\ {BorrowsDusd, Unstakes} \subseteq SUBSET User
  /\ Routes \in [Bot -> SUBSET User]
  /\ Configured \subseteq Bot

VARIABLES
  known,            \* accounts the subgraph has indexed
  debt,             \* [User -> what the user owes]
  healthFactor,     \* [User -> the user's health factor, in the market]
  budget,           \* moves, failures and crashes left
  script,           \* the script the process runs
  bot,              \* the bot the script is running
  pc,               \* where the process stands
  trial,            \* trials of a bot that failed in a row (combo script)
  users,            \* allUserAddresses: found so far, then still to be handled
  batch,            \* batchUserAddresses
  healthFactors,    \* health factors read for the batch, 0 for undefined
  infos,            \* liquidatableUserInfos still to be handled
  amount,           \* the debt read, then toLiquidateAmount
  plan,             \* calls still to be made to perform the liquidation
  outcome,          \* userState.success of the user being handled
  mined,            \* history: a liquidation of this attempt was mined
  sentenced         \* history: [User -> time left since the user was put away]

marketVars == <<known, debt, healthFactor>>
workVars == <<users, batch, healthFactors, infos, amount, plan, outcome, mined>>
processVars == <<script, bot, pc, trial>>
vars == <<memoryVars, marketVars, budget, workVars, processVars, sentenced>>

(* Healthy; worth half a liquidation; under the close factor's threshold.      *)
HealthFactor == {10000, 9700, 9000}
CloseFactorHFThreshold == 9500
HealthFactorThreshold == 10000
ProfitableThresholdInUSD == 2
Collateral == [amount |-> 30, price |-> 1, unit |-> 1]
LiquidationBonus == 11000
DebtToken == [price |-> 20, unit |-> 1, liquidationBonus |-> LiquidationBonus]

amountToLiquidate(owed, health) ==
  getMaxLiquidationAmountCalculation(
    Collateral, [amount |-> owed, price |-> DebtToken.price, unit |-> DebtToken.unit],
    LiquidationBonus, health, CloseFactorHFThreshold)

breakingEven(toLiquidate) ==
  getLiquidationProfitInUSD(DebtToken, toLiquidate) >= 0

profitable(toLiquidate) ==
  /\ toLiquidate > 0
  /\ getLiquidationProfitInUSD(DebtToken, toLiquidate) >= ProfitableThresholdInUSD

---------------------------------------------------------------------------
(* The environment.                                                        *)

Spend(what) ==
  /\ budget[what] > 0
  /\ budget' = [budget EXCEPT ![what] = @ - 1]

(* Prices move, users borrow and repay, others liquidate.                  *)
Move ==
  /\ Spend("moves")
  /\ \E u \in User, owed \in 0 .. MaxDebt, health \in HealthFactor :
       /\ owed = 0 => health = 10000
       /\ debt' = [debt EXCEPT ![u] = owed]
       /\ healthFactor' = [healthFactor EXCEPT ![u] = health]
  /\ UNCHANGED <<memoryVars, known, workVars, processVars, sentenced>>

(* The subgraph indexes an account.                                        *)
Index ==
  /\ \E u \in User \ known : known' = known \cup {u}
  /\ UNCHANGED <<memoryVars, debt, healthFactor, budget, workVars, processVars,
                 sentenced>>

Tick ==
  /\ Elapse
  /\ sentenced' = OneLess(sentenced)
  /\ UNCHANGED <<marketVars, budget, workVars, processVars>>

NoWork ==
  /\ users' = <<>> /\ batch' = <<>> /\ healthFactors' = <<>> /\ infos' = <<>>
  /\ amount' = 0 /\ plan' = <<>> /\ outcome' = FALSE /\ mined' = FALSE

Die ==
  /\ pc' = "down"
  /\ Forget
  /\ NoWork
  /\ trial' = 0
  /\ UNCHANGED <<marketVars, script, bot, sentenced>>

Crash ==
  /\ pc \notin {"down", "exited"}
  /\ Spend("crashes")
  /\ Die
  /\ UNCHANGED memoryFile

---------------------------------------------------------------------------
(* Steps of the process. Each names the place it starts from, pc, and the  *)
(* one it ends at.                                                         *)

At(place) == pc = place
Goto(place) == pc' = place /\ UNCHANGED <<script, bot, trial>>
Aside == UNCHANGED <<marketVars, sentenced>>

(* A call that fails, with its exception caught at a place.                *)
FailTo(place) ==
  /\ Spend("failures")
  /\ Goto(place)
  /\ Aside
  /\ UNCHANGED memoryVars

user == Head(infos).userAddress

(* The first n elements, if there are as many, and what follows them.      *)
chunk(s, n) == SubSeq(s, 1, Min({n, Len(s)}))
afterChunk(s, n) == SubSeq(s, n + 1, Len(s))

(* The elements of a set of numbers, in their order.                       *)
InOrder(S) ==
  {s \in SetToSeqs(S) : \A i, j \in DOMAIN s : i < j => s[i] < s[j]}

(* The bot looks its configuration and its contracts up.                   *)
setUp(b, contractsFound) ==
  /\ At("starting") /\ bot = b
  /\ \/ /\ Goto(IF contractsFound /\ b \in Configured THEN "paging" ELSE "threw")
        /\ UNCHANGED <<budget, memoryVars>> /\ Aside
     \/ FailTo("threw")
  /\ UNCHANGED workVars

(* The accounts the subgraph lists after the last one seen: id_gt.         *)
accountsFrom(last) == {u \in known : u >= last}

accountsAfter(last) == {u \in known : u > last}

(* getAllLendingUserAddresses: the accounts after the last one seen, in    *)
(* the order of their ids, until a page is empty.                          *)
fetchPage(b) ==
  LET last == IF users = <<>> THEN 0 ELSE Last(users)
      later == accountsAfter(last)
  IN  /\ At("paging") /\ bot = b
      /\ \/ /\ \E page \in InOrder(later) : users' = users \o chunk(page, PageSize)
            /\ Goto(IF later = {} THEN "filtering" ELSE "paging")
            /\ UNCHANGED <<budget, memoryVars>> /\ Aside
         \/ FailTo("threw") /\ UNCHANGED users
      /\ UNCHANGED <<batch, healthFactors, infos, amount, plan, outcome, mined>>

(* Leave out the ignored users and shuffle the others.                     *)
filterAndShuffle(b) ==
  /\ At("filtering") /\ bot = b
  /\ IF users = <<>> THEN Goto("batching") /\ UNCHANGED <<users, memoryVars>>
     ELSE IF ~CanInitialize(b) THEN Goto("threw") /\ UNCHANGED <<users, memoryVars>>
     ELSE /\ Goto("batching")
          /\ lookUp(b, ToSet(users))
          /\ users' \in SetToSeqs({u \in ToSet(users) : ~isIgnored(b, u)})
  /\ Aside
  /\ UNCHANGED <<budget, batch, healthFactors, infos, amount, plan, outcome, mined>>

nextBatch(b) ==
  /\ At("batching") /\ bot = b
  /\ batch' = chunk(users, BatchSize)
  /\ users' = afterChunk(users, BatchSize)
  /\ healthFactors' = <<>>
  /\ Goto(IF users = <<>> THEN "returned" ELSE "healthFactors")
  /\ Aside
  /\ UNCHANGED <<memoryVars, budget, infos, amount, plan, outcome, mined>>

(* One health factor of the batch is read. A read that fails is caught and *)
(* gives undefined; or, where the promise is returned without an await,    *)
(* escapes the try around it and ends the batch.                           *)
readHealthFactor(b, awaited) ==
  /\ At("healthFactors") /\ bot = b
  /\ Len(healthFactors) < Len(batch)
  /\ \/ /\ healthFactors' = Append(healthFactors,
                                   healthFactor[batch[Len(healthFactors) + 1]])
        /\ UNCHANGED <<batch, budget, memoryVars, processVars>> /\ Aside
     \/ /\ awaited
        /\ FailTo("healthFactors")
        /\ healthFactors' = Append(healthFactors, 0)
        /\ UNCHANGED batch
     \/ /\ ~awaited
        /\ FailTo("batching")
        /\ healthFactors' = <<>> /\ batch' = <<>>
  /\ UNCHANGED <<users, infos, amount, plan, outcome, mined>>

(* The health factors that were fetched are matched with the users by      *)
(* position; fetched holds the places where they were read.                *)
pairHealthFactors(b) ==
  /\ At("healthFactors") /\ bot = b
  /\ Len(healthFactors) = Len(batch)
  /\ \E fetched \in InOrder({i \in DOMAIN healthFactors : healthFactors[i] # 0}) :
       LET health(i) == healthFactors[fetched[i]]
       IN  \E low \in InOrder({i \in DOMAIN fetched : health(i) < HealthFactorThreshold}) :
             infos' = [k \in DOMAIN low |->
                        [userAddress |-> batch[low[k]],
                         healthFactor |-> health(low[k]),
                         readFor |-> batch[fetched[low[k]]]]]
  /\ batch' = <<>> /\ healthFactors' = <<>>
  /\ Goto("users")
  /\ Aside
  /\ UNCHANGED <<memoryVars, budget, users, amount, plan, outcome, mined>>

nextUser(b) ==
  /\ At("users") /\ bot = b
  /\ Goto(IF infos = <<>> THEN "batching" ELSE "balances")
  /\ Aside
  /\ UNCHANGED <<memoryVars, budget, workVars>>

(* getUserLiquidationParams: the balances are read, then the health factor *)
(* again; what is too little is not worth a transaction.                   *)
readBalances(b) ==
  /\ At("balances") /\ bot = b
  /\ \/ amount' = debt[user] /\ Goto("amount") /\ Aside /\ UNCHANGED <<memoryVars, budget>>
     \/ FailTo("puttingAway") /\ UNCHANGED amount
  /\ UNCHANGED <<users, batch, healthFactors, infos, plan, outcome, mined>>

chooseAmount(b, calls) ==
  LET toLiquidate == amountToLiquidate(amount, healthFactor[user])
  IN  /\ At("amount") /\ bot = b
      /\ \/ /\ profitable(toLiquidate)
            /\ amount' = toLiquidate /\ plan' = calls
            /\ Goto("performing") /\ Aside /\ UNCHANGED <<memoryVars, budget>>
         \/ /\ ~profitable(toLiquidate)
            /\ amount' = 0
            /\ Goto("puttingAway") /\ Aside /\ UNCHANGED <<memoryVars, budget, plan>>
         \/ FailTo("puttingAway") /\ amount' = 0 /\ UNCHANGED plan
      /\ UNCHANGED <<users, batch, healthFactors, infos, outcome, mined>>

(* The next call of the liquidation, of which only success matters here.   *)
call(b, name) ==
  /\ At("performing") /\ bot = b /\ Head(plan) = name
  /\ \/ plan' = Tail(plan) /\ Goto("performing") /\ Aside
        /\ UNCHANGED <<memoryVars, budget, amount>>
     \/ FailTo("puttingAway") /\ plan' = <<>> /\ amount' = 0
  /\ UNCHANGED <<users, batch, healthFactors, infos, outcome, mined>>

(* A call that also fails when the collateral cannot be swapped.           *)
findRoute(b, name) ==
  \/ call(b, name) /\ user \in Routes[b]
  \/ /\ At("performing") /\ bot = b /\ Head(plan) = name
     /\ user \notin Routes[b]
     /\ Goto("puttingAway")
     /\ plan' = <<>> /\ amount' = 0
     /\ Aside
     /\ UNCHANGED <<memoryVars, budget, users, batch, healthFactors, infos, outcome,
                    mined>>

(* The market repays what was asked for, and no more than it allows now.   *)
Liquidated(u, repay) ==
  LET allowed == closeFactorAmount(debt[u], healthFactor[u], CloseFactorHFThreshold)
      left == debt[u] - (IF repay < allowed THEN repay ELSE allowed)
  IN  /\ healthFactor[u] < 10000
      /\ debt' = [debt EXCEPT ![u] = left]
      /\ \E health \in HealthFactor :
           /\ left = 0 => health = 10000
           /\ healthFactor' = [healthFactor EXCEPT ![u] = health]
      /\ UNCHANGED known

(* The liquidation is sent: mined and confirmed; mined, and the wait for   *)
(* its receipt fails; or reverted, for one because the user is no longer   *)
(* under water or the collateral cannot be swapped.                        *)
sendLiquidation(b, name) ==
  /\ At("performing") /\ bot = b /\ Head(plan) = name
  /\ \/ /\ user \in Routes[b] /\ Liquidated(user, amount)
        /\ mined' = TRUE /\ outcome' = TRUE
        /\ Goto("reporting")
        /\ UNCHANGED <<memoryVars, budget, sentenced>>
     \/ /\ user \in Routes[b] /\ Liquidated(user, amount)
        /\ Spend("failures")
        /\ mined' = TRUE
        /\ Goto("puttingAway")
        /\ UNCHANGED <<memoryVars, outcome, sentenced>>
     \/ /\ healthFactor[user] >= 10000 \/ user \notin Routes[b]
        /\ Goto("puttingAway") /\ Aside
        /\ UNCHANGED <<memoryVars, budget, outcome, mined>>
     \/ FailTo("puttingAway") /\ UNCHANGED <<outcome, mined>>
  /\ plan' = <<>> /\ amount' = 0
  /\ UNCHANGED <<users, batch, healthFactors, infos>>

(* Whatever kept the user from being liquidated, the user is put away. The *)
(* memory may be unreadable, which ends the batch, and the process may die *)
(* while it writes the file.                                               *)
putAway(b) ==
  /\ At("puttingAway") /\ bot = b
  /\ \/ /\ put(b, user)
        /\ sentenced' = [sentenced EXCEPT ![user] = IgnoreDuration[b]]
        /\ outcome' = FALSE
        /\ Goto("reporting")
        /\ UNCHANGED <<marketVars, budget, users, batch, healthFactors, infos,
                       amount, plan, mined>>
     \/ /\ ~CanInitialize(b)
        /\ Goto("batching")
        /\ infos' = <<>> /\ amount' = 0 /\ mined' = FALSE
        /\ Aside
        /\ UNCHANGED <<memoryVars, budget, users, batch, healthFactors, plan, outcome>>
     \/ /\ CanInitialize(b)
        /\ Spend("crashes")
        /\ Die
        /\ memoryFile' = TornFile

(* The user's state file is written, with success or not. No bot reads it. *)
saveUserState(b) ==
  /\ At("reporting") /\ bot = b
  /\ infos' = Tail(infos)
  /\ amount' = 0 /\ mined' = FALSE /\ outcome' = FALSE
  /\ Goto("users")
  /\ UNCHANGED <<memoryVars, marketVars, budget, users, batch, healthFactors, plan,
                 sentenced>>
=============================================================================
