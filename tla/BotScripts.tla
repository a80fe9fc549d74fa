------------------------------- MODULE BotScripts -------------------------------
(* The scripts of scripts/liquidator-bot that run the bots: each bot's own     *)
(* endless loop, the combo of Odos with Curve to fall back to, and the scripts *)
(* that handle a list of users once.                                           *)
EXTENDS OdosBot, CurveBot, UniswapV3Bot

CONSTANTS
  Script,                  \* the scripts considered
  SpecificUsers,           \* the list in a liquidate_specific_users script
  MaxOdosFailureCount,     \* trials of the Odos bot in a run of the combo
  MaxCurveFailureCount     \* trials of the Curve bot after them

ASSUME ScriptAssumption ==
  /\ {MaxOdosFailureCount, MaxCurveFailureCount} \subseteq Nat \ {0}
  /\ SpecificUsers \in Seq(User) /\ IsInjective(SpecificUsers)
  /\ {"odos", "curve", "uniswapV3"} \subseteq Bot

OneShot == {"odos/specific", "curve/specific", "uniswapV3/specific"}

(* The bot a script runs first.                                                *)
firstBot ==
  CASE script \in {"curve/run", "curve/specific"} -> "curve"
    [] script \in {"uniswapV3/run", "uniswapV3/specific"} -> "uniswapV3"
    [] OTHER -> "odos"

Start(b, n) ==
  /\ pc' = "starting" /\ bot' = b /\ trial' = n
  /\ NoWork
  /\ Aside
  /\ UNCHANGED <<memoryVars, budget, script>>

Rest ==
  /\ pc' = "idle" /\ trial' = 0
  /\ NoWork
  /\ Aside
  /\ UNCHANGED <<memoryVars, budget, script, bot>>

(* while (true): whatever a run comes to, another follows.                     *)
loopUntilItThrows(s, b) == script = s /\ pc \in {"idle", "returned"} /\ Start(b, 0)

loop(s, b) == script = s /\ pc \in {"idle", "returned", "threw"} /\ Start(b, 0)

odosMain == loop("odos/run", "odos")
curveMain == loop("curve/run", "curve")
uniswapV3Main == loop("uniswapV3/run", "uniswapV3")

(* A trial that throws is repeated; one that returns is a success.             *)
runOdosTrials ==
  \/ At("idle") /\ Start("odos", 0)
  \/ At("threw") /\ bot = "odos" /\ trial + 1 < MaxOdosFailureCount
       /\ Start("odos", trial + 1)
  \/ At("returned") /\ bot = "odos" /\ Rest

runCurveTrial ==
  \/ At("threw") /\ bot = "odos" /\ trial + 1 >= MaxOdosFailureCount
       /\ Start("curve", 0)
  \/ At("threw") /\ bot = "curve" /\ trial + 1 < MaxCurveFailureCount
       /\ Start("curve", trial + 1)
  \/ At("threw") /\ bot = "curve" /\ trial + 1 >= MaxCurveFailureCount /\ Rest
  \/ At("returned") /\ bot = "curve" /\ Rest

comboMain == script = "combo/run" /\ (runOdosTrials \/ runCurveTrial)

(* The health factors are printed first, where a failure ends the script; then *)
(* the list is one batch.                                                      *)
liquidateSpecificUsers(s, b, contractsFound) ==
  /\ script = s
  /\ \/ /\ At("idle")
        /\ pc' = IF contractsFound THEN "printing" ELSE "exited"
        /\ bot' = b
        /\ UNCHANGED <<script, trial, budget, memoryVars, workVars>> /\ Aside
     \/ /\ At("printing")
        /\ Goto(IF b \in Configured THEN "healthFactors" ELSE "exited")
        /\ batch' = SpecificUsers
        /\ Aside
        /\ UNCHANGED <<memoryVars, budget, users, healthFactors, infos, amount, plan,
                       outcome, mined>>
     \/ At("printing") /\ FailTo("exited") /\ UNCHANGED workVars
     \/ /\ At("returned")
        /\ Goto("exited")
        /\ Aside
        /\ UNCHANGED <<memoryVars, budget, workVars>>

odosSpecificUsers ==
  liquidateSpecificUsers("odos/specific", "odos",
    getOdosFlashMintLiquidatorBot /\ getOdosFlashLoanLiquidatorBot)
curveSpecificUsers ==
  liquidateSpecificUsers("curve/specific", "curve",
    getCurveFlashMintLiquidatorBot /\ getCurveFlashLoanLiquidatorBot)
uniswapV3SpecificUsers ==
  liquidateSpecificUsers("uniswapV3/specific", "uniswapV3",
    getUniswapV3FlashMintLiquidatorBot
      /\ getUniswapV3FlashLoanLiquidatorBot)

(* Somebody, or the container, starts a dead script again.                     *)
restart ==
  /\ At("down")
  /\ Goto("idle")
  /\ Aside
  /\ UNCHANGED <<memoryVars, budget, workVars>>

Process ==
  \/ runOdosBot \/ runCurveBot \/ runUniswapV3Bot
  \/ odosMain \/ curveMain \/ uniswapV3Main \/ comboMain
  \/ odosSpecificUsers \/ curveSpecificUsers \/ uniswapV3SpecificUsers
  \/ restart

Init ==
  /\ memory = [b \in Bot |-> NoEntries]
  /\ isInitialized = [b \in Bot |-> FALSE]
  /\ memoryFile \in {AbsentFile} \cup {FileOf(b, NoEntries) : b \in Bot}
  /\ known = {}
  /\ debt \in [User -> 0 .. MaxDebt]
  /\ healthFactor \in [User -> HealthFactor]
  /\ \A u \in User : debt[u] = 0 => healthFactor[u] = 10000
  /\ budget = [moves |-> MaxMoves, failures |-> MaxFailures, crashes |-> MaxCrashes]
  /\ script \in Script
  /\ bot = firstBot /\ pc = "idle" /\ trial = 0
  /\ users = <<>> /\ batch = <<>> /\ healthFactors = <<>> /\ infos = <<>>
  /\ amount = 0 /\ plan = <<>> /\ outcome = FALSE /\ mined = FALSE
  /\ sentenced = [u \in User |-> 0]

Next == Process \/ Move \/ Index \/ Tick \/ Crash

(* The loops have nothing to wait for, and time passes; nothing else is owed.  *)
Spec == Init /\ [][Next]_vars /\ WF_vars(Process) /\ WF_vars(Tick)

---------------------------------------------------------------------------------
(* Properties.                                                                 *)

Place ==
  {"idle", "starting", "paging", "filtering", "batching", "healthFactors", "users",
   "balances", "amount", "performing", "puttingAway", "reporting", "returned",
   "threw", "printing", "down", "exited"}

(* Every part of the process, its memories and the market is what it should be. *)
TypeOK ==
  /\ DOMAIN memory = Bot /\ \A b \in Bot : memory[b] \in Entries(IgnoreDuration[b])
  /\ isInitialized \in [Bot -> BOOLEAN]
  /\ memoryFile \in [status : {"absent", "whole", "torn"}, ignoreDuration : Nat,
                     memory : Entries(memoryFile.ignoreDuration)]
  /\ known \subseteq User
  /\ debt \in [User -> 0 .. MaxDebt] /\ healthFactor \in [User -> HealthFactor]
  /\ budget \in [moves : 0 .. MaxMoves, failures : 0 .. MaxFailures,
                 crashes : 0 .. MaxCrashes]
  /\ script \in Script /\ bot \in Bot /\ pc \in Place
  /\ trial < MaxOdosFailureCount + MaxCurveFailureCount
  /\ users \in Seq(User) /\ batch \in Seq(User)
  /\ infos \in Seq([userAddress : User, healthFactor : Nat, readFor : User])
  /\ Len(healthFactors) <= Len(batch)
  /\ pc \in {"balances", "amount", "performing", "puttingAway", "reporting"}
       => infos # <<>>
  /\ pc = "performing" => plan # <<>> /\ amount > 0
  /\ sentenced \in [User -> Nat]

infoUsers == [i \in DOMAIN infos |-> infos[i].userAddress]

(* Nobody is handled twice in a run of a bot: not because the subgraph's pages *)
(* overlap or grow while they are read, nor because of the shuffle, nor because *)
(* health factors were matched with the wrong users.                           *)
OncePerRun == IsInjective(users \o batch \o infoUsers)

(* A user that was put away is not tried again until the time is over, even if *)
(* the bot died and was started again in between. The combo is excepted: its   *)
(* two bots overwrite each other's entries in the file they share.             *)
IgnoredStayIgnored ==
  [][pc = "users" /\ pc' = "balances" /\ script \notin OneShot \cup {"combo/run"}
       => sentenced[user] = 0]_vars

(* What a user's state file says is so: success, that a liquidation the bot    *)
(* sent in this attempt was mined; failure, that the user is put away in the   *)
(* memory's file, where the bot finds it after a restart. A memory that cannot *)
(* be read must end the batch before anything is reported.                     *)
ReportedTruly ==
  pc = "reporting"
  => IF outcome THEN mined ELSE user \in DOMAIN memoryFile.memory

Worthwhile(u) == profitable(amountToLiquidate(debt[u], healthFactor[u]))

(* A looping bot that can read its memory gets to every user worth liquidating *)
(* that the subgraph knows and for whose collateral there is a swap: whatever  *)
(* calls failed, moves of the market crossed its reads or crashes lost its     *)
(* place, no such user stays worth liquidating for good.                       *)
Rescued ==
  /\ script \notin OneShot
  /\ memoryFile.status = "whole" => memoryFile.ignoreDuration = IgnoreDuration[firstBot]
  /\ [](memoryFile.status # "torn")
  => \A u \in User :
       <>[]~(u \in known /\ u \in Routes[firstBot] /\ Worthwhile(u))

(* The health factor a user is said to have, and is picked for, is that user's  *)
(* own.                                                                        *)
HealthFactorsPaired == \A i \in DOMAIN infos : infos[i].readFor = infos[i].userAddress
===============================================================================
