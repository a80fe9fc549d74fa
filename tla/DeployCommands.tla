--------------------------- MODULE DeployCommands --------------------------
(***************************************************************************)
(* The deployment commands of the Makefile: the scripts each selects on a  *)
(* network, in the order hardhat-deploy runs them, and what they leave.    *)
(***************************************************************************)
EXTENDS BotDeploy, DusdDeploy, OracleDeploy, SequencesExt

CONSTANT Network     \* the networks migrated

-----------------------------------------------------------------------------
(* The scripts, in the order of their paths, and what the environment      *)
(* variables of a command narrow them to.                                  *)
deployScripts(n) ==
    localScripts(n) \o dexScripts(n) \o oracleScripts(n) \o lendingScripts(n)
      \o botScripts(n) \o dusdScripts(n) \o amoVaultScripts(n)
      \o dloopScripts(n)
      \o <<curveOracleWrapper(n), pointCurveOracleWrappers(n),
           addFxbReserve(n), balanceChecker(n), addUsdt(n),
           newApi3Wrappers(n), pointNewApi3Wrappers(n),
           configureNewReserveWrappers(n), pointNewReserveWrappers(n),
           addReserves202502(n), updateSfrxUSD(n)>>

getDefaultDeployScriptPaths(n, flag) ==
    CASE flag = "DEPLOY_DUSD" -> localScripts(n) \o dusdScripts(n)
      [] flag = "DEPLOY_DUSD_AMO_VAULT" -> localScripts(n) \o amoVaultScripts(n)
      [] OTHER -> deployScripts(n)

(* The commands: an environment variable, the tags selected (all scripts   *)
(* for none) and the migrations forgotten first, by the prefix of their id. *)
Command(flag, tags, cleans) == [flag |-> flag, tags |-> tags, cleans |-> cleans]

deployLiquidatorBot ==
    Command("", {"liquidator-bot", "curve-helper"},
            {"FlashLoanLiquidator", "FlashMintLiquidator", "CurveHelper"})
deployDusd        == Command("DEPLOY_DUSD", {"dusd"}, {})
deployAmoVault_   == Command("DEPLOY_DUSD_AMO_VAULT", {"amo_vault"}, {})
deployContract_   == Command("", {}, {})
deployTags(tags)  == Command("", tags, {})

(* Everything, as far as it goes, then the parts it did not reach. *)
RunBook ==
    <<deployContract_, deployLiquidatorBot, deployDusd, deployAmoVault_,
      deployTags({"dloop"}), deployTags({"api3-migration-202501"}),
      deployTags({"fxb-reserve"}), deployTags({"fxtl"})>>

(* The queue: each selected script after those one of whose tags it        *)
(* depends on, which are selected with it; of all scripts, by index.       *)
queueOf(all, selected) ==
    LET ofTag(tag) == SelectSeq([k \in 1..Len(all) |-> k],
                                LAMBDA k : tag \in all[k].tags)
        dependencies(k) == FoldLeft(LAMBDA found, tag : found \o ofTag(tag),
                                    <<>>, all[k].dependencies)
        visit[queue \in Seq(Nat), wanted \in Seq(Nat)] ==
            IF wanted = <<>> THEN queue
            ELSE LET k == Head(wanted) IN
                 visit[IF k \in ToSet(queue) THEN queue
                       ELSE Append(visit[queue, dependencies(k)], k),
                       Tail(wanted)]
        queue == visit[<<>>, selected]
    IN [j \in 1..Len(queue) |-> all[queue[j]]]

executeDeployScripts(n, c) ==
    LET all == getDefaultDeployScriptPaths(n, c.flag)
        selected(k) == c.tags = {} \/ all[k].tags \intersect c.tags # {}
    IN queueOf(all, SelectSeq([k \in 1..Len(all) |-> k], selected))

(* The queues of the commands.  A function is given by its pairs, and      *)
(* sequences by folds: these are evaluated once.                           *)
FunctionOf(pairs) == FoldSet(LAMBDA p, f : f @@ (p[1] :> p[2]), <<>>, pairs)

QueuesOn(n) ==
    FoldLeft(LAMBDA q, c : Append(q, executeDeployScripts(n, c)), <<>>, RunBook)
Queues == FunctionOf({<<n, QueuesOn(n)>> : n \in Network})
=============================================================================
