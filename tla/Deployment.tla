----------------------------- MODULE Deployment ----------------------------
(***************************************************************************)
(* The migration of a network: an operator runs the deployment commands of *)
(* the Makefile one after another; each runs the scripts it selects, in    *)
(* order, step by step.  A script that returns true is entered in the      *)
(* network's .migrations.json and never run again; one that throws ends    *)
(* the command, which the operator then runs again.                        *)
(*                                                                         *)
(* On a live network a transaction is pending before it is mined, those of *)
(* one sender in their order; a node may forget the last ones.  A command  *)
(* may be killed at any time.                                              *)
(***************************************************************************)
EXTENDS DeployOutline

CONSTANTS
    Retries,     \* times a command that threw is run again
    Faults       \* times a command may be killed or transactions forgotten

ASSUME DeploymentAssumption == {Retries, Faults} \subseteq Nat

VARIABLES
    network,     \* the network of this behaviour
    command,     \* index of the command in the runbook
    place,       \* where the command stands in its queue of scripts
    script,      \* the script that runs
    step,        \* index of the step in the script
    status,      \* of the command: idle, between two scripts, running, waiting
                 \* for a transaction, failed; done when there is no other
    tries,       \* times the command has thrown
    migrations,  \* .migrations.json: the ids of the scripts that succeeded
    records,     \* the deployments saved, by name
    zero,        \* those of them saved with the zero address
    chain,       \* the facts of the contracts
    pending,     \* the transactions of each sender not mined yet
    crashes,     \* the commands killed so far
    losses       \* the times transactions were forgotten so far

script_ == <<command, place, script, step, status, tries>>
vars == <<network, script_, migrations, records, zero, chain, pending,
          crashes, losses>>

-----------------------------------------------------------------------------
body == script.body
now  == body[step]
Running(does) == status = "running" /\ step =< Len(body) /\ now.does = does

(* The scripts of a queue not migrated, from p on. *)
AllScripts(queue, p) == p..Len(queue)
Unmigrated(queue, p) ==
    {k \in p..Len(queue) : queue[k].id \notin migrations}

GoTo(p) ==
    /\ status' = "between" /\ place' = p
    /\ script' = NoScript /\ step' = 0 /\ UNCHANGED <<command, tries>>
BeforeScripts == place' = 0 /\ script' = NoScript /\ step' = 0
NextCommand ==
    /\ command' = command + 1 /\ tries' = 0
    /\ status' = IF command < Len(RunBook) THEN "idle" ELSE "done"
    /\ BeforeScripts

Advance(k) ==
    step' = step + k /\ UNCHANGED <<command, place, script, status, tries>>
Throws ==
    /\ status' = "failed" /\ tries' = tries + 1
    /\ UNCHANGED <<command, place, script, step>>

(* What a transaction does to the contracts, unless it reverts. *)
Accepted(tx) == NeedsOf(tx) \subseteq chain /\ tx.bars \intersect chain = {}
After(tx)    == IF Accepted(tx) THEN (chain \ tx.drops) \union tx.adds ELSE chain

-----------------------------------------------------------------------------
start ==
    /\ status = "idle"
    /\ migrations' = {id \in migrations :
                         ~ \E p \in RunBook[command].cleans : IsPrefix(p, id)}
    /\ GoTo(1)
    /\ UNCHANGED <<network, records, zero, chain, pending, crashes, losses>>

(* The next script of the command, or the end of the command. *)
next ==
    /\ status = "between"
    /\ LET queue == Queues[network][command] IN
       IF Unmigrated(queue, place) = {} THEN NextCommand
       ELSE \E k \in Unmigrated(queue, place) :
                /\ \A j \in Unmigrated(queue, place) : k =< j
                /\ place' = k /\ script' = queue[k] /\ step' = 1
                /\ status' = "running" /\ UNCHANGED <<command, tries>>
    /\ UNCHANGED <<network, migrations, records, zero, chain, pending, crashes,
                   losses>>

(* A record looked up; a state read and refused. *)
get ==
    /\ Running("get")
    /\ IF now.needs \subseteq records THEN Advance(1) ELSE Throws
    /\ UNCHANGED <<network, migrations, records, zero, chain, pending, crashes,
                   losses>>

checkNothing ==
    /\ Running("check") /\ Advance(1)
    /\ UNCHANGED <<network, migrations, records, zero, chain, pending, crashes,
                   losses>>

check ==
    /\ Running("check")
    /\ IF now.needs \subseteq chain THEN Advance(1) ELSE Throws
    /\ UNCHANGED <<network, migrations, records, zero, chain, pending, crashes,
                   losses>>

throw ==
    /\ Running("throw")
    /\ Throws
    /\ UNCHANGED <<network, migrations, records, zero, chain, pending, crashes,
                   losses>>

(* The steps of a condition are passed over when it holds already. *)
Conditions == {"unless", "unlessSaved", "unlessZero"}
Consulted(does) == CASE does = "unless"      -> chain
                     [] does = "unlessSaved" -> records
                     [] does = "unlessZero"  -> zero

passOver ==
    /\ \E does \in Conditions : Running(does)
    /\ Advance(1 + now.length)
    /\ UNCHANGED <<network, migrations, records, zero, chain, pending, crashes,
                   losses>>

condition ==
    /\ \E does \in Conditions : Running(does)
    /\ IF now.needs \subseteq Consulted(now.does)
       THEN Advance(1 + now.length) ELSE Advance(1)
    /\ UNCHANGED <<network, migrations, records, zero, chain, pending, crashes,
                   losses>>

save ==
    /\ Running("save")
    /\ records' = records \union now.adds
    /\ zero' = IF now.needs \subseteq chain THEN zero \ now.adds
               ELSE zero \union now.adds
    /\ Advance(1)
    /\ UNCHANGED <<network, migrations, chain, pending, crashes, losses>>

(* A transaction's gas is estimated first, on the state of the moment: one *)
(* that would revert is not sent.  A local network mines it at once.       *)
Estimated == Accepted(now)

send ==
    /\ Running("send") /\ Estimated
    /\ Advance(1)
    /\ IF isLocalNetwork(network)
       THEN chain' = After(now) /\ UNCHANGED pending
       ELSE /\ pending' = [pending EXCEPT ![script.sender] = Append(@, now)]
            /\ UNCHANGED chain
    /\ UNCHANGED <<network, migrations, records, zero, crashes, losses>>

(* Waiting for a transaction, or for a deployment not known yet. *)
submitAndGoOn ==
    /\ \/ Running("await")
       \/ Running("deploy") /\ ~ now.needs \subseteq records
    /\ Estimated
    /\ IF now.does = "await" THEN Advance(1)
       ELSE status' = "waiting" /\ UNCHANGED <<command, place, script, step, tries>>
    /\ pending' = [pending EXCEPT ![script.sender] = Append(@, now)]
    /\ UNCHANGED <<network, migrations, records, zero, chain, crashes, losses>>

submit ==
    /\ \/ Running("await")
       \/ Running("deploy") /\ ~ now.needs \subseteq records
    /\ Estimated
    /\ status' = "waiting"
    /\ pending' = [pending EXCEPT ![script.sender] = Append(@, now)]
    /\ UNCHANGED <<network, command, place, script, step, tries, migrations,
                   records, zero, chain, crashes, losses>>

refused ==
    /\ Running("send") \/ Running("await")
    /\ ~ Estimated
    /\ Throws
    /\ UNCHANGED <<network, migrations, records, zero, chain, pending, crashes,
                   losses>>

reuse ==
    /\ Running("deploy") /\ now.needs \subseteq records
    /\ Advance(1)
    /\ UNCHANGED <<network, migrations, records, zero, chain, pending, crashes,
                   losses>>

(* A script that returns true is entered in the migrations; one that       *)
(* returns false is not.                                                   *)
record ==
    /\ status = "running" /\ step = Len(body) + 1
    /\ migrations' = migrations \union {script.id}
    /\ GoTo(place + 1)
    /\ UNCHANGED <<network, records, zero, chain, pending, crashes, losses>>

returnFalse ==
    /\ Running("return")
    /\ GoTo(place + 1)
    /\ UNCHANGED <<network, migrations, records, zero, chain, pending, crashes, losses>>

(* A command that threw is run again, once nothing is pending any more,    *)
(* until the operator goes on.                                             *)
retryForEver ==
    /\ status = "failed" /\ \A s \in Senders : pending[s] = <<>>
    /\ status' = "idle" /\ tries' = 0 /\ UNCHANGED command
    /\ BeforeScripts
    /\ UNCHANGED <<network, migrations, records, zero, chain, pending, crashes,
                   losses>>

retry ==
    /\ status = "failed" /\ \A s \in Senders : pending[s] = <<>>
    /\ IF tries > Retries THEN NextCommand
       ELSE status' = "idle" /\ UNCHANGED <<command, tries>> /\ BeforeScripts
    /\ UNCHANGED <<network, migrations, records, zero, chain, pending, crashes,
                   losses>>

-----------------------------------------------------------------------------
(* The first pending transaction of a sender is mined; when it is the one  *)
(* the script waits for, the script goes on, or throws if it reverted.     *)
Awaited(s) ==
    status = "waiting" /\ script.sender = s /\ Len(pending[s]) = 1
mine(s) ==
    /\ pending[s] # <<>>
    /\ LET tx == Head(pending[s]) IN
       /\ chain' = After(tx)
       /\ IF ~Awaited(s) THEN UNCHANGED <<script_, records>>
          ELSE IF ~Accepted(tx) THEN Throws /\ UNCHANGED records
          ELSE /\ step' = step + 1 /\ status' = "running"
               /\ records' = records \union
                      (IF now.does = "deploy" THEN now.needs ELSE {})
               /\ UNCHANGED <<command, place, script, tries>>
    /\ pending' = [pending EXCEPT ![s] = Tail(@)]
    /\ UNCHANGED <<network, migrations, zero, crashes, losses>>

(* The last transactions of a sender are forgotten.  A script that waits   *)
(* for one of them would wait for ever: the operator stops it.             *)
lose(s) ==
    /\ crashes + losses < Faults /\ pending[s] # <<>>
    /\ \E k \in {0, Len(pending[s]) - 1} :
           pending' = [pending EXCEPT ![s] = SubSeq(@, 1, k)]
    /\ losses' = losses + 1
    /\ IF status = "waiting" /\ script.sender = s
       THEN status' = "failed" /\ UNCHANGED <<command, place, script, step, tries>>
       ELSE UNCHANGED script_
    /\ UNCHANGED <<network, migrations, records, zero, chain, crashes>>

(* A command is killed, and run again; before the first step of a script   *)
(* as after the last one of that before it.                                *)
skip ==
    /\ crashes + losses < Faults /\ status \in {"running", "waiting"}
    /\ step =< Len(body)
    /\ crashes' = crashes + 1
    /\ status' = "running" /\ step' = step + 1
    /\ UNCHANGED <<network, command, place, script, tries, migrations, records,
                   zero, chain, pending, losses>>

crash ==
    /\ crashes + losses < Faults /\ status \in {"running", "waiting"}
    /\ crashes' = crashes + 1
    /\ status' = "idle" /\ BeforeScripts
    /\ UNCHANGED <<network, command, tries, migrations, records, zero, chain,
                   pending, losses>>

-----------------------------------------------------------------------------
Init ==
    /\ network \in Network
    /\ command = 1 /\ place = 0 /\ script = NoScript /\ step = 0
    /\ status = "idle" /\ tries = 0
    /\ migrations = {} /\ records = {} /\ zero = {} /\ chain = {}
    /\ pending = [s \in Senders |-> <<>>]
    /\ crashes = 0 /\ losses = 0

Operate == start \/ retry
Proceed == \/ next \/ get \/ check \/ throw \/ condition \/ save \/ send \/ submit
           \/ refused \/ reuse \/ record \/ returnFalse
Mine    == \E s \in Senders : mine(s)
Next    == Operate \/ Proceed \/ Mine \/ (\E s \in Senders : lose(s)) \/ crash

(* The operator goes on, the process runs or the chain mines, as long as   *)
(* one of them can; nothing obliges a command to be killed or a            *)
(* transaction to be forgotten.                                            *)
Spec == Init /\ [][Next]_vars /\ WF_vars(Operate \/ Proceed \/ Mine)
-----------------------------------------------------------------------------
Faulty   == crashes + losses > 0
OnTheWay == UNION {UNION {pending[s][k].adds : k \in 1..Len(pending[s])} :
                       s \in Senders}

(* Scripts that throw on a network whatever has happened: the bots of the  *)
(* first version, USDT without its feed, a vault without its pool.         *)
AlwaysThrow ==
    [local   |-> {"FlashMintLiquidatorBorrowRepayAave"},
     testnet |-> {"FlashMintLiquidatorBorrowRepayAave", "DLoopVaultUniswapV3"},
     mainnet |-> {"FlashMintLiquidatorBorrowRepayAave",
                  "PointApi3UsdtOracleWrapper"}][network]

(* Scripts that cannot be run again once killed half-way, and those that   *)
(* look for what they were to leave.                                       *)
NotResumable ==
    {"Treasury", "L2PoolImplementations", "PoolConfigurator", "Incentives",
     "dUSD:CurveStableSwapNGAmoVault"}
Pointing ==
    {"Api3MigrationPointNewWrappers",
     "PointNewOracleWrappers202502"}
Dependent ==
    {"dLendBalanceChecker", "PoolInitalization", "DLoopVaultUniswapV3",
     "FlashMintLiquidatorAaveBorrowRepayUniswapV3"}

-----------------------------------------------------------------------------
(* Every part of the process, its records and the chain is what it should  *)
(* be; no script that has succeeded is run again.                          *)
TypeOK ==
    /\ network \in Network /\ command \in 1..(Len(RunBook) + 1)
    /\ status \in {"idle", "between", "running", "waiting", "failed", "done"}
    /\ status \in {"running", "waiting", "failed"} =>
           /\ script # NoScript /\ step \in 1..(Len(body) + 1)
           /\ script.id \notin migrations
    /\ tries \in 0..(Retries + 1)
    /\ zero \subseteq records
    /\ DOMAIN pending = Senders
    /\ crashes \in Nat /\ losses \in Nat /\ crashes + losses =< Faults

(* An asset the aggregator points at a wrapper has a price there: killed   *)
(* commands, forgotten and late transactions notwithstanding, no asset is  *)
(* pointed at a wrapper before its feed is mined.                          *)
PointedAtFeed == \A f \in chain : Required(f) \subseteq chain

(* A proxy that is saved is the one the provider made, but for that of the *)
(* incentives.                                                             *)
ProxiesSaved == zero \subseteq {"IncentivesProxy"}

(* What a migration records is there: its deployments are saved, and, of   *)
(* the transactions it sent, none is missing that nobody forgot.           *)
MigratedMeansDone ==
    LET there == chain \union OnTheWay IN
    \A e \in Evidence[network] : e.id \in migrations =>
        e.names \subseteq records /\ (losses = 0 => e.facts \subseteq there)

(* A command gives up only at a script that always throws, at one that was *)
(* killed half-way and refuses to go on, or at one that depends on it.     *)
GivesUpWhereKnown ==
    status = "failed" /\ tries > Retries =>
        script.id \in AlwaysThrow
            \union (IF Faulty THEN NotResumable \union Dependent ELSE {})
            \union (IF losses > 0 THEN Pointing ELSE {})

(* Ownership of the emission manager passes on with the proxy as its       *)
(* rewards controller, unless the proxy was saved as the zero address: then *)
(* that is what the manager was given, on a live network whenever the proxy *)
(* was not mined at once.                                                  *)
HandedOverConfigured ==
    losses = 0 /\ FinalOwner \in chain =>
        RewardsController \in chain \/ "IncentivesProxy" \in zero

(* "Set aTokenAndRatesDeployer as temporal admin": between commands nobody *)
(* is a risk admin, unless a command was killed or a transaction forgotten *)
(* between the two transactions.                                           *)
RiskAdminIsTemporary ==
    status = "idle" /\ ~Faulty => Role("riskAdmin") \notin chain

(* Every runbook ends, with all that was sent mined or forgotten.          *)
Settles == <>[](status = "done" /\ \A s \in Senders : pending[s] = <<>>)
=============================================================================
