---------------------------- MODULE DeploySteps ----------------------------
(***************************************************************************)
(* The language the migration scripts of deploy/ are written in.  A script *)
(* is an identifier, its tags, the tags it depends on and a body: the      *)
(* sequence of steps its function takes, in order.  A step reads the saved *)
(* deployments, reads the chain, or sends a transaction.                   *)
(*                                                                         *)
(* What a contract's state says is a set of facts, tuples such as          *)
(* <<"oracle", "dUSD", "HardPegOracleWrapper">>.  A transaction reverts    *)
(* unless the facts it needs hold and those that bar it do not; it adds    *)
(* and drops facts.                                                        *)
(***************************************************************************)
EXTENDS Sequences, FiniteSets, FiniteSetsExt

Networks == {"local", "testnet", "mainnet"}

isLocalNetwork(n)   == n = "local"
isTestnetNetwork(n) == n = "testnet"
isMainnetNetwork(n) == n = "mainnet"

Step(does, needs, bars, adds, drops, length) ==
    [does |-> does, needs |-> needs, bars |-> bars,
     adds |-> adds, drops |-> drops, length |-> length]

(* hre.deployments.get of every name: throws if one is not saved. *)
Get(names) == <<Step("get", names, {}, {}, {}, 0)>>

(* hre.deployments.save of an address read of the chain at that moment:    *)
(* without the facts it is the zero address that is saved.                 *)
Save(name, facts) == <<Step("save", facts, {}, {name}, {}, 0)>>

(* A read of the chain whose answer the script refuses unless needs hold. *)
Check(needs) == <<Step("check", needs, {}, {}, {}, 0)>>

(* Throwing, and returning false: the latter ends the script unrecorded. *)
Throw       == <<Step("throw", {}, {}, {}, {}, 0)>>
ReturnFalse == <<Step("return", {}, {}, {}, {}, 0)>>

(* A contract deployed under a name, unless that name is saved already;    *)
(* its constructor makes the facts true.  deployContract throws on a record *)
(* without a transaction, as Save makes them: no name is saved both ways.  *)
deployContract(name, facts) == <<Step("deploy", {name}, {}, facts, {}, 0)>>

(* A transaction the script sends without waiting for it: `await tx`. *)
SendTx(needs, bars, adds, drops) ==
    <<Step("send", needs, bars, adds, drops, 0)>>
Send(facts) == SendTx({}, {}, facts, {})

(* A transaction the script waits for: `await (await tx).wait()`. *)
AwaitTx(needs, bars, adds, drops) ==
    <<Step("await", needs, bars, adds, drops, 0)>>
Await(facts) == AwaitTx({}, {}, facts, {})

(* `if (!facts) { steps }`, tested once, against the chain or, for names,  *)
(* against the saved deployments.                                          *)
Unless(facts, steps) ==
    <<Step("unless", facts, {}, {}, {}, Len(steps))>> \o steps
UnlessSaved(names, steps) ==
    <<Step("unlessSaved", names, {}, {}, {}, Len(steps))>> \o steps

(* What is done with a saved address, and what is done with it when it is   *)
(* the zero address.                                                       *)
WithAddress(name, steps, stepsWithZero) ==
    <<Step("unlessZero", {name}, {}, {}, {}, Len(steps) + 1)>> \o steps
      \o Unless({}, stepsWithZero)

(* `for (const x of S) { Body(x) }`. *)
ForEach(S, Body(_)) == FoldSet(LAMBDA x, steps : steps \o Body(x), <<>>, S)

(* Every named account a script signs with is account 0, but for those of   *)
(* the bots and of CurveHelper on mainnet.                                 *)
Senders == {"deployer", "bots"}
Script(id, tags, dependencies, body) ==
    [id |-> id, tags |-> tags, dependencies |-> dependencies, body |-> body,
     sender |-> "deployer"]
ByBots(n, script) ==
    [script EXCEPT !.sender = IF isMainnetNetwork(n) THEN "bots" ELSE @]

(* A script that returns false except on the networks it is meant for. *)
Only(meant, body) == IF meant THEN body ELSE ReturnFalse
=============================================================================
