---------------------------- MODULE SlackReporter ----------------------------
(* scripts/liquidator-bot/slack-reporter/run.ts: a process that reads the      *)
(* health factors of all users over and over, alerts a channel to those that   *)
(* can be liquidated and whose health factor it has not reported yet, and      *)
(* sends statistics from time to time. A call that fails ends the process,     *)
(* whose container starts it again; a message that fails is only logged.       *)
EXTENDS Naturals, Sequences, FiniteSets, SequencesExt

CONSTANTS
  User,           \* the accounts of the lending market
  HealthFactor,   \* health factors, in hundredths of a percent
  MaxMoves,       \* bound: moves of the market
  MaxFailures,    \* bound: calls of a service or node that fail
  MaxLost         \* bound: messages the channel does not take

ASSUME ReporterAssumption ==
  /\ IsFiniteSet(User)
  /\ HealthFactor \subseteq Nat
  /\ {MaxMoves, MaxFailures, MaxLost} \subseteq Nat

VARIABLES
  known,              \* accounts the subgraph has indexed
  position,           \* [User -> health factor and whether the debt is more than dust]
  budget,             \* moves, failures and losses left
  pc,                 \* where the process stands
  toRead,             \* users of this check still to be read
  read,               \* [users read -> their positions then]: userDetails
  lastHealthFactors,  \* [users reported -> the health factor reported]
  message,            \* users and health factors of the alert being sent
  statsDue,           \* STATS_INTERVAL has passed since the statistics were sent
  delivered,          \* history: users and health factors the channel was told
  news                \* history: users there may be something new to tell about

marketVars == <<known, position>>
checkVars == <<toRead, read, message>>
reporterVars == <<marketVars, budget, pc, checkVars, lastHealthFactors, statsDue,
          delivered, news>>

Nobody == [u \in {} |-> 0]

liquidatable(p) == p.healthFactor < 10000
reportable(p) == liquidatable(p) /\ p.indebted

Spend(what) ==
  /\ budget[what] > 0
  /\ budget' = [budget EXCEPT ![what] = @ - 1]

---------------------------------------------------------------------------
Move ==
  /\ Spend("moves")
  /\ \E u \in User, p \in [healthFactor : HealthFactor, indebted : BOOLEAN] :
       /\ p # position[u]
       /\ position' = [position EXCEPT ![u] = p]
       /\ news' = news \cup {u}
  /\ UNCHANGED <<known, pc, checkVars, lastHealthFactors, statsDue, delivered>>

Index ==
  /\ \E u \in User \ known : known' = known \cup {u}
  /\ UNCHANGED <<position, budget, pc, checkVars, lastHealthFactors, statsDue,
                 delivered, news>>

StatsIntervalPasses ==
  /\ ~statsDue
  /\ statsDue' = TRUE
  /\ UNCHANGED <<marketVars, budget, pc, checkVars, lastHealthFactors, delivered, news>>

---------------------------------------------------------------------------
(* A check starts from nothing.                                            *)
Resumed == UNCHANGED read /\ message' = {}

Afresh == read' = Nobody /\ message' = {}

(* process.exit(1): nothing the process remembered is kept.                *)
Exit ==
  /\ Spend("failures")
  /\ pc' = "down"
  /\ toRead' = <<>> /\ Afresh
  /\ lastHealthFactors' = Nobody /\ statsDue' = TRUE
  /\ news' = User
  /\ UNCHANGED <<marketVars, delivered>>

Start ==
  /\ pc = "down"
  /\ pc' = "asleep"
  /\ UNCHANGED <<marketVars, budget, checkVars, lastHealthFactors, statsDue,
                 delivered, news>>

(* The addresses of all users, from the subgraph.                          *)
listUsers ==
  /\ pc = "asleep"
  /\ \/ /\ toRead' \in SetToSeqs(known)
        /\ Afresh
        /\ pc' = "reading"
        /\ UNCHANGED <<marketVars, budget, lastHealthFactors, statsDue, delivered, news>>
     \/ Exit

(* A read that fails is returned without an await and escapes the try      *)
(* around it, so no user is left out of a check: the process ends.         *)
readUser ==
  /\ pc = "reading" /\ toRead # <<>>
  /\ \/ /\ read' = [u \in DOMAIN read \cup {Head(toRead)} |->
                    IF u = Head(toRead) THEN position[u] ELSE read[u]]
        /\ toRead' = Tail(toRead)
        /\ UNCHANGED <<marketVars, budget, pc, message, lastHealthFactors, statsDue,
                       delivered, news>>
     \/ Exit

reported == {u \in DOMAIN read : reportable(read[u])}

seenFirst == {u \in reported : u \notin DOMAIN lastHealthFactors}

changed ==
  {u \in reported : u \in DOMAIN lastHealthFactors
                      => lastHealthFactors[u] # read[u].healthFactor}

(* What is to be alerted is remembered before it is sent; everything is    *)
(* forgotten when there is nothing to alert.                               *)
firstRemembered ==
  [u \in DOMAIN lastHealthFactors \cup reported |->
    IF u \in DOMAIN lastHealthFactors THEN lastHealthFactors[u] ELSE read[u].healthFactor]

remembered ==
  IF DOMAIN read = {} THEN lastHealthFactors
  ELSE IF reported = {} THEN Nobody
  ELSE [u \in DOMAIN lastHealthFactors \cup reported |->
         IF u \in reported THEN read[u].healthFactor ELSE lastHealthFactors[u]]

compareHealthFactors ==
  /\ pc = "reading" /\ toRead = <<>>
  /\ message' = {<<u, read[u].healthFactor>> : u \in changed}
  /\ lastHealthFactors' = remembered
  /\ news' = (IF reported = {} /\ DOMAIN read # {} THEN User ELSE news)
             \ {u \in changed : read[u] = position[u]}
  /\ pc' = IF DOMAIN read = {} THEN "asleep" ELSE "alerting"
  /\ UNCHANGED <<marketVars, budget, toRead, read, statsDue, delivered>>

(* An error of the channel is caught and logged.                           *)
sendAlert ==
  /\ pc = "alerting"
  /\ \/ delivered' = delivered \cup message /\ UNCHANGED budget
     \/ message # {} /\ Spend("lost") /\ UNCHANGED delivered
  /\ pc' = "stats"
  /\ UNCHANGED <<marketVars, checkVars, lastHealthFactors, statsDue, news>>

(* The details are read from the market again, where a failure ends the    *)
(* process; the interval starts anew even when the channel takes nothing.  *)
generateDetailedStats ==
  /\ pc = "stats"
  /\ \/ /\ statsDue' = FALSE
        /\ pc' = "asleep"
        /\ Afresh
        /\ UNCHANGED <<marketVars, budget, toRead, lastHealthFactors, delivered, news>>
     \/ statsDue /\ Exit

Process ==
  \/ Start \/ listUsers \/ readUser \/ compareHealthFactors
  \/ sendAlert \/ generateDetailedStats

ReporterInit ==
  /\ known \in SUBSET User
  /\ position \in [User -> [healthFactor : HealthFactor, indebted : BOOLEAN]]
  /\ budget = [moves |-> MaxMoves, failures |-> MaxFailures, lost |-> MaxLost]
  /\ pc = "asleep" /\ toRead = <<>> /\ read = Nobody /\ message = {}
  /\ lastHealthFactors = Nobody /\ statsDue = TRUE
  /\ delivered = {} /\ news = User

ReporterNext == Process \/ Move \/ Index \/ StatsIntervalPasses

(* The loop only ever waits for a timer, and its container restarts it.    *)
ReporterSpec == ReporterInit /\ [][ReporterNext]_reporterVars /\ WF_reporterVars(Process)

---------------------------------------------------------------------------
(* Every part of the reporter's state is what it should be.                *)
ReporterTypeOK ==
  /\ known \subseteq User
  /\ position \in [User -> [healthFactor : HealthFactor, indebted : BOOLEAN]]
  /\ pc \in {"asleep", "reading", "alerting", "stats", "down"}
  /\ ToSet(toRead) \cup DOMAIN read \subseteq known
  /\ ToSet(toRead) \cap DOMAIN read = {}
  /\ DOMAIN lastHealthFactors \subseteq known
  /\ {message, delivered} \subseteq SUBSET (User \X HealthFactor)
  /\ pc = "down" => lastHealthFactors = Nobody

(* Nobody is alerted to a user again as long as the user's position did not *)
(* move, unless in between all users were fine or the process was restarted. *)
QuietWhileUnchanged ==
  [][\A u \in User : <<u, position[u].healthFactor>> \in message' \ message /\ pc = "reading"
                       => u \in news]_reporterVars

(* A user who can be liquidated, and stays so at the same health factor, is *)
(* reported at that health factor, whatever failures ended the process on   *)
(* the way. The channel takes every message: one it does not take is lost.  *)
Alerted ==
  [](budget.lost = MaxLost) =>
  \A u \in User, h \in HealthFactor :
    <>[](u \in known /\ position[u].healthFactor = h /\ reportable(position[u]))
      => <>(<<u, h>> \in delivered)
=============================================================================
