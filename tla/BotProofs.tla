------------------------------- MODULE BotProofs -------------------------------
(* Theorems about BotScripts, for any users, pages, batches, durations, routes *)
(* and lists, and any number of moves, failures and deaths: what the state     *)
(* files say, that nobody is handled twice in a run, and that who was put away *)
(* is left alone, also after a death of the process.                           *)
EXTENDS BotScripts, FiniteSetTheorems, SequenceTheorems, TLAPS

Info == [userAddress : User, healthFactor : Nat, readFor : User]

-------------------------------------------------------------------------------
(* The parts of the invariant. *)

\* Nothing is remembered for longer than it was ignored for; who has loaded the
\* file never finds it torn, for the death that tears it forgets everything.
MemoryOK ==
  /\ DOMAIN memory = Bot /\ \A b \in Bot : memory[b] \in Entries(IgnoreDuration[b])
  /\ isInitialized \in [Bot -> BOOLEAN]
  /\ memoryFile \in [status : {"absent", "whole", "torn"}, ignoreDuration : Nat,
                     memory : Entries(memoryFile.ignoreDuration)]
  /\ memoryFile.status = "torn" => \A b \in Bot : ~isInitialized[b]

MarketOK ==
  /\ known \subseteq User
  /\ debt \in [User -> 0 .. MaxDebt] /\ healthFactor \in [User -> HealthFactor]
  /\ budget \in [moves : 0 .. MaxMoves, failures : 0 .. MaxFailures,
                 crashes : 0 .. MaxCrashes]
  /\ sentenced \in [User -> Nat]

ProcessOK ==
  /\ script \in Script /\ bot \in Bot /\ pc \in Place
  /\ trial \in Nat /\ trial < MaxOdosFailureCount + MaxCurveFailureCount

WorkOK ==
  /\ users \in Seq(User) /\ batch \in Seq(User) /\ infos \in Seq(Info)
  /\ healthFactors \in Seq(Nat) /\ Len(healthFactors) <= Len(batch)
  /\ amount \in Nat

Call ==
  {"underlying", "quote", "approveRouter", "assemble", "approveSwapper", "defaultRoute",
   "path", "flashMint", "flashLoan"}

Handling == {"balances", "amount", "performing", "puttingAway", "reporting"}

\* What work there is where. A plan ends with the liquidation itself.
PlaceOK ==
  /\ pc \in Handling => infos # <<>>
  /\ infos # <<>> => pc \in Handling \cup {"users"}
  /\ batch # <<>> => pc \in {"healthFactors", "exited"}
  /\ pc \in {"idle", "starting", "printing", "down"} => users = <<>>
  /\ pc = "performing" =>
       /\ plan \in Seq(Call) /\ plan # <<>>
       /\ plan[Len(plan)] \in {"flashMint", "flashLoan"}
       /\ amount > 0

\* A user still to be handled is on one of the lists, and there once.
OnceOK ==
  /\ IsInjective(users) /\ IsInjective(batch)
  /\ \A i, j \in DOMAIN infos : infos[i].userAddress = infos[j].userAddress => i = j
  /\ \A i \in DOMAIN users, j \in DOMAIN batch : users[i] # batch[j]
  /\ \A i \in DOMAIN users, j \in DOMAIN infos : users[i] # infos[j].userAddress
  /\ pc = "paging" => \A i, j \in DOMAIN users : i < j => users[i] < users[j]

-------------------------------------------------------------------------------
(* A script that runs one bot in a loop. *)

Alone == script \notin OneShot \cup {"combo/run"}

\* The entries keep a user at least as long as the user is sentenced to.
Keeps(entries) ==
  \A u \in User : sentenced[u] > 0 => u \in DOMAIN entries /\ entries[u] >= sentenced[u]

Selected ==
  {"batching", "healthFactors", "users"} \cup Handling

\* Who is sentenced is in the bot's memory, or will be once it has loaded the
\* file, unless the file is torn and the bot will never get that far.
Recalled ==
  Alone =>
    /\ bot = firstBot
    /\ isInitialized[bot] => Keeps(memory[bot])
    /\ memoryFile.status = "whole" => Keeps(memoryFile.memory)
    /\ memoryFile.status = "absent" => \A u \in User : sentenced[u] = 0

\* Nobody on the bot's lists is sentenced, but for the user just put away.
Spared ==
  Alone /\ pc \in Selected =>
    /\ \A i \in DOMAIN users : sentenced[users[i]] = 0
    /\ \A i \in DOMAIN batch : sentenced[batch[i]] = 0
    /\ \A i \in DOMAIN infos :
         i > 1 \/ pc # "reporting" => sentenced[infos[i].userAddress] = 0

IInv ==
  /\ MemoryOK /\ MarketOK /\ ProcessOK /\ WorkOK /\ PlaceOK /\ OnceOK
  /\ Recalled /\ Spared /\ ReportedTruly

-------------------------------------------------------------------------------
(* Parameters and sequences. *)

LEMMA Parameters ==
  /\ User \subseteq Nat \ {0} /\ IsFiniteSet(User)
  /\ IgnoreDuration \in [Bot -> Nat \ {0}]
  /\ PageSize \in Nat \ {0} /\ BatchSize \in Nat \ {0}
  /\ MaxDebt \in Nat /\ MaxMoves \in Nat /\ MaxFailures \in Nat /\ MaxCrashes \in Nat
  /\ MaxOdosFailureCount \in Nat \ {0} /\ MaxCurveFailureCount \in Nat \ {0}
  /\ SpecificUsers \in Seq(User) /\ IsInjective(SpecificUsers)
  /\ {"odos", "curve", "uniswapV3"} \subseteq Bot
BY IgnoreAssumption, BotAssumption, ScriptAssumption

LEMMA MinOfTwo ==
  ASSUME NEW m \in Nat, NEW n \in Nat
  PROVE  Min({m, n}) = IF m <= n THEN m ELSE n
BY DEF Min

\* What is cut off a list and what is left are the list's elements, in order.
LEMMA Chunks ==
  ASSUME NEW S, NEW s \in Seq(S), NEW n \in Nat \ {0}
  PROVE  /\ chunk(s, n) \in Seq(S) /\ afterChunk(s, n) \in Seq(S)
         /\ \A i \in DOMAIN chunk(s, n) : i \in DOMAIN s /\ i <= n /\ chunk(s, n)[i] = s[i]
         /\ \A i \in DOMAIN afterChunk(s, n) :
              i + n \in DOMAIN s /\ i > 0 /\ afterChunk(s, n)[i] = s[i + n]
         /\ s = <<>> => chunk(s, n) = <<>> /\ afterChunk(s, n) = <<>>
<1>1. Len(s) \in Nat /\ DOMAIN s = 1 .. Len(s)
  OBVIOUS
<1> DEFINE m == Min({n, Len(s)})
<1>2. m \in 0 .. Len(s) /\ m <= n
  BY <1>1, MinOfTwo
<1>3. chunk(s, n) = SubSeq(s, 1, m)
  BY DEF chunk
<1> HIDE DEF m
<1>4. /\ chunk(s, n) \in Seq(S)
      /\ \A i \in DOMAIN chunk(s, n) : i \in DOMAIN s /\ i <= n /\ chunk(s, n)[i] = s[i]
  BY <1>1, <1>2, <1>3
<1>5. /\ afterChunk(s, n) \in Seq(S)
      /\ \A i \in DOMAIN afterChunk(s, n) :
           i + n \in DOMAIN s /\ i > 0 /\ afterChunk(s, n)[i] = s[i + n]
  BY <1>1 DEF afterChunk
<1>6. ASSUME s = <<>> PROVE chunk(s, n) = <<>> /\ afterChunk(s, n) = <<>>
  <2>1. Len(s) = 0 /\ DOMAIN s = {}
    BY <1>6
  <2>2. DOMAIN chunk(s, n) = {} /\ DOMAIN afterChunk(s, n) = {}
    BY <2>1, <1>4, <1>5
  <2>3. QED BY <2>2, <1>4, <1>5, EmptySeq
<1>7. QED BY <1>4, <1>5, <1>6

\* The elements of a finite set of numbers in order: all are its own, none twice.
LEMMA Ordered ==
  ASSUME NEW S \in SUBSET Nat, IsFiniteSet(S), NEW s \in InOrder(S)
  PROVE  /\ s \in Seq(S) /\ Len(s) = Cardinality(S)
         /\ IsInjective(s)
         /\ \A i, j \in DOMAIN s : i < j => s[i] < s[j]
<1>1. Cardinality(S) \in Nat
  BY FS_CardinalityType
<1>2. /\ s \in [1 .. Cardinality(S) -> S]
      /\ \A i, j \in 1 .. Cardinality(S) : i # j => s[i] # s[j]
      /\ \A i, j \in DOMAIN s : i < j => s[i] < s[j]
  BY DEF InOrder, SetToSeqs
<1>3. QED BY <1>1, <1>2 DEF IsInjective

LEMMA Joined ==
  ASSUME NEW S, NEW s \in Seq(S), NEW t \in Seq(S)
  PROVE  /\ s \o t \in Seq(S)
         /\ \A i \in DOMAIN (s \o t) :
              \/ i \in DOMAIN s /\ (s \o t)[i] = s[i]
              \/ /\ i > Len(s) /\ i - Len(s) \in DOMAIN t
                 /\ (s \o t)[i] = t[i - Len(s)]
OBVIOUS

LEMMA JoinedInjective ==
  ASSUME NEW S, NEW s \in Seq(S), NEW t \in Seq(S), IsInjective(s), IsInjective(t),
         \A i \in DOMAIN s, j \in DOMAIN t : s[i] # t[j]
  PROVE  IsInjective(s \o t)
<1>1. Len(s) \in Nat /\ DOMAIN s = 1 .. Len(s) /\ DOMAIN t = 1 .. Len(t)
  OBVIOUS
<1>2. SUFFICES ASSUME NEW i \in DOMAIN (s \o t), NEW j \in DOMAIN (s \o t),
                      (s \o t)[i] = (s \o t)[j]
               PROVE  i = j
  BY DEF IsInjective
<1>3. DOMAIN (s \o t) \subseteq Nat
  OBVIOUS
<1>4. CASE i \in DOMAIN s /\ (s \o t)[i] = s[i] /\ j \in DOMAIN s /\ (s \o t)[j] = s[j]
  BY <1>2, <1>4 DEF IsInjective
<1>5. CASE /\ i - Len(s) \in DOMAIN t /\ (s \o t)[i] = t[i - Len(s)]
           /\ j - Len(s) \in DOMAIN t /\ (s \o t)[j] = t[j - Len(s)]
  <2>1. i - Len(s) = j - Len(s)
    BY <1>2, <1>5 DEF IsInjective
  <2>2. QED BY <2>1, <1>1, <1>3
<1>6. QED BY <1>2, <1>4, <1>5, Joined

LEMMA HeadAndTail ==
  ASSUME NEW S, NEW s \in Seq(S), s # <<>>
  PROVE  /\ 1 \in DOMAIN s /\ Head(s) = s[1] /\ s[1] \in S
         /\ Tail(s) \in Seq(S) /\ Len(Tail(s)) = Len(s) - 1
         /\ \A i \in DOMAIN Tail(s) : i + 1 \in DOMAIN s /\ i \in Nat /\ i > 0 /\ Tail(s)[i] = s[i + 1]
OBVIOUS


-------------------------------------------------------------------------------
(* The memories. *)

LEMMA EntriesAre ==
  ASSUME NEW d \in Nat, NEW e
  PROVE  e \in Entries(d) <=> DOMAIN e \subseteq User /\ e \in [DOMAIN e -> 0 .. d]
BY DEF Entries

LEMMA InitializedEntries ==
  ASSUME MemoryOK, NEW b \in Bot, CanInitialize(b)
  PROVE  initialized(b) \in Entries(IgnoreDuration[b])
BY DEF MemoryOK, CanInitialize, initialized

LEMMA NothingKept ==
  ASSUME NEW d \in Nat
  PROVE  NoEntries \in Entries(d)
BY EntriesAre DEF NoEntries

\* A bot that can load its memory may keep any entries that are not too long.
LEMMA KeepHolds ==
  ASSUME MemoryOK, NEW b \in Bot, CanInitialize(b),
         NEW entries \in Entries(IgnoreDuration[b]), Keep(b, entries),
         memoryFile' = memoryFile \/ memoryFile' = FileOf(b, entries)
  PROVE  MemoryOK'
<1>1. /\ DOMAIN memory' = Bot
      /\ \A c \in Bot : memory'[c] \in Entries(IgnoreDuration[c])
      /\ isInitialized' \in [Bot -> BOOLEAN]
  BY DEF MemoryOK, Keep
<1>2. IgnoreDuration[b] \in Nat
  BY Parameters
<1>3. CASE memoryFile' = FileOf(b, entries)
  BY <1>1, <1>2, <1>3 DEF MemoryOK, FileOf
<1>4. CASE memoryFile' = memoryFile
  <2>1. memoryFile.status # "torn"
    BY DEF MemoryOK, CanInitialize
  <2>2. QED BY <1>1, <1>4, <2>1 DEF MemoryOK
<1>5. QED BY <1>3, <1>4

LEMMA PutKeeps ==
  ASSUME MemoryOK, NEW b \in Bot, NEW u \in User, put(b, u)
  PROVE  MemoryOK' /\ u \in DOMAIN memoryFile'.memory
<1>1. CanInitialize(b) /\ initialized(b) \in Entries(IgnoreDuration[b])
  BY InitializedEntries DEF put
<1>2. IgnoreDuration[b] \in Nat
  BY Parameters
<1>3. withUser(b, u) \in Entries(IgnoreDuration[b]) /\ u \in DOMAIN withUser(b, u)
  BY <1>1, <1>2, EntriesAre DEF withUser
<1>4. QED BY <1>1, <1>3, KeepHolds DEF put, dumpToFileIfNeeded, FileOf

\* What looking users up leaves of the entries.
LEMMA LookUpLeaves ==
  ASSUME MemoryOK, NEW b \in Bot, NEW asked \in SUBSET User, lookUp(b, asked)
  PROVE  \E left \in Entries(IgnoreDuration[b]) :
           /\ Keep(b, left)
           /\ memoryFile' = memoryFile \/ memoryFile' = FileOf(b, left)
           /\ \A u \in DOMAIN initialized(b) : initialized(b)[u] > 0 =>
                u \in DOMAIN left /\ left[u] = initialized(b)[u]
<1>1. initialized(b) \in Entries(IgnoreDuration[b])
  BY InitializedEntries DEF lookUp
<1>2. IgnoreDuration[b] \in Nat
  BY Parameters
<1> DEFINE expired == {u \in asked \cap DOMAIN initialized(b) : ~isIgnored(b, u)}
           left == [u \in DOMAIN initialized(b) \ expired |-> initialized(b)[u]]
<1>3. left \in Entries(IgnoreDuration[b])
  BY <1>1, <1>2, EntriesAre
<1>4. /\ Keep(b, left)
      /\ memoryFile' = memoryFile \/ memoryFile' = FileOf(b, left)
  BY DEF lookUp, dumpToFileIfNeeded
<1>5. \A u \in DOMAIN initialized(b) : initialized(b)[u] > 0 =>
        u \in DOMAIN left /\ left[u] = initialized(b)[u]
  BY DEF isIgnored
<1>6. QED BY <1>3, <1>4, <1>5

LEMMA LookUpKeeps ==
  ASSUME MemoryOK, NEW b \in Bot, NEW asked \in SUBSET User, lookUp(b, asked)
  PROVE  MemoryOK'
<1>1. CanInitialize(b)
  BY DEF lookUp
<1>2. QED BY <1>1, LookUpLeaves, KeepHolds

LEMMA ForgetKeeps ==
  ASSUME MemoryOK, Forget, memoryFile' = memoryFile \/ memoryFile' = TornFile
  PROVE  MemoryOK'
<1>1. \A b \in Bot : NoEntries \in Entries(IgnoreDuration[b])
  BY NothingKept, Parameters
<1>2. NoEntries \in Entries(0)
  BY NothingKept
<1>3. TornFile = [status |-> "torn", ignoreDuration |-> 0, memory |-> NoEntries]
  BY DEF TornFile, AbsentFile
<1>4. QED BY <1>1, <1>2, <1>3 DEF MemoryOK, Forget

LEMMA OneLessEntries ==
  ASSUME NEW d \in Nat, NEW e \in Entries(d)
  PROVE  OneLess(e) \in Entries(d) /\ DOMAIN OneLess(e) = DOMAIN e
BY EntriesAre DEF OneLess

LEMMA ElapseKeeps ==
  ASSUME MemoryOK, Elapse
  PROVE  MemoryOK' /\ DOMAIN memoryFile'.memory = DOMAIN memoryFile.memory
<1>1. \A b \in Bot : IgnoreDuration[b] \in Nat
  BY Parameters
<1>2. \A b \in Bot : memory'[b] \in Entries(IgnoreDuration[b])
  BY <1>1, OneLessEntries DEF Elapse, MemoryOK
<1>3. /\ memoryFile'.memory = OneLess(memoryFile.memory)
      /\ memoryFile' = [status |-> memoryFile.status,
                        ignoreDuration |-> memoryFile.ignoreDuration,
                        memory |-> memoryFile'.memory]
  BY DEF Elapse, MemoryOK
<1>4. memoryFile.ignoreDuration \in Nat /\ memoryFile.memory \in Entries(memoryFile.ignoreDuration)
  BY DEF MemoryOK
<1>5. /\ memoryFile'.memory \in Entries(memoryFile.ignoreDuration)
      /\ DOMAIN memoryFile'.memory = DOMAIN memoryFile.memory
  BY <1>3, <1>4, OneLessEntries
<1>6. QED BY <1>2, <1>3, <1>5 DEF Elapse, MemoryOK

-------------------------------------------------------------------------------
(* What is repaid. *)

LEMMA Quotient ==
  ASSUME NEW a \in Nat, NEW k \in Nat \ {0}
  PROVE  a \div k \in Nat
OBVIOUS

LEMMA Half ==
  ASSUME NEW a \in Nat
  PROVE  a \div 2 \in 0 .. a
OBVIOUS

LEMMA CloseFactorAmount ==
  ASSUME NEW owed \in Nat, NEW health \in Nat
  PROVE  closeFactorAmount(owed, health, CloseFactorHFThreshold) \in 0 .. owed
BY Half DEF closeFactorAmount

LEMMA AmountToLiquidateType ==
  ASSUME NEW owed \in Nat, NEW health \in HealthFactor
  PROVE  amountToLiquidate(owed, health) \in Nat
<1>1. health \in Nat
  BY DEF HealthFactor
<1> DEFINE wanted == closeFactorAmount(owed, health, CloseFactorHFThreshold)
           scaled == (percentDiv(valueInUSD(30, 1, 1), 11000) * 1) \div 20
<1>2. wanted \in Nat
  BY <1>1, CloseFactorAmount
<1>3. scaled \in Nat
  <2>1. percentDiv(valueInUSD(30, 1, 1), 11000) \in Nat
    BY DEF percentDiv, valueInUSD, BASE_PERCENT
  <2>2. QED BY <2>1
<1> HIDE DEF wanted, scaled
<1>4. amountToLiquidate(owed, health) \in {0, scaled, wanted}
  BY DEF amountToLiquidate, getMaxLiquidationAmountCalculation, wanted, scaled,
         Collateral, DebtToken, LiquidationBonus
<1>5. QED BY <1>2, <1>3, <1>4

-------------------------------------------------------------------------------
(* Steps of a bot. *)

USE DEF IInv, At, Goto, Aside, FailTo

\* What a step costs of what the environment may still do.
Spent == budget' = budget \/ \E what \in {"moves", "failures", "crashes"} : Spend(what)

\* The step touches only the bot's lists and where it stands, but for what a
\* liquidation does to the market.
OnlyWorks ==
  /\ UNCHANGED <<memory, isInitialized, memoryFile, sentenced, script, bot, trial>>
  /\ \/ UNCHANGED <<known, debt, healthFactor>>
     \/ pc = "performing" /\ Liquidated(user, amount)
  /\ Spent
  /\ pc' \in Place

LEMMA SpentOK ==
  ASSUME MarketOK, Spent
  PROVE  budget' \in [moves : 0 .. MaxMoves, failures : 0 .. MaxFailures,
                      crashes : 0 .. MaxCrashes]
<1> DEFINE Budgets == [moves : 0 .. MaxMoves, failures : 0 .. MaxFailures,
                      crashes : 0 .. MaxCrashes]
<1>1. budget \in Budgets
  BY DEF MarketOK
<1>2. CASE budget' = budget
  BY <1>1, <1>2
<1>3. ASSUME NEW what \in {"moves", "failures", "crashes"}, Spend(what)
      PROVE  budget' \in Budgets
  <2>1. budget[what] > 0 /\ budget' = [budget EXCEPT ![what] = budget[what] - 1]
    BY <1>3 DEF Spend
  <2>2. \A n, max \in Nat : n \in 0 .. max /\ n > 0 => n - 1 \in 0 .. max
    OBVIOUS
  <2>3. QED BY <1>1, <1>3, <2>1, <2>2, Parameters
<1>4. QED BY <1>2, <1>3 DEF Spent

\* The user being handled is the first of infos.
LEMMA HandledUser ==
  ASSUME WorkOK, PlaceOK, pc \in Handling
  PROVE  /\ user \in User /\ 1 \in DOMAIN infos /\ user = infos[1].userAddress
         /\ Len(infos) > 0
<1>1. infos \in Seq(Info) /\ infos # <<>>
  BY DEF WorkOK, PlaceOK
<1>2. 1 \in DOMAIN infos /\ Head(infos) = infos[1] /\ infos[1] \in Info /\ Len(infos) > 0
  BY <1>1
<1>3. QED BY <1>2 DEF user, Info

LEMMA LiquidatedOK ==
  ASSUME MarketOK, NEW u \in User, NEW repay \in Nat, Liquidated(u, repay)
  PROVE  /\ known' = known
         /\ debt' \in [User -> 0 .. MaxDebt] /\ healthFactor' \in [User -> HealthFactor]
<1>1. debt[u] \in 0 .. MaxDebt /\ debt[u] \in Nat /\ healthFactor[u] \in Nat
  <2>1. debt[u] \in 0 .. MaxDebt /\ healthFactor[u] \in HealthFactor
    BY DEF MarketOK
  <2>2. QED BY <2>1, Parameters DEF HealthFactor
<1> DEFINE allowed == closeFactorAmount(debt[u], healthFactor[u], CloseFactorHFThreshold)
           left == debt[u] - (IF repay < allowed THEN repay ELSE allowed)
<1>2. allowed \in 0 .. debt[u]
  BY <1>1, CloseFactorAmount
<1>3. left \in 0 .. MaxDebt
  <2> HIDE DEF allowed
  <2>1. QED BY <1>1, <1>2, Parameters
<1>4. debt' = [debt EXCEPT ![u] = left] /\ known' = known
  <2>1. debt' = [debt EXCEPT ![u] = left]
    BY DEF Liquidated
  <2>2. QED BY <2>1 DEF Liquidated
<1>5. healthFactor' \in [User -> HealthFactor]
  BY DEF Liquidated, MarketOK
<1> HIDE DEF left
<1>6. debt' \in [User -> 0 .. MaxDebt]
  BY <1>3, <1>4 DEF MarketOK
<1>7. QED BY <1>4, <1>5, <1>6

LEMMA OnlyWorksKeeps ==
  ASSUME IInv, OnlyWorks
  PROVE  MemoryOK' /\ MarketOK' /\ ProcessOK' /\ Recalled'
<1>1. MemoryOK'
  BY DEF OnlyWorks, MemoryOK
<1>2. MarketOK'
  <2>1. CASE UNCHANGED <<known, debt, healthFactor>>
    BY <2>1, SpentOK DEF OnlyWorks, MarketOK
  <2>2. CASE pc = "performing" /\ Liquidated(user, amount)
    <3>1. user \in User /\ amount \in Nat
      BY <2>2, HandledUser DEF Handling, WorkOK
    <3>2. QED BY <2>2, <3>1, LiquidatedOK, SpentOK DEF OnlyWorks, MarketOK
  <2>3. QED BY <2>1, <2>2 DEF OnlyWorks
<1>3. ProcessOK'
  BY DEF OnlyWorks, ProcessOK
<1>4. Recalled'
  BY DEF OnlyWorks, Recalled, Alone, Keeps, firstBot
<1>5. QED BY <1>1, <1>2, <1>3, <1>4

\* The lists stay as they are, and the bot's place among those that need none of
\* what the invariant says of them.
LEMMA ListsStay ==
  ASSUME IInv, UNCHANGED <<users, batch, infos>>
  PROVE  /\ pc' # "paging" \/ pc = "paging" \/ users = <<>> => OnceOK'
         /\ UNCHANGED <<script, sentenced>> /\ (pc \in Selected \/ pc' \notin Selected)
              /\ (pc = "reporting" => pc' \notin Selected \ {"reporting"})
              => Spared'
<1>1. ASSUME pc' # "paging" \/ pc = "paging" \/ users = <<>> PROVE OnceOK'
  BY <1>1 DEF OnceOK
<1>2. ASSUME UNCHANGED <<script, sentenced>>, pc \in Selected \/ pc' \notin Selected,
             pc = "reporting" => pc' \notin Selected \ {"reporting"}
      PROVE  Spared'
  BY <1>2 DEF Spared, Alone, Selected, Handling
<1>3. QED BY <1>1, <1>2

LEMMA SetUpKeeps ==
  ASSUME IInv, NEW b \in Bot, NEW found, setUp(b, found)
  PROVE  IInv'
<1>1. /\ OnlyWorks
      /\ UNCHANGED <<users, batch, healthFactors, infos, amount, plan, outcome, mined>>
      /\ pc = "starting" /\ pc' \in {"paging", "threw"}
  BY DEF setUp, OnlyWorks, Spent, Place, memoryVars, marketVars, workVars
<1>2. WorkOK'
  BY <1>1 DEF WorkOK
<1>3. users = <<>> /\ PlaceOK'
  BY <1>1 DEF PlaceOK, Handling
<1>4. OnceOK' /\ Spared'
  BY <1>1, <1>3, ListsStay DEF OnlyWorks, Selected, Handling
<1>5. ReportedTruly'
  BY <1>1 DEF ReportedTruly
<1>6. QED BY <1>1, <1>2, <1>3, <1>4, <1>5, OnlyWorksKeeps

LEMMA NextUserKeeps ==
  ASSUME IInv, NEW b \in Bot, nextUser(b)
  PROVE  IInv'
<1>1. /\ OnlyWorks
      /\ UNCHANGED <<users, batch, healthFactors, infos, amount, plan, outcome, mined>>
      /\ pc = "users" /\ pc' = IF infos = <<>> THEN "batching" ELSE "balances"
  BY DEF nextUser, OnlyWorks, Spent, Place, memoryVars, marketVars, workVars
<1>2. WorkOK'
  BY <1>1 DEF WorkOK
<1>3. PlaceOK'
  BY <1>1 DEF PlaceOK, Handling
<1>4. OnceOK' /\ Spared'
  BY <1>1, ListsStay DEF OnlyWorks, Selected, Handling
<1>5. ReportedTruly'
  BY <1>1 DEF ReportedTruly
<1>6. QED BY <1>1, <1>2, <1>3, <1>4, <1>5, OnlyWorksKeeps

LEMMA ReadBalancesKeeps ==
  ASSUME IInv, NEW b \in Bot, readBalances(b)
  PROVE  IInv'
<1>1. /\ OnlyWorks
      /\ UNCHANGED <<users, batch, healthFactors, infos, plan, outcome, mined>>
      /\ amount' = amount \/ amount' = debt[user]
      /\ pc = "balances" /\ pc' \in {"amount", "puttingAway"}
  BY DEF readBalances, OnlyWorks, Spent, Place, memoryVars, marketVars
<1>2. user \in User
  BY <1>1, HandledUser DEF Handling
<1>3. WorkOK'
  <2>1. debt[user] \in 0 .. MaxDebt
    BY <1>2 DEF MarketOK
  <2>2. amount' \in Nat
    BY <1>1, <2>1, Parameters DEF WorkOK
  <2>3. QED BY <1>1, <2>2 DEF WorkOK
<1>4. PlaceOK'
  BY <1>1 DEF PlaceOK, Handling
<1>5. OnceOK' /\ Spared'
  BY <1>1, ListsStay DEF OnlyWorks, Selected, Handling
<1>6. ReportedTruly'
  BY <1>1 DEF ReportedTruly
<1>7. QED BY <1>1, <1>3, <1>4, <1>5, <1>6, OnlyWorksKeeps

LEMMA ChooseAmountKeeps ==
  ASSUME IInv, NEW b \in Bot, NEW calls, chooseAmount(b, calls),
         calls \in Seq(Call), calls # <<>>,
         calls[Len(calls)] \in {"flashMint", "flashLoan"}
  PROVE  IInv'
<1> DEFINE toLiquidate == amountToLiquidate(amount, healthFactor[user])
<1>1. pc = "amount" /\ user \in User
  BY HandledUser DEF chooseAmount, Handling
<1>2. toLiquidate \in Nat
  BY <1>1, AmountToLiquidateType DEF WorkOK, MarketOK
<1> HIDE DEF toLiquidate
<1>3. /\ OnlyWorks
      /\ UNCHANGED <<users, batch, healthFactors, infos, outcome, mined>>
      /\ \/ pc' = "performing" /\ amount' = toLiquidate /\ amount' > 0 /\ plan' = calls
         \/ pc' = "puttingAway" /\ amount' = 0
  BY DEF chooseAmount, toLiquidate, profitable, OnlyWorks, Spent, Place, memoryVars, marketVars
<1>4. WorkOK'
  BY <1>2, <1>3 DEF WorkOK
<1>5. PlaceOK'
  BY <1>1, <1>3 DEF PlaceOK, Handling
<1>6. OnceOK' /\ Spared'
  BY <1>1, <1>3, ListsStay DEF OnlyWorks, Selected, Handling
<1>7. ReportedTruly'
  BY <1>3 DEF ReportedTruly
<1>8. QED BY <1>3, <1>4, <1>5, <1>6, <1>7, OnlyWorksKeeps

LEMMA TailOfSeveral ==
  ASSUME NEW S, NEW s \in Seq(S), Len(s) > 1
  PROVE  /\ Tail(s) \in Seq(S) /\ Tail(s) # <<>>
         /\ Tail(s)[Len(Tail(s))] = s[Len(s)]
<1> DEFINE rest == Tail(s)
<1>1. /\ rest \in Seq(S) /\ Len(rest) = Len(s) - 1 /\ Len(s) \in Nat
      /\ \A i \in DOMAIN rest : rest[i] = s[i + 1]
  BY HeadAndTail
<1> HIDE DEF rest
<1>2. Len(rest) \in DOMAIN rest /\ rest # <<>>
  BY <1>1
<1>3. rest[Len(rest)] = s[Len(s)]
  BY <1>1, <1>2
<1>4. QED BY <1>1, <1>2, <1>3 DEF rest

\* A call that is not the last of the plan: the liquidation itself is still to come.
LEMMA CallKeeps ==
  ASSUME IInv, NEW b \in Bot,
         NEW name \in Call \ {"flashMint", "flashLoan"}, call(b, name)
  PROVE  IInv'
<1>1. pc = "performing" /\ Head(plan) = name
  BY DEF call
<1>2. /\ OnlyWorks
      /\ UNCHANGED <<users, batch, healthFactors, infos, outcome, mined>>
      /\ \/ pc' = "performing" /\ amount' = amount /\ plan' = Tail(plan)
         \/ pc' = "puttingAway" /\ amount' = 0
  BY DEF call, OnlyWorks, Spent, Place, memoryVars, marketVars
<1>3. /\ Tail(plan) \in Seq(Call) /\ Tail(plan) # <<>>
      /\ Tail(plan)[Len(Tail(plan))] = plan[Len(plan)]
  <2>1. /\ plan \in Seq(Call) /\ plan # <<>> /\ plan[1] = name
        /\ plan[Len(plan)] \in {"flashMint", "flashLoan"}
    BY <1>1 DEF PlaceOK
  <2>2. Len(plan) \in Nat /\ Len(plan) > 1
    BY <2>1
  <2>3. QED BY <2>1, <2>2, TailOfSeveral
<1>4. WorkOK'
  BY <1>2 DEF WorkOK
<1>5. PlaceOK'
  BY <1>1, <1>2, <1>3 DEF PlaceOK, Handling
<1>6. OnceOK' /\ Spared'
  BY <1>1, <1>2, ListsStay DEF OnlyWorks, Selected, Handling
<1>7. ReportedTruly'
  BY <1>2 DEF ReportedTruly
<1>8. QED BY <1>2, <1>4, <1>5, <1>6, <1>7, OnlyWorksKeeps

LEMMA FindRouteKeeps ==
  ASSUME IInv, NEW b \in Bot,
         NEW name \in Call \ {"flashMint", "flashLoan"}, findRoute(b, name)
  PROVE  IInv'
<1>1. CASE call(b, name)
  BY <1>1, CallKeeps
<1>2. CASE ~call(b, name)
  <2>1. /\ OnlyWorks
        /\ UNCHANGED <<users, batch, healthFactors, infos, outcome, mined>>
        /\ pc = "performing" /\ pc' = "puttingAway" /\ amount' = 0
    BY <1>2 DEF findRoute, OnlyWorks, Spent, Place, memoryVars, marketVars
  <2>2. WorkOK'
    BY <2>1 DEF WorkOK
  <2>3. PlaceOK'
    BY <2>1 DEF PlaceOK, Handling
  <2>4. OnceOK' /\ Spared'
    BY <2>1, ListsStay DEF OnlyWorks, Selected, Handling
  <2>5. ReportedTruly'
    BY <2>1 DEF ReportedTruly
  <2>6. QED BY <2>1, <2>2, <2>3, <2>4, <2>5, OnlyWorksKeeps
<1>3. QED BY <1>1, <1>2

LEMMA SendLiquidationKeeps ==
  ASSUME IInv, NEW b \in Bot, NEW name, sendLiquidation(b, name)
  PROVE  IInv'
<1>1. pc = "performing"
  BY DEF sendLiquidation
<1>2. /\ OnlyWorks
      /\ UNCHANGED <<users, batch, healthFactors, infos>> /\ amount' = 0
      /\ \/ pc' = "reporting" /\ outcome' = TRUE /\ mined' = TRUE
         \/ pc' = "puttingAway"
  BY DEF sendLiquidation, OnlyWorks, Spent, Place, memoryVars, marketVars
<1>3. WorkOK'
  BY <1>2 DEF WorkOK
<1>4. PlaceOK'
  BY <1>1, <1>2 DEF PlaceOK, Handling
<1>5. OnceOK' /\ Spared'
  BY <1>1, <1>2, ListsStay DEF OnlyWorks, Selected, Handling
<1>6. ReportedTruly'
  BY <1>2 DEF ReportedTruly
<1>7. QED BY <1>2, <1>3, <1>4, <1>5, <1>6, OnlyWorksKeeps

LEMMA SaveUserStateKeeps ==
  ASSUME IInv, NEW b \in Bot, saveUserState(b)
  PROVE  IInv'
<1>1. /\ OnlyWorks
      /\ UNCHANGED <<users, batch, healthFactors>> /\ infos' = Tail(infos) /\ amount' = 0
      /\ pc = "reporting" /\ pc' = "users"
  BY DEF saveUserState, OnlyWorks, Spent, Place, memoryVars, marketVars
<1>2. infos \in Seq(Info) /\ infos # <<>>
  BY <1>1 DEF PlaceOK, Handling, WorkOK
<1>3. /\ Tail(infos) \in Seq(Info)
      /\ \A i \in DOMAIN Tail(infos) :
           i + 1 \in DOMAIN infos /\ i \in Nat /\ i > 0 /\ Tail(infos)[i] = infos[i + 1]
  BY <1>2, HeadAndTail
<1>4. WorkOK'
  BY <1>1, <1>3 DEF WorkOK
<1>5. PlaceOK'
  BY <1>1 DEF PlaceOK, Handling
<1>6. OnceOK'
  <2>1. \A i, j \in DOMAIN infos' : infos'[i].userAddress = infos'[j].userAddress => i = j
    <3> SUFFICES ASSUME NEW i \in DOMAIN infos', NEW j \in DOMAIN infos',
                        infos'[i].userAddress = infos'[j].userAddress
                 PROVE  i = j
      OBVIOUS
    <3>1. i + 1 = j + 1
      BY <1>1, <1>3 DEF OnceOK
    <3>2. QED BY <3>1, <1>1, <1>3
  <2>2. QED BY <2>1, <1>1, <1>3 DEF OnceOK
<1>7. Spared'
  BY <1>1, <1>3 DEF Spared, Alone, Selected, Handling, OnlyWorks
<1>8. ReportedTruly'
  BY <1>1 DEF ReportedTruly
<1>9. QED BY <1>1, <1>4, <1>5, <1>6, <1>7, <1>8, OnlyWorksKeeps

LEMMA NextBatchKeeps ==
  ASSUME IInv, NEW b \in Bot, nextBatch(b)
  PROVE  IInv'
<1>1. /\ OnlyWorks
      /\ batch' = chunk(users, BatchSize) /\ users' = afterChunk(users, BatchSize)
      /\ healthFactors' = <<>> /\ infos' = infos /\ amount' = amount
      /\ pc = "batching" /\ pc' = IF users = <<>> THEN "returned" ELSE "healthFactors"
  BY DEF nextBatch, OnlyWorks, Spent, Place, memoryVars, marketVars
<1>2. users \in Seq(User) /\ BatchSize \in Nat \ {0} /\ infos = <<>>
  BY <1>1, Parameters DEF WorkOK, PlaceOK, Handling
<1>3. /\ batch' \in Seq(User) /\ users' \in Seq(User)
      /\ \A i \in DOMAIN batch' : i \in DOMAIN users /\ i <= BatchSize /\ batch'[i] = users[i]
      /\ \A i \in DOMAIN users' :
           i + BatchSize \in DOMAIN users /\ i > 0 /\ users'[i] = users[i + BatchSize]
      /\ users = <<>> => batch' = <<>> /\ users' = <<>>
  BY <1>1, <1>2, Chunks
<1>4. DOMAIN users \subseteq Nat /\ DOMAIN users' \subseteq Nat
  BY <1>2, <1>3
<1>5. WorkOK'
  BY <1>1, <1>3 DEF WorkOK
<1>6. PlaceOK'
  BY <1>1, <1>2, <1>3 DEF PlaceOK, Handling
<1>7. OnceOK'
  <2>1. IsInjective(batch')
    BY <1>3 DEF OnceOK, IsInjective
  <2>2. ASSUME NEW i \in DOMAIN users', NEW j \in DOMAIN users', users'[i] = users'[j]
        PROVE  i = j
    <3>1. i + BatchSize = j + BatchSize
      BY <1>3, <2>2 DEF OnceOK, IsInjective
    <3>2. QED BY <3>1, <1>2, <1>4
  <2>3. ASSUME NEW i \in DOMAIN users', NEW j \in DOMAIN batch', users'[i] = batch'[j]
        PROVE  FALSE
    <3>1. i + BatchSize = j
      BY <1>3, <2>3 DEF OnceOK, IsInjective
    <3>2. QED BY <3>1, <1>2, <1>3, <1>4
  <2>4. DOMAIN infos' = {}
    BY <1>1, <1>2
  <2>5. QED BY <2>1, <2>2, <2>3, <2>4, <1>1 DEF OnceOK, IsInjective
<1>8. Spared'
  <2>1. DOMAIN infos' = {}
    BY <1>1, <1>2
  <2>2. QED BY <2>1, <1>1, <1>3 DEF Spared, Alone, Selected, Handling, OnlyWorks
<1>9. ReportedTruly'
  BY <1>1 DEF ReportedTruly
<1>10. QED BY <1>1, <1>5, <1>6, <1>7, <1>8, <1>9, OnlyWorksKeeps

LEMMA ReadHealthFactorKeeps ==
  ASSUME IInv, NEW b \in Bot, NEW awaited \in BOOLEAN, readHealthFactor(b, awaited)
  PROVE  IInv'
<1>1. /\ OnlyWorks
      /\ UNCHANGED <<users, infos, amount>>
      /\ pc = "healthFactors" /\ Len(healthFactors) < Len(batch)
      /\ \/ /\ pc' = "healthFactors" /\ batch' = batch
            /\ \/ healthFactors' = Append(healthFactors, 0)
               \/ healthFactors' = Append(healthFactors,
                                     healthFactor[batch[Len(healthFactors) + 1]])
         \/ /\ pc' = "batching" /\ batch' = <<>> /\ healthFactors' = <<>>
  BY DEF readHealthFactor, OnlyWorks, Spent, Place, ProcessOK, memoryVars, marketVars,
         processVars
<1>2. batch \in Seq(User) /\ healthFactors \in Seq(Nat)
  BY DEF WorkOK
<1>3. WorkOK'
  <2>1. CASE batch' = <<>> /\ healthFactors' = <<>>
    BY <1>1, <2>1 DEF WorkOK
  <2>2. ASSUME NEW health \in Nat, batch' = batch,
               healthFactors' = Append(healthFactors, health)
        PROVE  WorkOK'
    BY <1>1, <1>2, <2>2 DEF WorkOK
  <2>3. healthFactor[batch[Len(healthFactors) + 1]] \in Nat
    <3>1. Len(healthFactors) + 1 \in DOMAIN batch
      BY <1>1, <1>2
    <3>2. batch[Len(healthFactors) + 1] \in User
      BY <3>1, <1>2
    <3>3. healthFactor[batch[Len(healthFactors) + 1]] \in HealthFactor
      BY <3>2 DEF MarketOK
    <3>4. QED BY <3>3 DEF HealthFactor
  <2>4. QED BY <1>1, <2>1, <2>2, <2>3
<1>4. PlaceOK'
  BY <1>1 DEF PlaceOK, Handling
<1>5. \A i \in DOMAIN batch' : i \in DOMAIN batch /\ batch'[i] = batch[i]
  BY <1>1
<1>6. OnceOK'
  BY <1>1, <1>5 DEF OnceOK, IsInjective
<1>7. Spared'
  BY <1>1, <1>5 DEF Spared, Alone, Selected, Handling, OnlyWorks
<1>8. ReportedTruly'
  BY <1>1 DEF ReportedTruly
<1>9. QED BY <1>1, <1>3, <1>4, <1>6, <1>7, <1>8, OnlyWorksKeeps

\* A bot that can load its memory finds in it whoever is sentenced.
LEMMA Recall ==
  ASSUME IInv, Alone, CanInitialize(bot)
  PROVE  Keeps(initialized(bot))
<1>1. CASE isInitialized[bot]
  BY <1>1 DEF Recalled, initialized
<1>2. CASE ~isInitialized[bot] /\ memoryFile.status = "whole"
  BY <1>2 DEF Recalled, initialized
<1>3. CASE ~isInitialized[bot] /\ memoryFile.status = "absent"
  BY <1>3, Parameters DEF Recalled, Keeps, MarketOK
<1>4. QED BY <1>1, <1>2, <1>3 DEF CanInitialize

LEMMA InfosAre ==
  ASSUME WorkOK, NEW i \in DOMAIN infos
  PROVE  infos[i].userAddress \in User
<1>1. infos[i] \in Info
  BY DEF WorkOK
<1>2. QED BY <1>1 DEF Info

LEMMA PutUserAway ==
  ASSUME IInv, pc = "puttingAway", put(bot, user), outcome' = FALSE, pc' = "reporting",
         sentenced' = [sentenced EXCEPT ![user] = IgnoreDuration[bot]],
         UNCHANGED <<known, debt, healthFactor, budget, users, batch, healthFactors, infos,
                     amount, script, bot, trial>>
  PROVE  IInv'
<1>1. bot \in Bot /\ user \in User /\ user = infos[1].userAddress /\ 1 \in DOMAIN infos
  BY HandledUser DEF ProcessOK, Handling
<1>2. IgnoreDuration[bot] \in Nat
  BY <1>1, Parameters
<1>3. MemoryOK' /\ user \in DOMAIN memoryFile'.memory
  BY <1>1, PutKeeps
<1>4. MarketOK'
  BY <1>1, <1>2 DEF MarketOK
<1>5. ProcessOK' /\ WorkOK'
  BY DEF ProcessOK, WorkOK, Place
<1>6. PlaceOK'
  BY DEF PlaceOK, Handling
<1>7. OnceOK'
  BY ListsStay
<1>8. Recalled'
  <2>1. SUFFICES ASSUME Alone' PROVE Recalled'
    BY DEF Recalled
  <2>2. Alone /\ CanInitialize(bot)
    BY <2>1 DEF Alone, put
  <2>3. Keeps(initialized(bot))
    BY <2>2, Recall
  <2>4. ASSUME NEW u \in User, sentenced'[u] > 0
        PROVE  u \in DOMAIN withUser(bot, user) /\ withUser(bot, user)[u] >= sentenced'[u]
    <3>1. CASE u = user
      <4>1. sentenced'[u] = IgnoreDuration[bot] /\ withUser(bot, user)[u] = IgnoreDuration[bot]
        BY <3>1 DEF MarketOK, withUser
      <4>2. QED BY <3>1, <4>1, <1>2 DEF withUser
    <3>2. CASE u # user
      <4>1. sentenced'[u] = sentenced[u]
        BY <3>2 DEF MarketOK
      <4>2. u \in DOMAIN initialized(bot) /\ initialized(bot)[u] >= sentenced[u]
        BY <2>3, <2>4, <4>1 DEF Keeps
      <4>3. QED BY <3>2, <4>1, <4>2 DEF withUser
    <3>3. QED BY <3>1, <3>2
  <2>5. /\ memory' = [memory EXCEPT ![bot] = withUser(bot, user)]
        /\ memoryFile' = FileOf(bot, withUser(bot, user))
    BY DEF put, Keep, dumpToFileIfNeeded
  <2>6. /\ memory'[bot] = withUser(bot, user)
        /\ memoryFile'.status = "whole" /\ memoryFile'.memory = withUser(bot, user)
    BY <2>5, <1>1 DEF MemoryOK, FileOf
  <2>7. Keeps(memory[bot])' /\ Keeps(memoryFile.memory)'
    BY <2>4, <2>6 DEF Keeps
  <2>8. bot = firstBot
    BY <2>2 DEF Recalled
  <2>9. QED BY <2>6, <2>7, <2>8 DEF Recalled, firstBot
<1>9. Spared'
  <2>1. batch = <<>>
    BY DEF PlaceOK
  <2>2. \A i \in DOMAIN users : users[i] # user /\ users[i] \in User
    BY <1>1 DEF OnceOK, WorkOK
  <2>3. \A i \in DOMAIN infos : i > 1 => infos[i].userAddress # user
    BY <1>1 DEF OnceOK
  <2>4. \A u \in User \ {user} : sentenced'[u] = sentenced[u]
    BY DEF MarketOK
  <2>5. \A i \in DOMAIN infos : infos[i].userAddress \in User
    BY InfosAre
  <2>6. QED BY <2>1, <2>2, <2>3, <2>4, <2>5 DEF Spared, Alone, Selected, Handling
<1>10. ReportedTruly'
  BY <1>3 DEF ReportedTruly, user
<1>11. QED BY <1>3, <1>4, <1>5, <1>6, <1>7, <1>8, <1>9, <1>10

LEMMA DieKeeps ==
  ASSUME IInv, Die, Spent, memoryFile' = memoryFile \/ memoryFile' = TornFile
  PROVE  IInv'
<1>1. /\ pc' = "down" /\ trial' = 0 /\ Forget
      /\ users' = <<>> /\ batch' = <<>> /\ healthFactors' = <<>> /\ infos' = <<>> /\ amount' = 0
      /\ UNCHANGED <<known, debt, healthFactor, script, bot, sentenced>>
  BY DEF Die, NoWork, marketVars
<1>2. MemoryOK'
  BY <1>1, ForgetKeeps
<1>3. MarketOK'
  BY <1>1, SpentOK DEF MarketOK
<1>4. ProcessOK' /\ WorkOK'
  BY <1>1, Parameters DEF ProcessOK, WorkOK, Place
<1>5. PlaceOK'
  BY <1>1 DEF PlaceOK, Handling
<1>6. OnceOK'
  BY <1>1 DEF OnceOK, IsInjective
<1>7. Recalled'
  BY <1>1 DEF Recalled, Alone, Keeps, firstBot, Forget, ProcessOK, TornFile, AbsentFile
<1>8. Spared' /\ ReportedTruly'
  BY <1>1 DEF Spared, Selected, Handling, ReportedTruly
<1>9. QED BY <1>2, <1>3, <1>4, <1>5, <1>6, <1>7, <1>8

LEMMA PutAwayKeeps ==
  ASSUME IInv, NEW b \in Bot, putAway(b)
  PROVE  IInv'
<1>1. pc = "puttingAway" /\ bot = b
  BY DEF putAway
<1>2. ASSUME put(b, user),
             sentenced' = [sentenced EXCEPT ![user] = IgnoreDuration[b]],
             outcome' = FALSE, Goto("reporting"),
             UNCHANGED <<marketVars, budget, users, batch, healthFactors, infos,
                         amount, plan, mined>>
      PROVE  IInv'
  BY <1>1, <1>2, PutUserAway DEF marketVars
<1>3. ASSUME Goto("batching"), infos' = <<>>, amount' = 0, Aside,
             UNCHANGED <<memoryVars, budget, users, batch, healthFactors, plan, outcome>>
      PROVE  IInv'
  <2>1. /\ OnlyWorks
        /\ UNCHANGED <<users, batch, healthFactors>> /\ infos' = <<>> /\ amount' = 0
        /\ pc' = "batching"
    BY <1>3 DEF OnlyWorks, Spent, Place, memoryVars, marketVars
  <2>2. WorkOK'
    BY <2>1 DEF WorkOK
  <2>3. PlaceOK'
    BY <1>1, <2>1 DEF PlaceOK, Handling
  <2>4. OnceOK'
    BY <2>1 DEF OnceOK
  <2>5. Spared'
    BY <1>1, <2>1 DEF Spared, Alone, Selected, Handling, OnlyWorks
  <2>6. ReportedTruly'
    BY <2>1 DEF ReportedTruly
  <2>7. QED BY <2>1, <2>2, <2>3, <2>4, <2>5, <2>6, OnlyWorksKeeps
<1>4. ASSUME Spend("crashes"), Die, memoryFile' = TornFile
      PROVE  IInv'
  BY <1>4, DieKeeps DEF Spent
<1>5. QED BY <1>2, <1>3, <1>4 DEF putAway

\* A list of a finite set's elements in any order.
LEMMA Shuffled ==
  ASSUME NEW S, IsFiniteSet(S), NEW s \in SetToSeqs(S)
  PROVE  s \in Seq(S) /\ IsInjective(s)
<1>1. Cardinality(S) \in Nat
  BY FS_CardinalityType
<1>2. /\ s \in [1 .. Cardinality(S) -> S]
      /\ \A i, j \in 1 .. Cardinality(S) : i # j => s[i] # s[j]
  BY DEF SetToSeqs
<1>3. QED BY <1>1, <1>2 DEF IsInjective

\* Looking users up forgets nobody who is sentenced.
LEMMA LookUpRecalls ==
  ASSUME IInv, NEW asked \in SUBSET User, lookUp(bot, asked),
         UNCHANGED <<script, bot, sentenced>>
  PROVE  MemoryOK' /\ Recalled'
<1>1. bot \in Bot
  BY DEF ProcessOK
<1>2. PICK left \in Entries(IgnoreDuration[bot]) :
           /\ Keep(bot, left)
           /\ memoryFile' = memoryFile \/ memoryFile' = FileOf(bot, left)
           /\ \A u \in DOMAIN initialized(bot) : initialized(bot)[u] > 0 =>
                u \in DOMAIN left /\ left[u] = initialized(bot)[u]
  BY <1>1, LookUpLeaves
<1>3. MemoryOK'
  BY <1>1, LookUpKeeps
<1>4. SUFFICES ASSUME Alone' PROVE Recalled'
  BY <1>3 DEF Recalled
<1>5. Alone /\ CanInitialize(bot)
  BY <1>4 DEF Alone, lookUp
<1>6. \A u \in User : sentenced[u] > 0 =>
        u \in DOMAIN initialized(bot) /\ initialized(bot)[u] >= sentenced[u]
  BY <1>5, Recall DEF Keeps
<1>7. IgnoreDuration[bot] \in Nat /\ sentenced \in [User -> Nat]
  BY <1>1, Parameters DEF MarketOK
<1>8. initialized(bot) \in Entries(IgnoreDuration[bot])
  BY <1>1, <1>5, InitializedEntries
<1>9. \A u \in DOMAIN initialized(bot) : initialized(bot)[u] \in Nat
  BY <1>7, <1>8, EntriesAre
<1>10. \A u \in User : sentenced[u] > 0 => u \in DOMAIN left /\ left[u] >= sentenced[u]
  BY <1>2, <1>6, <1>7, <1>9
<1>11. Keeps(left)
  BY <1>10 DEF Keeps
<1>12. memory'[bot] = left
  BY <1>1, <1>2 DEF Keep, MemoryOK
<1>13. Keeps(memory[bot])'
  BY <1>11, <1>12 DEF Keeps
<1>14. memoryFile' = memoryFile \/ (memoryFile'.status = "whole" /\ memoryFile'.memory = left)
  BY <1>2 DEF FileOf
<1>15. (memoryFile.status = "whole" => Keeps(memoryFile.memory))'
  BY <1>5, <1>11, <1>14 DEF Keeps, Recalled
<1>16. (memoryFile.status = "absent" => \A u \in User : sentenced[u] = 0)'
  BY <1>5, <1>14 DEF Recalled
<1>17. (bot = firstBot)'
  BY <1>5 DEF Recalled, firstBot
<1>18. QED BY <1>13, <1>15, <1>16, <1>17 DEF Recalled

LEMMA FilterAndShuffleKeeps ==
  ASSUME IInv, NEW b \in Bot, filterAndShuffle(b)
  PROVE  IInv'
<1>1. /\ pc = "filtering" /\ bot = b
      /\ UNCHANGED <<known, debt, healthFactor, sentenced, script, bot, trial, budget, batch,
                     healthFactors, infos, amount, plan, outcome, mined>>
  BY DEF filterAndShuffle, marketVars
<1>2. batch = <<>> /\ infos = <<>>
  BY <1>1 DEF PlaceOK, Handling
<1>3. CASE UNCHANGED <<users, memoryVars>> /\ pc' \in {"batching", "threw"}
                /\ (pc' = "batching" => users = <<>>)
  <2>1. OnlyWorks
    BY <1>1, <1>3 DEF OnlyWorks, Spent, Place, memoryVars
  <2>2. WorkOK'
    BY <1>1, <1>3 DEF WorkOK
  <2>3. PlaceOK'
    BY <1>1, <1>2, <1>3 DEF PlaceOK, Handling
  <2>4. OnceOK'
    BY <1>1, <1>3, ListsStay
  <2>5. Spared'
    BY <1>1, <1>2, <1>3 DEF Spared, Selected, Handling
  <2>6. ReportedTruly'
    BY <1>3 DEF ReportedTruly
  <2>7. QED BY <2>1, <2>2, <2>3, <2>4, <2>5, <2>6, OnlyWorksKeeps
<1>4. CASE /\ pc' = "batching" /\ lookUp(b, ToSet(users))
           /\ users' \in SetToSeqs({u \in ToSet(users) : ~isIgnored(b, u)})
  <2> DEFINE left == {u \in ToSet(users) : ~isIgnored(b, u)}
  <2>1. ToSet(users) \in SUBSET User
    BY DEF WorkOK, ToSet
  <2>2. IsFiniteSet(left)
    BY <2>1, Parameters, FS_Subset
  <2>3. users' \in Seq(left) /\ IsInjective(users')
    BY <1>4, <2>2, Shuffled
  <2>4. \A i \in DOMAIN users' : users'[i] \in left
    BY <2>3
  <2>5. MemoryOK' /\ Recalled'
    BY <1>1, <1>4, <2>1, LookUpRecalls
  <2>6. MarketOK' /\ ProcessOK'
    BY <1>1, <1>4 DEF MarketOK, ProcessOK, Place
  <2>7. users' \in Seq(User)
    BY <2>1, <2>3
  <2>8. WorkOK'
    BY <1>1, <2>7 DEF WorkOK
  <2>9. PlaceOK'
    BY <1>1, <1>2, <1>4 DEF PlaceOK, Handling
  <2>10. OnceOK'
    BY <1>1, <1>2, <1>4, <2>3 DEF OnceOK, IsInjective
  <2>11. Spared'
    <3>1. SUFFICES ASSUME Alone, NEW i \in DOMAIN users' PROVE sentenced[users'[i]] = 0
      BY <1>1, <1>2 DEF Spared, Alone
    <3>2. CanInitialize(bot) /\ ~isIgnored(bot, users'[i]) /\ users'[i] \in User
      BY <1>1, <1>4, <2>1, <2>4 DEF lookUp
    <3>3. \A u \in User : sentenced[u] > 0 =>
            u \in DOMAIN initialized(bot) /\ initialized(bot)[u] >= sentenced[u]
      BY <3>1, <3>2, Recall DEF Keeps
    <3>4. IgnoreDuration[bot] \in Nat /\ initialized(bot) \in Entries(IgnoreDuration[bot])
      BY <1>1, <3>2, Parameters, InitializedEntries
    <3>5. \A u \in DOMAIN initialized(bot) : initialized(bot)[u] \in Nat
      BY <3>4, EntriesAre
    <3>6. sentenced[users'[i]] \in Nat
      BY <3>2 DEF MarketOK
    <3>7. QED BY <3>2, <3>3, <3>5, <3>6 DEF isIgnored
  <2>12. ReportedTruly'
    BY <1>4 DEF ReportedTruly
  <2>13. QED BY <2>5, <2>6, <2>8, <2>9, <2>10, <2>11, <2>12
<1>5. QED BY <1>3, <1>4 DEF filterAndShuffle

LEMMA ListOfUsers ==
  ASSUME NEW s \in Seq(User), NEW i \in DOMAIN s
  PROVE  s[i] \in Nat /\ i \in Nat
<1>1. s[i] \in User /\ i \in Nat
  OBVIOUS
<1>2. QED BY <1>1, Parameters

\* A page continues the list: its accounts come after the last one seen.
LEMMA NextPage ==
  ASSUME IInv, pc = "paging",
         NEW last, last = IF users = <<>> THEN 0 ELSE Last(users),
         NEW page \in InOrder(accountsAfter(last)),
         NEW longer, longer = users \o chunk(page, PageSize)
  PROVE  /\ longer \in Seq(User)
         /\ \A i, j \in DOMAIN longer : i < j => longer[i] < longer[j]
<1>1. /\ users \in Seq(User) /\ User \subseteq Nat \ {0} /\ PageSize \in Nat \ {0}
      /\ known \subseteq User /\ IsFiniteSet(User)
  BY Parameters DEF WorkOK, MarketOK
<1>2. Len(users) \in Nat /\ DOMAIN users = 1 .. Len(users)
      /\ \A i \in DOMAIN users : users[i] \in Nat
  BY <1>1, ListOfUsers
<1>3. \A i, j \in DOMAIN users : i < j => users[i] < users[j]
  BY DEF OnceOK
<1>4. last \in Nat /\ \A i \in DOMAIN users : users[i] <= last
  <2>1. CASE users = <<>>
    BY <2>1
  <2>2. CASE users # <<>>
    <3>1. last = users[Len(users)] /\ Len(users) \in DOMAIN users
      BY <2>2, <1>1, <1>2 DEF Last
    <3>2. QED BY <3>1, <1>2, <1>3
  <2>3. QED BY <2>1, <2>2
<1>5. accountsAfter(last) \in SUBSET User /\ accountsAfter(last) \in SUBSET Nat
      /\ IsFiniteSet(accountsAfter(last)) /\ \A u \in accountsAfter(last) : u > last
  <2>1. accountsAfter(last) \in SUBSET User /\ \A u \in accountsAfter(last) : u > last
    BY <1>1 DEF accountsAfter
  <2>2. QED BY <2>1, <1>1, FS_Subset
<1>6. page \in Seq(accountsAfter(last))
      /\ \A i, j \in DOMAIN page : i < j => page[i] < page[j]
  BY <1>5, Ordered
<1> DEFINE c == chunk(page, PageSize)
<1>7. /\ c \in Seq(accountsAfter(last))
      /\ \A i \in DOMAIN c : i \in DOMAIN page /\ c[i] = page[i]
  BY <1>1, <1>6, Chunks
<1> HIDE DEF c
<1>8. c \in Seq(User) /\ \A i \in DOMAIN c : c[i] > last /\ c[i] \in Nat /\ i \in Nat
  <2>1. \A i \in DOMAIN c : c[i] \in accountsAfter(last) /\ i \in Nat
    BY <1>7
  <2>2. c \in Seq(User)
    BY <1>5, <1>7
  <2>3. QED BY <2>1, <2>2, <1>5
<1>9. /\ longer \in Seq(User)
      /\ \A i \in DOMAIN longer :
           \/ i \in DOMAIN users /\ longer[i] = users[i]
           \/ /\ i > Len(users) /\ i - Len(users) \in DOMAIN c
              /\ longer[i] = c[i - Len(users)]
  BY <1>1, <1>8, Joined DEF c
<1>10. ASSUME NEW i \in DOMAIN longer, NEW j \in DOMAIN longer, i < j
       PROVE  longer[i] < longer[j]
  <2>1. i \in Nat /\ j \in Nat
    BY <1>9
  <2>2. CASE j \in DOMAIN users /\ longer[j] = users[j]
    <3>1. i \in DOMAIN users /\ longer[i] = users[i]
      BY <2>1, <2>2, <1>2, <1>9, <1>10
    <3>2. QED BY <2>2, <3>1, <1>3, <1>10
  <2>3. CASE /\ j > Len(users) /\ j - Len(users) \in DOMAIN c
             /\ longer[j] = c[j - Len(users)]
    <3>1. CASE i \in DOMAIN users /\ longer[i] = users[i]
      BY <2>3, <3>1, <1>2, <1>4, <1>8
    <3>2. CASE /\ i > Len(users) /\ i - Len(users) \in DOMAIN c
               /\ longer[i] = c[i - Len(users)]
      <4>1. i - Len(users) < j - Len(users)
        BY <2>1, <1>2, <1>10
      <4>2. QED BY <2>3, <3>2, <4>1, <1>6, <1>7
    <3>3. QED BY <3>1, <3>2, <1>9
  <2>4. QED BY <2>2, <2>3, <1>9
<1>11. QED BY <1>9, <1>10

LEMMA FetchPageKeeps ==
  ASSUME IInv, NEW b \in Bot, fetchPage(b)
  PROVE  IInv'
<1> DEFINE last == IF users = <<>> THEN 0 ELSE Last(users)
<1>1. /\ OnlyWorks
      /\ UNCHANGED <<batch, healthFactors, infos, amount, plan, outcome, mined>>
      /\ pc = "paging" /\ pc' \in {"paging", "filtering", "threw"}
      /\ \/ users' = users
         \/ \E page \in InOrder(accountsAfter(last)) : users' = users \o chunk(page, PageSize)
  BY DEF fetchPage, OnlyWorks, Spent, Place, memoryVars, marketVars
<1> HIDE DEF last
<1>2. batch = <<>> /\ infos = <<>>
  BY <1>1 DEF PlaceOK, Handling
<1>3. users' \in Seq(User) /\ \A i, j \in DOMAIN users' : i < j => users'[i] < users'[j]
  <2>1. CASE users' = users
    BY <1>1, <2>1 DEF WorkOK, OnceOK
  <2>2. ASSUME NEW page \in InOrder(accountsAfter(last)),
               users' = users \o chunk(page, PageSize)
        PROVE  <1>3!1 /\ <1>3!2
    BY <1>1, <2>2, NextPage DEF last
  <2>3. QED BY <1>1, <2>1, <2>2
<1>4. IsInjective(users')
  <2>1. \A i \in DOMAIN users' : users'[i] \in Nat /\ i \in Nat
    BY <1>3, ListOfUsers
  <2>2. QED BY <1>3, <2>1 DEF IsInjective
<1>5. WorkOK'
  BY <1>1, <1>3 DEF WorkOK
<1>6. PlaceOK'
  BY <1>1, <1>2 DEF PlaceOK, Handling
<1>7. OnceOK'
  BY <1>1, <1>2, <1>3, <1>4 DEF OnceOK, IsInjective
<1>8. Spared' /\ ReportedTruly'
  BY <1>1 DEF Spared, Selected, Handling, ReportedTruly
<1>9. QED BY <1>1, <1>5, <1>6, <1>7, <1>8, OnlyWorksKeeps

LEMMA FirstNumbers ==
  ASSUME NEW n \in Nat
  PROVE  IsFiniteSet(1 .. n) /\ Cardinality(1 .. n) = n
<1>1. 1 \in Int /\ n \in Int
  OBVIOUS
<1>2. QED BY <1>1, FS_Interval

LEMMA Widened ==
  ASSUME NEW S, NEW T, S \subseteq T, NEW s \in Seq(S)
  PROVE  s \in Seq(T)
OBVIOUS

\* The users picked from a batch are distinct ones of the batch.
LEMMA PairHealthFactorsKeeps ==
  ASSUME IInv, NEW b \in Bot, pairHealthFactors(b)
  PROVE  IInv'
<1>1. /\ OnlyWorks
      /\ UNCHANGED <<users, amount, plan, outcome, mined>>
      /\ batch' = <<>> /\ healthFactors' = <<>>
      /\ pc = "healthFactors" /\ pc' = "users" /\ Len(healthFactors) = Len(batch)
  BY DEF pairHealthFactors, OnlyWorks, Spent, Place, memoryVars, marketVars
<1>2. /\ batch \in Seq(User) /\ healthFactors \in Seq(Nat)
      /\ Len(batch) \in Nat
      /\ DOMAIN batch = 1 .. Len(batch) /\ DOMAIN healthFactors = 1 .. Len(batch)
  BY <1>1 DEF WorkOK
<1>3. PICK fetched \in InOrder({i \in DOMAIN healthFactors : healthFactors[i] # 0}) :
        \E low \in InOrder({i \in DOMAIN fetched :
                             healthFactors[fetched[i]] < HealthFactorThreshold}) :
          infos' = [k \in DOMAIN low |->
                     [userAddress |-> batch[low[k]],
                      healthFactor |-> healthFactors[fetched[low[k]]],
                      readFor |-> batch[fetched[low[k]]]]]
  BY DEF pairHealthFactors
<1>4. PICK low \in InOrder({i \in DOMAIN fetched :
                             healthFactors[fetched[i]] < HealthFactorThreshold}) :
        infos' = [k \in DOMAIN low |->
                   [userAddress |-> batch[low[k]],
                    healthFactor |-> healthFactors[fetched[low[k]]],
                    readFor |-> batch[fetched[low[k]]]]]
  BY <1>3
<1>5. /\ fetched \in Seq(1 .. Len(batch)) /\ Len(fetched) \in Nat
      /\ Len(fetched) <= Len(batch) /\ DOMAIN fetched = 1 .. Len(fetched)
  <2> DEFINE read == {i \in DOMAIN healthFactors : healthFactors[i] # 0}
  <2>1. read \in SUBSET (1 .. Len(batch)) /\ read \in SUBSET Nat
    BY <1>2
  <2>2. IsFiniteSet(1 .. Len(batch)) /\ Cardinality(1 .. Len(batch)) = Len(batch)
    BY <1>2, FirstNumbers
  <2>3. IsFiniteSet(read) /\ Cardinality(read) <= Len(batch)
    BY <2>1, <2>2, FS_Subset
  <2>4. fetched \in Seq(read) /\ Len(fetched) = Cardinality(read)
    BY <2>1, <2>3, Ordered
  <2>5. fetched \in Seq(1 .. Len(batch))
    BY <2>1, <2>4, Widened
  <2>6. Len(fetched) \in Nat /\ Len(fetched) <= Len(batch)
    BY <2>3, <2>4, <2>5
  <2>7. QED BY <2>5, <2>6
<1>6. /\ low \in Seq(1 .. Len(fetched)) /\ IsInjective(low)
  <2> DEFINE lower == {i \in DOMAIN fetched :
                        healthFactors[fetched[i]] < HealthFactorThreshold}
  <2>1. lower \in SUBSET (1 .. Len(fetched)) /\ lower \in SUBSET Nat
    BY <1>5
  <2>2. IsFiniteSet(lower)
    <3>1. IsFiniteSet(1 .. Len(fetched))
      BY <1>5, FirstNumbers
    <3>2. QED BY <3>1, <2>1, FS_Subset
  <2>3. low \in Seq(lower) /\ IsInjective(low)
    BY <2>1, <2>2, Ordered
  <2>4. QED BY <2>1, <2>3, Widened
<1>7. \A k \in DOMAIN low :
        /\ low[k] \in DOMAIN batch /\ batch[low[k]] \in User
        /\ fetched[low[k]] \in DOMAIN batch /\ batch[fetched[low[k]]] \in User
        /\ healthFactors[fetched[low[k]]] \in Nat
  <2> SUFFICES ASSUME NEW k \in DOMAIN low
               PROVE  /\ low[k] \in DOMAIN batch /\ batch[low[k]] \in User
                      /\ fetched[low[k]] \in DOMAIN batch /\ batch[fetched[low[k]]] \in User
                      /\ healthFactors[fetched[low[k]]] \in Nat
    OBVIOUS
  <2>1. low[k] \in 1 .. Len(fetched)
    BY <1>6
  <2>2. low[k] \in 1 .. Len(batch) /\ fetched[low[k]] \in 1 .. Len(batch)
    BY <2>1, <1>2, <1>5
  <2>3. QED BY <2>2, <1>2
<1>8. /\ DOMAIN infos' = DOMAIN low
      /\ \A k \in DOMAIN low : infos'[k].userAddress = batch[low[k]] /\ infos'[k] \in Info
  BY <1>4, <1>7 DEF Info
<1>9. infos' \in Seq(Info)
  <2>1. Len(low) \in Nat /\ DOMAIN low = 1 .. Len(low)
    BY <1>6
  <2>2. infos' \in [1 .. Len(low) -> Info]
    BY <1>4, <1>8, <2>1
  <2>3. QED BY <2>1, <2>2
<1>10. WorkOK'
  BY <1>1, <1>9 DEF WorkOK
<1>11. PlaceOK'
  BY <1>1 DEF PlaceOK, Handling
<1>12. OnceOK'
  <2>1. ASSUME NEW i \in DOMAIN infos', NEW j \in DOMAIN infos',
               infos'[i].userAddress = infos'[j].userAddress
        PROVE  i = j
    <3>1. low[i] = low[j]
      BY <1>7, <1>8, <2>1 DEF OnceOK, IsInjective
    <3>2. QED BY <3>1, <1>6, <1>8 DEF IsInjective
  <2>2. \A i \in DOMAIN users, j \in DOMAIN infos' : users[i] # infos'[j].userAddress
    BY <1>7, <1>8 DEF OnceOK
  <2>3. QED BY <2>1, <2>2, <1>1 DEF OnceOK, IsInjective
<1>13. Spared'
  <2>1. SUFFICES ASSUME Alone PROVE Spared'
    BY <1>1 DEF Spared, Alone, OnlyWorks
  <2>2. \A j \in DOMAIN infos' : sentenced[infos'[j].userAddress] = 0
    BY <2>1, <1>1, <1>7, <1>8 DEF Spared, Selected
  <2>3. QED BY <2>1, <2>2, <1>1 DEF Spared, Selected, OnlyWorks
<1>14. ReportedTruly'
  BY <1>1 DEF ReportedTruly
<1>15. QED BY <1>1, <1>10, <1>11, <1>12, <1>13, <1>14, OnlyWorksKeeps

-------------------------------------------------------------------------------
(* A bot. *)

\* A plan: nonempty, and the liquidation itself comes last.
Plan == {s \in Seq(Call) : s # <<>> /\ s[Len(s)] \in {"flashMint", "flashLoan"}}

LEMMA PlanIs ==
  ASSUME NEW s \in Seq(Call), NEW n \in Nat \ {0}, Len(s) = n,
         s[n] \in {"flashMint", "flashLoan"}
  PROVE  s \in Plan
<1>1. s # <<>>
  <2>1. Len(<<>>) = 0
    OBVIOUS
  <2>2. QED BY <2>1
<1>2. s[Len(s)] \in {"flashMint", "flashLoan"}
  OBVIOUS
<1>3. QED BY <1>1, <1>2 DEF Plan

LEMMA PlanAfter ==
  ASSUME NEW s \in Seq(Call), NEW t \in Plan
  PROVE  s \o t \in Plan
<1>1. /\ t \in Seq(Call) /\ Len(t) \in Nat /\ Len(t) > 0 /\ Len(s) \in Nat
      /\ t[Len(t)] \in {"flashMint", "flashLoan"}
  BY DEF Plan
<1>2. s \o t \in Seq(Call) /\ Len(s \o t) = Len(s) + Len(t)
  BY <1>1
<1>3. (s \o t)[Len(s) + Len(t)] = t[Len(t)]
  BY <1>1
<1>4. s \o t # <<>>
  BY <1>1, <1>2
<1>5. QED BY <1>1, <1>2, <1>3, <1>4 DEF Plan

LEMMA LastOfPlan ==
  ASSUME NEW dusd \in BOOLEAN
  PROVE  <<IF dusd THEN "flashMint" ELSE "flashLoan">> \in Plan
<1> DEFINE s == <<IF dusd THEN "flashMint" ELSE "flashLoan">>
<1>1. s \in Seq(Call) /\ Len(s) = 1 /\ s[1] \in {"flashMint", "flashLoan"}
  BY DEF Call
<1> HIDE DEF s
<1>2. s \in Plan
  BY <1>1, PlanIs
<1>3. QED BY <1>2 DEF s

LEMMA OdosPlan ==
  ASSUME NEW u
  PROVE  performOdosLiquidationDefault(u) \in Plan
<1> DEFINE liquidation == IF u \in BorrowsDusd THEN "flashMint" ELSE "flashLoan"
           first == IF u \in Unstakes THEN <<"underlying">> ELSE <<>>
           swap == <<"quote", "approveRouter", "assemble", "approveSwapper", liquidation>>
<1>1. first \in Seq(Call)
  BY DEF Call
<1>2. swap \in Plan
  <2>1. swap \in Seq(Call) /\ Len(swap) = 5 /\ swap[5] \in {"flashMint", "flashLoan"}
    BY DEF Call
  <2>2. 5 \in Nat \ {0}
    OBVIOUS
  <2> HIDE DEF swap
  <2>3. QED BY <2>1, <2>2, PlanIs
<1>3. performOdosLiquidationDefault(u) = first \o swap
  BY DEF performOdosLiquidationDefault
<1> HIDE DEF first, swap
<1>4. QED BY <1>1, <1>2, <1>3, PlanAfter

\* The steps all bots have.
LEMMA CommonStepsKeep ==
  ASSUME IInv, NEW b \in Bot, NEW found, NEW awaited \in BOOLEAN, NEW calls \in Plan,
         \/ setUp(b, found) \/ fetchPage(b) \/ filterAndShuffle(b) \/ nextBatch(b)
         \/ readHealthFactor(b, awaited) \/ pairHealthFactors(b)
         \/ nextUser(b) \/ readBalances(b) \/ chooseAmount(b, calls)
         \/ sendLiquidation(b, "flashMint") \/ sendLiquidation(b, "flashLoan")
         \/ putAway(b) \/ saveUserState(b)
  PROVE  IInv'
<1>1. CASE setUp(b, found) \/ fetchPage(b) \/ filterAndShuffle(b) \/ nextBatch(b)
  BY <1>1, SetUpKeeps, FetchPageKeeps, FilterAndShuffleKeeps, NextBatchKeeps
<1>2. CASE readHealthFactor(b, awaited) \/ pairHealthFactors(b)
  BY <1>2, ReadHealthFactorKeeps, PairHealthFactorsKeeps
<1>3. CASE nextUser(b) \/ readBalances(b)
  BY <1>3, NextUserKeeps, ReadBalancesKeeps
<1>4. CASE chooseAmount(b, calls)
  BY <1>4, ChooseAmountKeeps DEF Plan
<1>5. CASE sendLiquidation(b, "flashMint") \/ sendLiquidation(b, "flashLoan")
  BY <1>5, SendLiquidationKeeps
<1>6. CASE putAway(b) \/ saveUserState(b)
  BY <1>6, PutAwayKeeps, SaveUserStateKeeps
<1>7. QED BY <1>1, <1>2, <1>3, <1>4, <1>5, <1>6

LEMMA OdosBotKeeps ==
  ASSUME IInv, runOdosBot
  PROVE  IInv'
<1>1. "odos" \in Bot
  BY Parameters
<1> DEFINE found == getOdosFlashMintLiquidatorBot /\ getOdosFlashLoanLiquidatorBot
           calls == performOdosLiquidationDefault(user)
<1>2. calls \in Plan
  BY OdosPlan
<1>3. \/ \/ setUp("odos", found) \/ fetchPage("odos") \/ filterAndShuffle("odos")
         \/ nextBatch("odos") \/ readHealthFactor("odos", TRUE) \/ pairHealthFactors("odos")
         \/ nextUser("odos") \/ readBalances("odos") \/ chooseAmount("odos", calls)
         \/ sendLiquidation("odos", "flashMint") \/ sendLiquidation("odos", "flashLoan")
         \/ putAway("odos") \/ saveUserState("odos")
      \/ \E name \in {"underlying", "approveRouter", "assemble", "approveSwapper"} :
           call("odos", name)
      \/ findRoute("odos", "quote")
  BY DEF runOdosBot, getAllOdosUserAddresses, odosLiquidatableUserInfos, runOdosBotBatch,
         getOdosLiquidationParams, getOdosUnderlyingAsset, getOdosSwapQuote,
         getAssembledQuote, executeFlashMintLiquidation, executeFlashLoanLiquidation
<1> HIDE DEF found, calls
<1>4. CASE <1>3!1
  BY <1>1, <1>2, <1>4, CommonStepsKeep
<1>5. CASE <1>3!2
  BY <1>1, <1>5, CallKeeps DEF Call
<1>6. CASE <1>3!3
  BY <1>1, <1>6, FindRouteKeeps DEF Call
<1>7. QED BY <1>3, <1>4, <1>5, <1>6

LEMMA CurvePlan ==
  ASSUME NEW u
  PROVE  performCurveLiquidationDefault(u) \in Plan
<1> DEFINE liquidation == <<IF u \in BorrowsDusd THEN "flashMint" ELSE "flashLoan">>
           unstaking == <<"underlying", "defaultRoute">>
           first == IF u \in Unstakes THEN unstaking ELSE <<>>
<1>1. first \in Seq(Call)
  <2>1. unstaking \in Seq(Call)
    BY DEF Call
  <2> HIDE DEF unstaking
  <2>2. QED BY <2>1
<1>2. liquidation \in Plan
  BY LastOfPlan
<1>3. performCurveLiquidationDefault(u) = first \o liquidation
  BY DEF performCurveLiquidationDefault
<1> HIDE DEF first, liquidation
<1>4. QED BY <1>1, <1>2, <1>3, PlanAfter

LEMMA CurveBotKeeps ==
  ASSUME IInv, runCurveBot
  PROVE  IInv'
<1>1. "curve" \in Bot
  BY Parameters
<1> DEFINE found == getCurveFlashMintLiquidatorBot /\ getCurveFlashLoanLiquidatorBot
           calls == performCurveLiquidationDefault(user)
<1>2. calls \in Plan
  BY CurvePlan
<1>3. \/ \/ setUp("curve", found) \/ fetchPage("curve") \/ filterAndShuffle("curve")
         \/ nextBatch("curve") \/ readHealthFactor("curve", TRUE) \/ pairHealthFactors("curve")
         \/ nextUser("curve") \/ readBalances("curve") \/ chooseAmount("curve", calls)
         \/ sendLiquidation("curve", "flashMint") \/ sendLiquidation("curve", "flashLoan")
         \/ putAway("curve") \/ saveUserState("curve")
      \/ call("curve", "underlying")
      \/ findRoute("curve", "defaultRoute")
  BY DEF runCurveBot, getAllCurveUserAddresses, curveLiquidatableUserInfos, runCurveBotBatch,
         getCurveLiquidationParams, getCurveUnderlyingAsset,
         performCurveLiquidationImplementation
<1> HIDE DEF found, calls
<1>4. CASE <1>3!1
  BY <1>1, <1>2, <1>4, CommonStepsKeep
<1>5. CASE <1>3!2
  BY <1>1, <1>5, CallKeeps DEF Call
<1>6. CASE <1>3!3
  BY <1>1, <1>6, FindRouteKeeps DEF Call
<1>7. QED BY <1>3, <1>4, <1>5, <1>6

LEMMA UniswapV3Plan ==
  ASSUME NEW u
  PROVE  performUniswapV3Liquidation(u) \in Plan
<1> DEFINE liquidation == IF u \in BorrowsDusd THEN "flashMint" ELSE "flashLoan"
           calls == <<"path", liquidation>>
<1>1. calls \in Seq(Call) /\ Len(calls) = 2 /\ calls[2] \in {"flashMint", "flashLoan"}
  BY DEF Call
<1>2. performUniswapV3Liquidation(u) = calls
  BY DEF performUniswapV3Liquidation
<1> HIDE DEF calls
<1>3. QED BY <1>1, <1>2, PlanIs

LEMMA UniswapV3BotKeeps ==
  ASSUME IInv, runUniswapV3Bot
  PROVE  IInv'
<1>1. "uniswapV3" \in Bot
  BY Parameters
<1> DEFINE found == getUniswapV3FlashMintLiquidatorBot /\ getUniswapV3FlashLoanLiquidatorBot
           calls == performUniswapV3Liquidation(user)
<1>2. calls \in Plan
  BY UniswapV3Plan
<1>3. \/ \/ setUp("uniswapV3", found) \/ fetchPage("uniswapV3")
         \/ filterAndShuffle("uniswapV3") \/ nextBatch("uniswapV3")
         \/ readHealthFactor("uniswapV3", FALSE) \/ pairHealthFactors("uniswapV3")
         \/ nextUser("uniswapV3") \/ readBalances("uniswapV3")
         \/ chooseAmount("uniswapV3", calls)
         \/ sendLiquidation("uniswapV3", "flashMint")
         \/ sendLiquidation("uniswapV3", "flashLoan")
         \/ putAway("uniswapV3") \/ saveUserState("uniswapV3")
      \/ findRoute("uniswapV3", "path")
  BY DEF runUniswapV3Bot, getAllUniswapV3UserAddresses, uniswapV3LiquidatableUserInfos,
         runUniswapV3BotBatch, getUniswapV3LiquidationParams, getUniswapV3SwapPath
<1> HIDE DEF found, calls
<1>4. CASE <1>3!1
  BY <1>1, <1>2, <1>4, CommonStepsKeep
<1>5. CASE <1>3!2
  BY <1>1, <1>5, FindRouteKeeps DEF Call
<1>6. QED BY <1>3, <1>4, <1>5

-------------------------------------------------------------------------------
(* The scripts and the environment. *)

\* A script that ends or begins a run leaves the memories as they are.
OnlyScripts ==
  /\ UNCHANGED <<memory, isInitialized, memoryFile, known, debt, healthFactor, sentenced,
                 budget, script>>
  /\ users' = <<>> /\ batch' = <<>> /\ healthFactors' = <<>> /\ infos' = <<>> /\ amount' = 0

LEMMA BetweenRuns ==
  ASSUME IInv, OnlyScripts, pc' \in {"starting", "idle"}, bot' \in Bot,
         trial' \in Nat, trial' < MaxOdosFailureCount + MaxCurveFailureCount,
         Alone => bot' = bot
  PROVE  IInv'
<1>1. MemoryOK' /\ MarketOK'
  BY DEF OnlyScripts, MemoryOK, MarketOK
<1>2. ProcessOK' /\ WorkOK'
  BY DEF OnlyScripts, ProcessOK, WorkOK, Place
<1>3. PlaceOK'
  BY DEF OnlyScripts, PlaceOK, Handling
<1>4. OnceOK'
  BY DEF OnlyScripts, OnceOK, IsInjective
<1>5. Recalled'
  BY DEF OnlyScripts, Recalled, Alone, Keeps, firstBot
<1>6. Spared' /\ ReportedTruly'
  BY DEF Spared, Selected, Handling, ReportedTruly
<1>7. QED BY <1>1, <1>2, <1>3, <1>4, <1>5, <1>6

LEMMA StartKeeps ==
  ASSUME IInv, NEW b \in Bot, NEW n \in Nat, Start(b, n),
         n < MaxOdosFailureCount + MaxCurveFailureCount,
         Alone => b = bot
  PROVE  IInv'
<1>1. OnlyScripts /\ pc' = "starting" /\ bot' = b /\ trial' = n
  BY DEF Start, NoWork, OnlyScripts, memoryVars, marketVars
<1>2. QED BY <1>1, BetweenRuns

LEMMA RestKeeps ==
  ASSUME IInv, Rest
  PROVE  IInv'
<1>1. OnlyScripts /\ pc' = "idle" /\ bot' = bot /\ trial' = 0
  BY DEF Rest, NoWork, OnlyScripts, memoryVars, marketVars
<1>2. bot \in Bot /\ 0 < MaxOdosFailureCount + MaxCurveFailureCount
  BY Parameters DEF ProcessOK
<1>3. QED BY <1>1, <1>2, BetweenRuns

LEMMA LoopKeeps ==
  ASSUME IInv, NEW b \in Bot, NEW s, loop(s, b), script = s => firstBot = b
  PROVE  IInv'
<1>1. Start(b, 0) /\ firstBot = b
  BY DEF loop
<1>2. Alone => b = bot
  BY <1>1 DEF Recalled
<1>3. 0 < MaxOdosFailureCount + MaxCurveFailureCount
  BY Parameters
<1>4. QED BY <1>1, <1>2, <1>3, StartKeeps

LEMMA ComboKeeps ==
  ASSUME IInv, comboMain
  PROVE  IInv'
<1>1. ~Alone
  BY DEF comboMain, Alone
<1>2. {"odos", "curve"} \subseteq Bot /\ trial \in Nat
      /\ MaxOdosFailureCount \in Nat \ {0} /\ MaxCurveFailureCount \in Nat \ {0}
  BY Parameters DEF ProcessOK
<1>3. \/ \E b \in {"odos", "curve"} : Start(b, 0)
      \/ trial + 1 < MaxOdosFailureCount /\ Start("odos", trial + 1)
      \/ trial + 1 < MaxCurveFailureCount /\ Start("curve", trial + 1)
      \/ Rest
  BY DEF comboMain, runOdosTrials, runCurveTrial
<1>4. CASE \E b \in {"odos", "curve"} : Start(b, 0)
  BY <1>1, <1>2, <1>4, StartKeeps
<1>5. CASE trial + 1 < MaxOdosFailureCount /\ Start("odos", trial + 1)
  BY <1>1, <1>2, <1>5, StartKeeps
<1>6. CASE trial + 1 < MaxCurveFailureCount /\ Start("curve", trial + 1)
  BY <1>1, <1>2, <1>6, StartKeeps
<1>7. QED BY <1>3, <1>4, <1>5, <1>6, RestKeeps

LEMMA SpecificUsersKeep ==
  ASSUME IInv, NEW b \in Bot, NEW s \in OneShot, NEW found,
         liquidateSpecificUsers(s, b, found)
  PROVE  IInv'
<1>1. ~Alone /\ script' = script
  BY DEF liquidateSpecificUsers, Alone
<1>2. Recalled' /\ Spared'
  BY <1>1 DEF Recalled, Spared, Alone
<1>3. /\ UNCHANGED <<memory, isInitialized, memoryFile, known, debt, healthFactor, sentenced,
                     trial, users, healthFactors, infos, amount>>
      /\ Spent
      /\ \/ /\ pc = "idle" /\ pc' \in {"printing", "exited"} /\ bot' = b /\ batch' = batch
         \/ /\ pc = "printing" /\ pc' \in {"healthFactors", "exited"} /\ bot' = bot
            /\ batch' = SpecificUsers
         \/ /\ pc \in {"printing", "returned"} /\ pc' = "exited" /\ bot' = bot
            /\ batch' = batch
  BY DEF liquidateSpecificUsers, Spent, memoryVars, marketVars, workVars
<1>4. MemoryOK' /\ ReportedTruly'
  BY <1>3 DEF MemoryOK, ReportedTruly
<1>5. MarketOK'
  BY <1>3, SpentOK DEF MarketOK
<1>6. ProcessOK'
  BY <1>1, <1>3 DEF ProcessOK, Place
<1>7. infos = <<>> /\ (pc # "returned" => users = <<>> /\ batch = <<>>)
  BY <1>3 DEF PlaceOK, Handling
<1>8. WorkOK'
  <2>1. CASE batch' = batch
    BY <1>3, <2>1 DEF WorkOK
  <2>2. CASE pc = "printing" /\ batch' = SpecificUsers
    <3>1. Len(healthFactors) = 0 /\ SpecificUsers \in Seq(User)
      BY <1>7, <2>2, Parameters DEF WorkOK
    <3>2. QED BY <1>3, <2>2, <3>1 DEF WorkOK
  <2>3. QED BY <1>3, <2>1, <2>2
<1>9. PlaceOK'
  BY <1>3, <1>7 DEF PlaceOK, Handling
<1>10. OnceOK'
  BY <1>3, <1>7, Parameters DEF OnceOK, IsInjective
<1>11. QED BY <1>2, <1>4, <1>5, <1>6, <1>8, <1>9, <1>10

LEMMA RestartKeeps ==
  ASSUME IInv, restart
  PROVE  IInv'
<1>1. /\ OnlyWorks
      /\ UNCHANGED <<users, batch, healthFactors, infos, amount, plan, outcome, mined>>
      /\ pc = "down" /\ pc' = "idle"
  BY DEF restart, OnlyWorks, Spent, Place, memoryVars, marketVars, workVars
<1>2. WorkOK'
  BY <1>1 DEF WorkOK
<1>3. PlaceOK'
  BY <1>1 DEF PlaceOK, Handling
<1>4. OnceOK' /\ Spared'
  BY <1>1, ListsStay DEF OnlyWorks, Selected, Handling
<1>5. ReportedTruly'
  BY <1>1 DEF ReportedTruly
<1>6. QED BY <1>1, <1>2, <1>3, <1>4, <1>5, OnlyWorksKeeps

\* The market and the subgraph touch nothing of the process.
LEMMA EnvironmentKeeps ==
  ASSUME IInv, Spent, known' \subseteq User,
         debt' \in [User -> 0 .. MaxDebt], healthFactor' \in [User -> HealthFactor],
         UNCHANGED <<memory, isInitialized, memoryFile, users, batch, healthFactors, infos,
                     amount, plan, outcome, mined, script, bot, pc, trial, sentenced>>
  PROVE  IInv'
<1>1. MemoryOK' /\ ProcessOK' /\ WorkOK' /\ PlaceOK' /\ ReportedTruly'
  BY DEF MemoryOK, ProcessOK, WorkOK, PlaceOK, ReportedTruly, user
<1>2. MarketOK'
  BY SpentOK DEF MarketOK
<1>3. OnceOK'
  BY DEF OnceOK
<1>4. Recalled'
  BY DEF Recalled, Alone, Keeps, firstBot
<1>5. Spared'
  BY DEF Spared, Alone
<1>6. QED BY <1>1, <1>2, <1>3, <1>4, <1>5

LEMMA MoveKeeps ==
  ASSUME IInv, Move
  PROVE  IInv'
<1>1. debt' \in [User -> 0 .. MaxDebt] /\ healthFactor' \in [User -> HealthFactor]
  BY DEF Move, MarketOK
<1>2. Spent
  BY DEF Move, Spent
<1>3. UNCHANGED <<memory, isInitialized, memoryFile, known, users, batch, healthFactors, infos,
                  amount, plan, outcome, mined, script, bot, pc, trial, sentenced>>
  BY DEF Move, memoryVars, workVars, processVars
<1>4. known' \subseteq User
  BY <1>3 DEF MarketOK
<1>5. QED BY <1>1, <1>2, <1>3, <1>4, EnvironmentKeeps

LEMMA IndexKeeps ==
  ASSUME IInv, Index
  PROVE  IInv'
<1>1. known' \subseteq User
  BY DEF Index, MarketOK
<1>2. UNCHANGED <<memory, isInitialized, memoryFile, debt, healthFactor, budget, users, batch,
                  healthFactors, infos, amount, plan, outcome, mined, script, bot, pc, trial,
                  sentenced>>
  BY DEF Index, memoryVars, workVars, processVars
<1>3. debt' \in [User -> 0 .. MaxDebt] /\ healthFactor' \in [User -> HealthFactor] /\ Spent
  BY <1>2 DEF MarketOK, Spent
<1>4. QED BY <1>1, <1>2, <1>3, EnvironmentKeeps

\* Sentences and entries run out together.
LEMMA TickKeeps ==
  ASSUME IInv, Tick
  PROVE  IInv'
<1>1. /\ Elapse /\ sentenced' = OneLess(sentenced)
      /\ UNCHANGED <<known, debt, healthFactor, budget, users, batch, healthFactors, infos,
                     amount, plan, outcome, mined, script, bot, pc, trial>>
  BY DEF Tick, marketVars, workVars, processVars
<1>2. MemoryOK' /\ DOMAIN memoryFile'.memory = DOMAIN memoryFile.memory
  BY <1>1, ElapseKeeps
<1>3. /\ sentenced' \in [User -> Nat]
      /\ \A u \in User : sentenced'[u] = IF sentenced[u] > 0 THEN sentenced[u] - 1 ELSE 0
  BY <1>1 DEF MarketOK, OneLess
<1>4. MarketOK' /\ ProcessOK' /\ WorkOK'
  BY <1>1, <1>3 DEF MarketOK, ProcessOK, WorkOK
<1>5. PlaceOK' /\ OnceOK'
  BY <1>1 DEF PlaceOK, OnceOK
<1>6. ASSUME NEW e, NEW d \in Nat, e \in Entries(d), Keeps(e), NEW u \in User, sentenced'[u] > 0
      PROVE  u \in DOMAIN OneLess(e) /\ OneLess(e)[u] >= sentenced'[u]
  <2>1. sentenced[u] \in Nat /\ sentenced[u] > 0 /\ sentenced'[u] = sentenced[u] - 1
    BY <1>3, <1>6 DEF MarketOK
  <2>2. u \in DOMAIN e /\ e[u] >= sentenced[u] /\ e[u] \in Nat
    BY <1>6, <2>1, EntriesAre DEF Keeps
  <2>3. QED BY <2>1, <2>2 DEF OneLess
<1>7. Recalled'
  <2>1. SUFFICES ASSUME Alone' PROVE Recalled'
    BY DEF Recalled
  <2>2. Alone /\ bot \in Bot /\ bot' = bot /\ bot = firstBot
    BY <1>1, <2>1 DEF Alone, Recalled, ProcessOK
  <2>3. /\ memory'[bot] = OneLess(memory[bot]) /\ isInitialized' = isInitialized
        /\ memoryFile'.status = memoryFile.status
        /\ memoryFile'.memory = OneLess(memoryFile.memory)
    BY <1>1, <2>2 DEF Elapse, MemoryOK
  <2>4. /\ IgnoreDuration[bot] \in Nat /\ memory[bot] \in Entries(IgnoreDuration[bot])
        /\ memoryFile.ignoreDuration \in Nat
        /\ memoryFile.memory \in Entries(memoryFile.ignoreDuration)
    BY <2>2, Parameters DEF MemoryOK
  <2>5. (isInitialized[bot] => Keeps(memory[bot]))'
    BY <1>6, <2>2, <2>3, <2>4 DEF Recalled, Keeps
  <2>6. (memoryFile.status = "whole" => Keeps(memoryFile.memory))'
    BY <1>6, <2>2, <2>3, <2>4 DEF Recalled, Keeps
  <2>7. (memoryFile.status = "absent" => \A u \in User : sentenced[u] = 0)'
    BY <1>3, <2>2, <2>3 DEF Recalled
  <2>8. (bot = firstBot)'
    BY <1>1, <2>2 DEF firstBot
  <2>9. QED BY <2>5, <2>6, <2>7, <2>8 DEF Recalled
<1>8. Spared'
  <2>1. /\ \A i \in DOMAIN users : users[i] \in User
        /\ \A i \in DOMAIN batch : batch[i] \in User
        /\ \A i \in DOMAIN infos : infos[i].userAddress \in User
    BY InfosAre DEF WorkOK
  <2>2. QED BY <1>1, <1>3, <2>1 DEF Spared, Alone
<1>9. ReportedTruly'
  BY <1>1, <1>2 DEF ReportedTruly, user
<1>10. QED BY <1>2, <1>4, <1>5, <1>7, <1>8, <1>9

LEMMA CrashKeeps ==
  ASSUME IInv, Crash
  PROVE  IInv'
BY DieKeeps DEF Crash, Spent

-------------------------------------------------------------------------------
(* The theorems. *)

LEMMA InitHolds == Init => IInv
<1> SUFFICES ASSUME Init PROVE IInv
  OBVIOUS
<1>1. MemoryOK
  <2>1. \A b \in Bot : NoEntries \in Entries(IgnoreDuration[b]) /\ IgnoreDuration[b] \in Nat
    BY NothingKept, Parameters
  <2>2. NoEntries \in Entries(0)
    BY NothingKept
  <2>3. CASE memoryFile = AbsentFile
    BY <2>1, <2>2, <2>3 DEF Init, MemoryOK, AbsentFile
  <2>4. CASE \E b \in Bot : memoryFile = FileOf(b, NoEntries)
    BY <2>1, <2>4 DEF Init, MemoryOK, FileOf
  <2>5. QED BY <2>3, <2>4 DEF Init
<1>2. MarketOK
  BY Parameters DEF Init, MarketOK
<1>3. ProcessOK
  BY Parameters DEF Init, ProcessOK, Place, firstBot
<1>4. WorkOK /\ PlaceOK
  BY DEF Init, WorkOK, PlaceOK, Handling
<1>5. OnceOK
  BY DEF Init, OnceOK, IsInjective
<1>6. Recalled
  BY DEF Init, Recalled, Keeps
<1>7. Spared /\ ReportedTruly
  BY DEF Init, Spared, Selected, Handling, ReportedTruly
<1>8. QED BY <1>1, <1>2, <1>3, <1>4, <1>5, <1>6, <1>7

LEMMA ProcessKeeps ==
  ASSUME IInv, Process
  PROVE  IInv'
<1>1. CASE runOdosBot \/ runCurveBot \/ runUniswapV3Bot
  BY <1>1, OdosBotKeeps, CurveBotKeeps, UniswapV3BotKeeps
<1>2. CASE odosMain
  BY <1>2, LoopKeeps, Parameters DEF odosMain, firstBot
<1>3. CASE curveMain
  BY <1>3, LoopKeeps, Parameters DEF curveMain, firstBot
<1>4. CASE uniswapV3Main
  BY <1>4, LoopKeeps, Parameters DEF uniswapV3Main, firstBot
<1>5. CASE odosSpecificUsers
  BY <1>5, SpecificUsersKeep, Parameters DEF odosSpecificUsers, OneShot
<1>6. CASE curveSpecificUsers
  BY <1>6, SpecificUsersKeep, Parameters DEF curveSpecificUsers, OneShot
<1>7. CASE uniswapV3SpecificUsers
  BY <1>7, SpecificUsersKeep, Parameters DEF uniswapV3SpecificUsers, OneShot
<1>8. QED BY <1>1, <1>2, <1>3, <1>4, <1>5, <1>6, <1>7, ComboKeeps, RestartKeeps DEF Process

LEMMA StepHolds == IInv /\ [Next]_vars => IInv'
<1> SUFFICES ASSUME IInv, [Next]_vars PROVE IInv'
  OBVIOUS
<1>1. CASE Process
  BY <1>1, ProcessKeeps
<1>2. CASE Move \/ Index \/ Tick \/ Crash
  BY <1>2, MoveKeeps, IndexKeeps, TickKeeps, CrashKeeps
<1>3. CASE UNCHANGED vars
  <2>1. /\ UNCHANGED <<memory, isInitialized, memoryFile, users, batch, healthFactors, infos,
                       amount, plan, outcome, mined, script, bot, pc, trial, sentenced>>
        /\ UNCHANGED <<known, debt, healthFactor, budget>>
    BY <1>3 DEF vars, memoryVars, marketVars, workVars, processVars
  <2>2. QED BY <2>1, EnvironmentKeeps DEF MarketOK, Spent
<1>4. QED BY <1>1, <1>2, <1>3 DEF Next

LEMMA InvariantHolds == Spec => []IInv
BY InitHolds, StepHolds, PTL DEF Spec

LEMMA InvariantTypes == IInv => TypeOK
BY DEF MemoryOK, MarketOK, ProcessOK, WorkOK, PlaceOK, TypeOK, Info, Handling

(* The memories, the market, the lists and the place of the process are what   *)
(* they should be; a liquidation is only performed with calls left to make and *)
(* something to repay.                                                         *)
THEOREM BotTypes == Spec => []TypeOK
BY InvariantHolds, InvariantTypes, PTL

(* What a user's state file says of a liquidation is so, whatever failed or    *)
(* died: success, that it was mined; failure, that the user is put away.       *)
THEOREM ReportsTrue == Spec => []ReportedTruly
<1>1. IInv => ReportedTruly
  OBVIOUS
<1>2. QED BY <1>1, InvariantHolds, PTL

LEMMA OnceMeansOnce == IInv => OncePerRun
<1> SUFFICES ASSUME IInv PROVE OncePerRun
  OBVIOUS
<1>1. users \in Seq(User) /\ batch \in Seq(User) /\ infos \in Seq(Info)
  BY DEF WorkOK
<1>2. /\ infoUsers \in Seq(User) /\ DOMAIN infoUsers = DOMAIN infos
      /\ \A i \in DOMAIN infos : infoUsers[i] = infos[i].userAddress
  <2>1. Len(infos) \in Nat /\ DOMAIN infos = 1 .. Len(infos)
    BY <1>1
  <2>2. infoUsers \in [1 .. Len(infos) -> User]
    BY <2>1, InfosAre DEF infoUsers
  <2>3. QED BY <2>1, <2>2 DEF infoUsers
<1>3. IsInjective(infoUsers)
  BY <1>2 DEF OnceOK, IsInjective
<1>4. users \o batch \in Seq(User) /\ IsInjective(users \o batch)
  BY <1>1, JoinedInjective, Joined DEF OnceOK
<1>5. \A i \in DOMAIN (users \o batch), j \in DOMAIN infoUsers :
        (users \o batch)[i] # infoUsers[j]
  <2>1. CASE infos = <<>>
    BY <2>1, <1>2
  <2>2. CASE batch = <<>>
    <3>1. users \o batch = users
      BY <1>1, <2>2
    <3>2. QED BY <3>1, <1>2 DEF OnceOK
  <2>3. QED BY <2>1, <2>2 DEF PlaceOK, Handling
<1>6. QED BY <1>2, <1>3, <1>4, <1>5, JoinedInjective DEF OncePerRun

(* In a run of any bot or list, nobody is handled twice: not because accounts  *)
(* are indexed between the pages, nor because of the shuffle, the batches, or  *)
(* health factors matched with the wrong users.                                *)
THEOREM HandledOnce == Spec => []OncePerRun
BY InvariantHolds, OnceMeansOnce, PTL

\* From "users", a bot goes on to balances only with a user to handle.
LEMMA FromUsers ==
  ASSUME IInv, Next, pc = "users", pc' = "balances"
  PROVE  infos # <<>>
<1>1. ASSUME NEW b, nextUser(b) PROVE infos # <<>>
  BY <1>1 DEF nextUser
<1>2. \E b \in Bot : nextUser(b)
  <2>1. ~(Move \/ Index \/ Tick \/ Crash \/ restart)
    BY DEF Move, Index, Tick, Crash, Die, restart, processVars
  <2>2. ~(odosMain \/ curveMain \/ uniswapV3Main \/ comboMain)
    BY DEF odosMain, curveMain, uniswapV3Main, loop, comboMain, runOdosTrials, runCurveTrial,
           Start, Rest
  <2>3. ~(odosSpecificUsers \/ curveSpecificUsers \/ uniswapV3SpecificUsers)
    BY DEF odosSpecificUsers, curveSpecificUsers, uniswapV3SpecificUsers,
           liquidateSpecificUsers
  <2>4. ASSUME NEW b
        PROVE  /\ \A found : ~setUp(b, found)
               /\ ~fetchPage(b) /\ ~filterAndShuffle(b) /\ ~nextBatch(b)
               /\ \A awaited : ~readHealthFactor(b, awaited)
               /\ ~pairHealthFactors(b) /\ ~readBalances(b)
               /\ \A calls : ~chooseAmount(b, calls)
               /\ \A name : ~call(b, name) /\ ~findRoute(b, name) /\ ~sendLiquidation(b, name)
               /\ ~putAway(b) /\ ~saveUserState(b)
    <3>1. \A found, awaited : ~setUp(b, found) /\ ~readHealthFactor(b, awaited)
      BY DEF setUp, readHealthFactor
    <3>2. ~fetchPage(b) /\ ~filterAndShuffle(b) /\ ~nextBatch(b) /\ ~pairHealthFactors(b)
      BY DEF fetchPage, filterAndShuffle, nextBatch, pairHealthFactors
    <3>3. ~readBalances(b) /\ ~putAway(b) /\ ~saveUserState(b)
      BY DEF readBalances, putAway, saveUserState
    <3>4. \A calls : ~chooseAmount(b, calls)
      BY DEF chooseAmount
    <3>5. \A name : ~call(b, name) /\ ~findRoute(b, name) /\ ~sendLiquidation(b, name)
      BY DEF call, findRoute, sendLiquidation
    <3>6. QED BY <3>1, <3>2, <3>3, <3>4, <3>5
  <2>5. CASE runOdosBot
    BY <2>4, <2>5, Parameters
    DEF runOdosBot, getAllOdosUserAddresses, odosLiquidatableUserInfos, runOdosBotBatch,
        getOdosLiquidationParams, getOdosUnderlyingAsset, getOdosSwapQuote,
        getAssembledQuote, executeFlashMintLiquidation, executeFlashLoanLiquidation
  <2>6. CASE runCurveBot
    BY <2>4, <2>6, Parameters
    DEF runCurveBot, getAllCurveUserAddresses, curveLiquidatableUserInfos, runCurveBotBatch,
        getCurveLiquidationParams, getCurveUnderlyingAsset,
        performCurveLiquidationImplementation
  <2>7. CASE runUniswapV3Bot
    BY <2>4, <2>7, Parameters
    DEF runUniswapV3Bot, getAllUniswapV3UserAddresses, uniswapV3LiquidatableUserInfos,
        runUniswapV3BotBatch, getUniswapV3LiquidationParams, getUniswapV3SwapPath
  <2>8. QED BY <2>1, <2>2, <2>3, <2>5, <2>6, <2>7 DEF Next, Process
<1>3. QED BY <1>1, <1>2

LEMMA IgnoredStep ==
  IInv /\ [Next]_vars =>
    [pc = "users" /\ pc' = "balances" /\ script \notin OneShot \cup {"combo/run"}
       => sentenced[user] = 0]_vars
<1> SUFFICES ASSUME IInv, Next, pc = "users", pc' = "balances",
                    script \notin OneShot \cup {"combo/run"}
             PROVE  sentenced[user] = 0
  OBVIOUS
<1>1. infos # <<>>
  BY FromUsers
<1>2. 1 \in DOMAIN infos /\ user = infos[1].userAddress
  BY <1>1, HeadAndTail DEF user, WorkOK
<1>3. QED BY <1>2 DEF Spared, Alone, Selected

(* A user put away by a bot that runs alone is not tried again before the time *)
(* is over, whatever dies in between: the sentence is in the file, the file is *)
(* loaded before anybody is picked, and a torn file lets nobody be picked.     *)
THEOREM StaysIgnored == Spec => IgnoredStayIgnored
<1>1. Spec => [][pc = "users" /\ pc' = "balances" /\ script \notin OneShot \cup {"combo/run"}
                   => sentenced[user] = 0]_vars
  BY InvariantHolds, IgnoredStep, PTL DEF Spec
<1>2. QED BY <1>1 DEF IgnoredStayIgnored
===============================================================================
