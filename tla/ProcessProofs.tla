----------------------------- MODULE ProcessProofs ----------------------------
(* Theorems about Deployment and about SlackReporter, the two processes that   *)
(* do not share a state with another.                                          *)
(*                                                                             *)
(* The deployment: for any number of retries and faults, and for any of the    *)
(* networks.  The outline of a script says what is so wherever it stands; that *)
(* it is an outline is an assumption on constants, which TLC evaluates.  Here  *)
(* is shown that what the outline says stays so when commands are killed and   *)
(* run again, transactions are mined late or forgotten, and other scripts of   *)
(* the same sender have theirs pending.                                        *)
(*                                                                             *)
(* The reporter: for any users and health factors.  What the process remembers *)
(* of the users it has nothing new to tell about is what it would read of them *)
(* now.                                                                        *)
EXTENDS Deployment, SlackReporter, FiniteSetTheorems, TLAPS


Standing == status \in {"running", "waiting"}
Here     == Outline[network][script.id][step]

\* The facts that last and hold when the first of a sender's pending
\* transactions, up to the k-th but without it, are mined.
Sure(s, k) ==
  (chain \cup UNION {pending[s][i].adds : i \in 1 .. (k - 1)}) \ Dropped(network)

\* The parts of the invariant.

\* Where the command stands.
ControlOK ==
  /\ network \in Network
  /\ command \in 1 .. (Len(RunBook) + 1) /\ place \in Nat
  /\ status \in {"idle", "between", "running", "waiting", "failed", "done"}
  /\ status # "done" => command \in 1 .. Len(RunBook)
  /\ status = "between" => place > 0
  /\ Standing \/ status = "failed" =>
       /\ script \in Scripts(network) /\ script.id \notin migrations
       /\ step \in 1 .. (Len(body) + 1)
  /\ status \in {"waiting", "failed"} => step \in 1 .. Len(body)

CountsOK ==
  /\ tries \in Nat /\ tries =< Retries + 1
  /\ status # "failed" => tries =< Retries
  /\ crashes \in Nat /\ losses \in Nat /\ crashes + losses =< Faults

\* What is pending was sent by a script of its sender; a command waits for the
\* last of them.
PendingOK ==
  /\ pending \in [Senders -> Seq(Transactions(network))]
  /\ \A s \in Senders : \A k \in 1 .. Len(pending[s]) :
       pending[s][k] \in TransactionsBy(network, s)
WaitingOK ==
  status = "waiting" =>
       /\ now.does \in {"deploy", "await"}
       /\ pending[script.sender] # <<>>
       /\ pending[script.sender][Len(pending[script.sender])] = now

\* The outline holds where the script stands.
Informed ==
  /\ Standing => Here.known \subseteq chain /\ Here.names \subseteq records
  /\ status = "running" /\ Here.clear => pending[script.sender] = <<>>
SentOK ==
  losses = 0 /\ Standing =>
    Here.sent \subseteq Sure(script.sender, Len(pending[script.sender]) + 1)

RecordsOK ==
  /\ zero \subseteq records
  /\ zero \subseteq {"IncentivesProxy"}

\* What an asset points at is fed, and that for good; so it is of what is pending.
FeedsOK ==
  /\ \A f \in chain : Required(f) \subseteq chain \ Dropped(network)
  /\ \A s \in Senders : \A k \in 1 .. Len(pending[s]) :
       RequiredBy(pending[s][k]) \subseteq chain \ Dropped(network)

\* What must come before a pending transaction does, and what it needs is there,
\* or else the transaction is not wanted any more.
OrderOK ==
  losses = 0 => \A s \in Senders : \A k \in 1 .. Len(pending[s]) :
    /\ Preceding(network, pending[s][k]) \subseteq Sure(s, k)
    /\ \A f \in NeedsOf(pending[s][k]) :
         \/ f \in chain
         \/ f \notin Brief /\ pending[s][k].adds \ Dropped(network) \subseteq Sure(s, k)
    /\ NeedsOf(pending[s][k]) \cap Brief # {} => k = 1

HandedOver ==
  losses = 0 /\ FinalOwner \in chain => ControllerGiven \in chain \ Dropped(network)

\* Facts that are brief hold only where a script says so, unless a command was
\* killed or a transaction forgotten.
BriefOK ==
  ~Faulty =>
    /\ ~Standing => Brief \cap chain = {}
    /\ Standing => Brief \cap chain \subseteq Here.brief /\ Here.held \subseteq chain
    /\ \A s \in Senders : \A k \in 1 .. Len(pending[s]) :
         (pending[s][k].adds \cup pending[s][k].drops) \cap Brief # {} =>
           status = "waiting" /\ s = script.sender /\ k = Len(pending[s])

IInv ==
  /\ ControlOK /\ CountsOK /\ PendingOK /\ WaitingOK /\ Informed /\ SentOK /\ RecordsOK /\ FeedsOK
  /\ OrderOK /\ HandedOver /\ MigratedMeansDone /\ BriefOK

-----------------------------------------------------------------------------
(* What the outline of a script says of its steps.                           *)

LEMMA SenderKnown ==
  ASSUME NEW n \in Network, NEW s \in Scripts(n)
  PROVE  s.sender \in Senders /\ s # NoScript /\ SoundOutline(n, s, Outline[n][s.id])
BY OutlineAssumption DEF OutlineAssumption

LEMMA OutlineShape ==
  ASSUME NEW n \in Network, NEW s \in Scripts(n)
  PROVE  /\ Len(s.body) \in Nat
         /\ \A k \in 1 .. (Len(s.body) + 1) :
              /\ (Outline[n][s.id][k].known \cup Outline[n][s.id][k].sent)
                   \cap Dropped(n) = {}
              /\ Outline[n][s.id][k].held \subseteq Brief
         /\ Follows(Outline[n][s.id][1], Nothing)
         /\ Outline[n][s.id][Len(s.body) + 1].brief = {}
<1> DEFINE o == Outline[n][s.id]
<1>1. /\ s.body \in Seq(ToSet(s.body)) /\ o \in Seq(ToSet(o))
      /\ Len(o) = Len(s.body) + 1
      /\ \A a \in ToSet(o) :
           (a.known \union a.sent) \intersect Dropped(n) = {} /\ a.held \subseteq Brief
      /\ Follows(o[1], Nothing) /\ o[Len(o)].brief = {}
  BY SenderKnown DEF SoundOutline
<1>2. Len(s.body) \in Nat
  BY <1>1
<1>3. \A k \in 1 .. (Len(s.body) + 1) : o[k] \in ToSet(o)
  BY <1>1, <1>2 DEF ToSet
<1>4. QED BY <1>1, <1>2, <1>3

LEMMA OutlineSteps ==
  ASSUME NEW n \in Network, NEW s \in Scripts(n), NEW k \in 1 .. Len(s.body)
  PROVE  /\ s.body[k].does \in Steps
         /\ SafeStep(n, s, s.body[k], Outline[n][s.id][k])
         /\ ~Ends(s.body[k]) =>
              Follows(Outline[n][s.id][k + 1],
                      Afterwards(n, s.body[k], Outline[n][s.id][k]))
         /\ Tests(s.body[k]) =>
              /\ s.body[k].length \in 0 .. (Len(s.body) - k)
              /\ Follows(Outline[n][s.id][k + 1 + s.body[k].length],
                         PassedOver(n, s.body[k], Outline[n][s.id][k]))
BY SenderKnown DEF SoundOutline

LEMMA SendingKnown ==
  ASSUME NEW n \in Network, NEW s \in Scripts(n), NEW k \in 1 .. Len(s.body),
         Sends(s.body[k])
  PROVE  s.body[k] \in TransactionsBy(n, s.sender)
<1>1. s.body[k] \in ToSet(s.body)
  <2>1. Len(s.body) \in Nat /\ s.body \in Seq(ToSet(s.body))
    BY SenderKnown, OutlineShape DEF SoundOutline
  <2>2. QED BY <2>1 DEF ToSet
<1>2. <<n, s.sender, s.body[k]>> \in Sendings
  BY <1>1 DEF Sendings
<1>3. QED BY <1>2 DEF TransactionsBy

LEMMA TransactionsKnown ==
  ASSUME NEW n, NEW sender
  PROVE  /\ TransactionsBy(n, sender) \subseteq Transactions(n)
         /\ \A t \in Transactions(n) : t.drops \subseteq Dropped(n)
<1>1. TransactionsBy(n, sender) \subseteq Transactions(n)
  BY DEF TransactionsBy, Transactions
<1>2. \A t \in Transactions(n) : t.drops \subseteq Dropped(n)
  BY DEF Dropped
<1>3. QED BY <1>1, <1>2

\* A transaction is a step of a script of its sender, where the outline allows it.
LEMMA SendingSafe ==
  ASSUME NEW n \in Network, NEW sender, NEW t \in TransactionsBy(n, sender)
  PROVE  \E s \in Scripts(n) : \E k \in 1 .. Len(s.body) :
           /\ s.sender = sender /\ t = s.body[k] /\ Sends(t)
           /\ SafeTransaction(n, s, t, Outline[n][s.id][k])
<1>1. PICK x \in Sendings : x[1] = n /\ x[2] = sender /\ x[3] = t
  BY DEF TransactionsBy
<1>2. PICK m \in Network : \E s \in Scripts(m) : \E u \in ToSet(s.body) :
        Sends(u) /\ x = <<m, s.sender, u>>
  BY DEF Sendings
<1>3. m = n
  BY <1>1, <1>2
<1>4. PICK s \in Scripts(n) : \E u \in ToSet(s.body) :
       Sends(u) /\ x = <<n, s.sender, u>>
  BY <1>2, <1>3
<1>5. s.sender = sender /\ t \in ToSet(s.body) /\ Sends(t)
  BY <1>1, <1>4
<1>6. PICK k \in 1 .. Len(s.body) : t = s.body[k]
  <2>1. Len(s.body) \in Nat /\ s.body \in Seq(ToSet(s.body))
    BY SenderKnown, OutlineShape DEF SoundOutline
  <2>2. QED BY <1>5, <2>1 DEF ToSet
<1>7. SafeTransaction(n, s, t, Outline[n][s.id][k])
  BY <1>5, <1>6, OutlineSteps DEF SafeStep
<1>8. QED BY <1>5, <1>6, <1>7

(* What is so of any transaction, whenever it is mined.                      *)
LEMMA TransactionFacts ==
  ASSUME NEW n \in Network, NEW sender \in Senders, NEW t \in TransactionsBy(n, sender)
  PROVE  /\ Preceding(n, t) \cap Dropped(n) = {}
         /\ \A f \in t.bars : t.adds \ Dropped(n) \subseteq {f}
         /\ (NeedsOf(t) \cup t.drops) \cap Brief # {} => sender = "deployer"
         /\ t.does # "await" => (t.adds \cup t.drops) \cap Brief = {}
         /\ t.does = "deploy" => t.bars = {} /\ t.drops = {}
         /\ t.does \in {"deploy", "send", "await"}
<1>1. PICK s \in Scripts(n) : \E k \in 1 .. Len(s.body) :
        /\ s.sender = sender /\ t = s.body[k] /\ Sends(t)
        /\ SafeTransaction(n, s, t, Outline[n][s.id][k])
  BY SendingSafe
<1>2. PICK k \in 1 .. Len(s.body) :
        t = s.body[k] /\ Sends(t) /\ SafeTransaction(n, s, t, Outline[n][s.id][k])
  BY <1>1
<1>3. k \in 1 .. (Len(s.body) + 1)
  BY <1>2, OutlineShape
<1>4. Preceding(n, t) \cap Dropped(n) = {}
  BY <1>2, <1>3, OutlineShape DEF SafeTransaction
<1>5. QED BY <1>1, <1>2, <1>4 DEF SafeTransaction, Sends

(* What follows a step, or the steps passed over, part by part.              *)
LEMMA AfterFields ==
  ASSUME NEW n, NEW t, NEW a, NEW b, Follows(b, Afterwards(n, t, a))
  PROVE  /\ b.known \subseteq a.known \cup Learnt(n, t)
         /\ b.names \subseteq a.names \cup NamesAfter(t)
         /\ b.sent \subseteq a.sent \cup Learnt(n, t)
              \cup (IF t.does = "send" THEN t.adds \ Dropped(n) ELSE {})
         /\ b.clear => t.does = "await" \/ (t.does # "send" /\ a.clear)
         /\ b.held \subseteq BriefAfter(t, a.held)
         /\ BriefAfter(t, a.brief) \subseteq b.brief
BY DEF Follows, Afterwards, Assertion

LEMMA PassedFields ==
  ASSUME NEW n, NEW t, NEW a, NEW b, Follows(b, PassedOver(n, t, a))
  PROVE  /\ b.known \subseteq a.known
              \cup (IF t.does = "unless" THEN t.needs \ Dropped(n) ELSE {})
         /\ b.names \subseteq a.names
              \cup (IF t.does = "unlessSaved" THEN t.needs ELSE {})
         /\ b.sent \subseteq a.sent
              \cup (IF t.does = "unless" THEN t.needs \ Dropped(n) ELSE {})
         /\ b.clear => a.clear
         /\ b.held \subseteq a.held
         /\ a.brief \subseteq b.brief
BY DEF Follows, PassedOver, Assertion

LEMMA NothingFields ==
  ASSUME NEW b, Follows(b, Nothing)
  PROVE  b.known = {} /\ b.names = {} /\ b.sent = {} /\ b.held = {} /\ ~b.clear
BY DEF Follows, Nothing, Assertion

-----------------------------------------------------------------------------
(* Parts of the state that a step leaves alone.                              *)

LEMMA WorldKept ==
  ASSUME PendingOK, FeedsOK, OrderOK, HandedOver,
         UNCHANGED <<network, chain, pending, losses>>
  PROVE  PendingOK' /\ FeedsOK' /\ OrderOK' /\ HandedOver'
<1>1. PendingOK' /\ FeedsOK' /\ HandedOver'
  BY DEF PendingOK, FeedsOK, HandedOver
<1>2. \A s, k : Sure(s, k)' = Sure(s, k)
  BY DEF Sure
<1>3. OrderOK'
  BY <1>2 DEF OrderOK
<1>4. QED BY <1>1, <1>3

LEMMA EvidenceKept ==
  ASSUME MigratedMeansDone, migrations' \subseteq migrations, records \subseteq records',
         UNCHANGED <<network, chain, pending, losses>>
  PROVE  MigratedMeansDone'
BY DEF MigratedMeansDone, OnTheWay

(* A script goes on by one step that sends nothing.                          *)
LEMMA GoesOn ==
  ASSUME IInv, status = "running", step \in 1 .. Len(body), step' = step + 1,
         now.does \notin {"throw", "return", "send", "await"},
         Learnt(network, now) \subseteq chain, NamesAfter(now) \subseteq records',
         records \subseteq records', RecordsOK',
         UNCHANGED <<network, command, place, script, status, tries, migrations, chain,
                     pending, crashes, losses>>
  PROVE  IInv'
<1> DEFINE a == Outline[network][script.id][step]
           b == Outline[network][script.id][step + 1]
<1>1. script \in Scripts(network) /\ network \in Network /\ Len(body) \in Nat
  BY OutlineShape DEF IInv, ControlOK, Standing, body
<1>2. Follows(b, Afterwards(network, now, a))
  BY <1>1, OutlineSteps DEF body, now, Ends
<1>3. /\ b.known \subseteq a.known \cup Learnt(network, now)
      /\ b.names \subseteq a.names \cup NamesAfter(now)
      /\ b.sent \subseteq a.sent \cup Learnt(network, now)
      /\ b.clear => a.clear
      /\ b.held \subseteq a.held
      /\ a.brief \subseteq b.brief
  BY <1>2, AfterFields DEF BriefAfter
<1>4. Here = a /\ Here' = b /\ Standing /\ Standing' /\ status' = "running"
  BY DEF Here, Standing
<1>5. ControlOK' /\ CountsOK' /\ WaitingOK'
  BY <1>1, <1>4 DEF IInv, ControlOK, CountsOK, WaitingOK, body
<1>6. Informed'
  BY <1>3, <1>4 DEF IInv, Informed
<1>7. SentOK'
  <2>1. b.sent \cap Dropped(network) = {}
    BY <1>1, OutlineShape DEF body
  <2>2. \A s, k : Sure(s, k)' = Sure(s, k)
    BY DEF Sure
  <2>3. Learnt(network, now) \ Dropped(network) \subseteq Sure(script.sender, Len(pending[script.sender]) + 1)
    BY DEF Sure
  <2>4. QED BY <1>3, <1>4, <2>1, <2>2, <2>3 DEF IInv, SentOK
<1>8. BriefOK'
  BY <1>3, <1>4 DEF IInv, BriefOK, Faulty
<1>9. PendingOK' /\ FeedsOK' /\ OrderOK' /\ HandedOver' /\ MigratedMeansDone'
  BY WorldKept, EvidenceKept DEF IInv
<1>10. QED BY <1>5, <1>6, <1>7, <1>8, <1>9 DEF IInv

(* Nothing that runs: the script has ended or thrown where nothing is brief, *)
(* or its command was killed.                                                *)
LEMMA Stands ==
  ASSUME IInv, ~Standing', status # "waiting" \/ Faulty',
         Standing => Here.brief = {} \/ Faulty',
         Faulty => Faulty', UNCHANGED <<network, chain, pending, losses>>
  PROVE  Informed' /\ SentOK' /\ WaitingOK' /\ BriefOK'
<1>1. Informed' /\ SentOK' /\ WaitingOK'
  BY DEF Informed, SentOK, WaitingOK, Standing
<1>2. BriefOK'
  BY DEF IInv, BriefOK
<1>3. QED BY <1>1, <1>2

LEMMA ThrowsIInv ==
  ASSUME IInv, status = "running", step \in 1 .. Len(body), Throws,
         Here.brief = {} \/ Faulty,
         UNCHANGED <<network, migrations, records, zero, chain, pending, crashes, losses>>
  PROVE  IInv'
<1>1. ControlOK' /\ CountsOK'
  BY DeploymentAssumption DEF IInv, ControlOK, CountsOK, Standing, Throws, body, DeploymentAssumption
<1>2. status' = "failed" /\ ~Standing'
  BY DEF Throws, Standing
<1>3. Informed' /\ SentOK' /\ WaitingOK' /\ BriefOK'
  <2>1. Faulty => Faulty'
    BY DEF Faulty
  <2>2. QED BY <1>2, <2>1, Stands
<1>4. RecordsOK' /\ MigratedMeansDone'
  BY EvidenceKept DEF IInv, RecordsOK
<1>5. PendingOK' /\ FeedsOK' /\ OrderOK' /\ HandedOver'
  BY WorldKept DEF IInv
<1>6. QED BY <1>1, <1>3, <1>4, <1>5 DEF IInv

LEMMA InitIInv == Init => IInv
<1> SUFFICES ASSUME Init PROVE IInv
  OBVIOUS
<1>1. Len(RunBook) \in Nat /\ 1 \in 1 .. Len(RunBook)
  BY OutlineAssumption DEF OutlineAssumption
<1>2. ControlOK /\ CountsOK /\ WaitingOK
  BY <1>1, DeploymentAssumption
     DEF Init, ControlOK, CountsOK, WaitingOK, Standing, DeploymentAssumption
<1>3. \A s \in Senders : pending[s] = <<>> /\ Len(pending[s]) = 0
  BY DEF Init
<1>4. PendingOK /\ FeedsOK /\ OrderOK
  <2>1. <<>> \in Seq(Transactions(network))
    OBVIOUS
  <2>2. QED BY <1>3, <2>1 DEF Init, PendingOK, FeedsOK, OrderOK
<1>5. Informed /\ SentOK /\ BriefOK /\ RecordsOK /\ HandedOver /\ MigratedMeansDone
  BY <1>3 DEF Init, Informed, SentOK, BriefOK, RecordsOK, HandedOver, MigratedMeansDone,
              Standing
<1>6. QED BY <1>2, <1>4, <1>5 DEF IInv

LEMMA StartIInv == IInv /\ start => IInv'
<1> SUFFICES ASSUME IInv, start PROVE IInv'
  OBVIOUS
<1>1. status = "idle" /\ status' = "between" /\ ~Standing /\ ~Standing'
  BY DEF start, GoTo, Standing
<1>2. ControlOK' /\ CountsOK'
  BY <1>1 DEF IInv, ControlOK, CountsOK, start, GoTo
<1>3. migrations' \subseteq migrations
  BY DEF start
<1>4. Informed' /\ SentOK' /\ WaitingOK' /\ BriefOK'
  BY <1>1, Stands DEF start, Faulty
<1>5. RecordsOK' /\ MigratedMeansDone'
  BY <1>3, EvidenceKept DEF IInv, RecordsOK, start
<1>6. PendingOK' /\ FeedsOK' /\ OrderOK' /\ HandedOver'
  BY WorldKept DEF IInv, start
<1>7. QED BY <1>2, <1>4, <1>5, <1>6 DEF IInv

(* A command that has ended, or given up, gives way to the next one.         *)
LEMMA NextCommandIInv ==
  ASSUME IInv, status \in {"between", "failed"}, NextCommand,
         UNCHANGED <<network, migrations, records, zero, chain, pending, crashes, losses>>
  PROVE  IInv'
<1>1. ~Standing /\ ~Standing' /\ status' \in {"idle", "done"}
  BY DEF NextCommand, Standing
<1>2. Len(RunBook) \in Nat
  BY OutlineAssumption DEF OutlineAssumption
<1>3. ControlOK' /\ CountsOK'
  BY <1>1, <1>2, DeploymentAssumption
     DEF IInv, ControlOK, CountsOK, NextCommand, BeforeScripts, DeploymentAssumption
<1>4. Informed' /\ SentOK' /\ WaitingOK' /\ BriefOK'
  BY <1>1, Stands DEF Faulty
<1>5. RecordsOK' /\ MigratedMeansDone'
  BY EvidenceKept DEF IInv, RecordsOK
<1>6. PendingOK' /\ FeedsOK' /\ OrderOK' /\ HandedOver'
  BY WorldKept DEF IInv
<1>7. QED BY <1>3, <1>4, <1>5, <1>6 DEF IInv

LEMMA NextIInv == IInv /\ next => IInv'
<1> SUFFICES ASSUME IInv, next PROVE IInv'
  OBVIOUS
<1> DEFINE queue == Queues[network][command]
<1>1. CASE Unmigrated(queue, place) = {}
  BY <1>1, NextCommandIInv DEF next
<1>2. CASE Unmigrated(queue, place) # {}
  <2>1. PICK k \in Unmigrated(queue, place) :
          /\ place' = k /\ script' = queue[k] /\ step' = 1
          /\ status' = "running" /\ UNCHANGED <<command, tries>>
    BY <1>2 DEF next
  <2>2. /\ status = "between" /\ ~Standing /\ Standing'
        /\ UNCHANGED <<network, migrations, records, zero, chain, pending, crashes, losses>>
    BY <2>1 DEF next, Standing
  <2>3. network \in Network /\ command \in 1 .. Len(RunBook) /\ place \in Nat \ {0}
    BY <2>2 DEF IInv, ControlOK
  <2>4. queue \in ToSet(Queues[network]) /\ queue \in Seq(ToSet(queue))
    <3>1. /\ Queues[network] \in Seq(ToSet(Queues[network]))
          /\ Len(Queues[network]) = Len(RunBook)
          /\ \A q \in ToSet(Queues[network]) : q \in Seq(ToSet(q))
      BY <2>3, OutlineAssumption DEF OutlineAssumption
    <3>2. DOMAIN Queues[network] = 1 .. Len(RunBook)
      BY <3>1
    <3>3. queue \in ToSet(Queues[network])
      BY <2>3, <3>2 DEF ToSet
    <3>4. QED BY <3>1, <3>3
  <2>5. k \in 1 .. Len(queue) /\ k \in Nat /\ queue[k].id \notin migrations
    BY <2>3, <2>4 DEF Unmigrated
  <2>6. script' \in Scripts(network)
    <3>1. DOMAIN queue = 1 .. Len(queue)
      BY <2>4
    <3>2. queue[k] \in ToSet(queue)
      BY <2>5, <3>1 DEF ToSet
    <3>3. QED BY <2>1, <2>4, <3>2 DEF Scripts
  <2>7. ControlOK' /\ CountsOK' /\ WaitingOK'
    <3>1. Len(script'.body) \in Nat
      BY <2>3, <2>6, OutlineShape
    <3>2. step' \in 1 .. (Len(script'.body) + 1) /\ status' = "running"
      BY <2>1, <3>1
    <3>3. ControlOK'
      BY <2>1, <2>2, <2>3, <2>5, <2>6, <3>2 DEF IInv, ControlOK, body
    <3>4. QED BY <2>1, <2>2, <3>2, <3>3 DEF IInv, CountsOK, WaitingOK
  <2>8. /\ Here'.known = {} /\ Here'.names = {} /\ Here'.sent = {} /\ Here'.held = {}
        /\ ~Here'.clear
    <3>1. Follows(Outline[network][script'.id][1], Nothing)
      BY <2>3, <2>6, OutlineShape
    <3>2. Here' = Outline[network][script'.id][1]
      BY <2>1, <2>2 DEF Here
    <3>3. QED BY <3>1, <3>2, NothingFields
  <2>9. Informed' /\ SentOK'
    BY <2>8 DEF Informed, SentOK
  <2>10. BriefOK'
    BY <2>2, <2>8 DEF IInv, BriefOK, Faulty
  <2>11. RecordsOK' /\ MigratedMeansDone'
    BY <2>2, EvidenceKept DEF IInv, RecordsOK
  <2>12. PendingOK' /\ FeedsOK' /\ OrderOK' /\ HandedOver'
    BY <2>2, WorldKept DEF IInv
  <2>13. QED BY <2>7, <2>9, <2>10, <2>11, <2>12 DEF IInv
<1>3. QED BY <1>1, <1>2

-----------------------------------------------------------------------------
(* The steps that send nothing.                                              *)

LEMMA RunningStep ==
  ASSUME IInv, NEW does, Running(does)
  PROVE  /\ status = "running" /\ Standing /\ step \in 1 .. Len(body) /\ now.does = does
         /\ network \in Network /\ script \in Scripts(network) /\ Len(body) \in Nat
<1>1. status = "running" /\ step =< Len(body) /\ now.does = does /\ Standing
  BY DEF Running, Standing
<1>2. /\ network \in Network /\ script \in Scripts(network)
      /\ step \in 1 .. (Len(body) + 1)
  BY <1>1 DEF IInv, ControlOK
<1>3. Len(body) \in Nat
  BY <1>2, OutlineShape DEF body
<1>4. QED BY <1>1, <1>2, <1>3

\* Where a script may throw or end, nothing is brief.
LEMMA NothingBrief ==
  ASSUME IInv, status = "running", step \in 1 .. Len(body),
         ~Tests(now), now.does # "await"
  PROVE  Here.brief = {}
<1>1. network \in Network /\ script \in Scripts(network)
  BY DEF IInv, ControlOK, Standing
<1>2. SafeStep(network, script, now, Here)
  BY <1>1, OutlineSteps DEF now, body, Here
<1>3. QED BY <1>2 DEF SafeStep

LEMMA GetIInv == IInv /\ get => IInv'
<1> SUFFICES ASSUME IInv, get PROVE IInv'
  OBVIOUS
<1>1. Running("get") /\ UNCHANGED <<network, migrations, records, zero, chain, pending,
                                    crashes, losses>>
  BY DEF get
<1>2. status = "running" /\ step \in 1 .. Len(body) /\ now.does = "get"
  BY <1>1, RunningStep
<1>3. CASE now.needs \subseteq records
  <2>1. Learnt(network, now) \subseteq chain /\ NamesAfter(now) \subseteq records'
    BY <1>1, <1>2, <1>3 DEF Learnt, NamesAfter, Mined
  <2>2. RecordsOK'
    BY <1>1 DEF IInv, RecordsOK
  <2>3. QED BY <1>1, <1>2, <1>3, <2>1, <2>2, GoesOn DEF get, Advance
<1>4. CASE ~(now.needs \subseteq records)
  BY <1>1, <1>2, <1>4, NothingBrief, ThrowsIInv DEF Tests, get
<1>5. QED BY <1>3, <1>4

LEMMA CheckIInv == IInv /\ check => IInv'
<1> SUFFICES ASSUME IInv, check PROVE IInv'
  OBVIOUS
<1>1. Running("check") /\ UNCHANGED <<network, migrations, records, zero, chain, pending,
                                      crashes, losses>>
  BY DEF check
<1>2. status = "running" /\ step \in 1 .. Len(body) /\ now.does = "check"
  BY <1>1, RunningStep
<1>3. CASE now.needs \subseteq chain
  <2>1. Learnt(network, now) \subseteq chain /\ NamesAfter(now) \subseteq records'
    BY <1>1, <1>2, <1>3 DEF Learnt, NamesAfter, Mined
  <2>2. RecordsOK'
    BY <1>1 DEF IInv, RecordsOK
  <2>3. QED BY <1>1, <1>2, <1>3, <2>1, <2>2, GoesOn DEF check, Advance
<1>4. CASE ~(now.needs \subseteq chain)
  BY <1>1, <1>2, <1>4, NothingBrief, ThrowsIInv DEF Tests, check
<1>5. QED BY <1>3, <1>4

LEMMA ThrowIInv == IInv /\ throw => IInv'
<1> SUFFICES ASSUME IInv, throw PROVE IInv'
  OBVIOUS
<1>1. status = "running" /\ step \in 1 .. Len(body) /\ now.does = "throw"
  BY RunningStep DEF throw
<1>2. QED BY <1>1, NothingBrief, ThrowsIInv DEF Tests, throw

\* Behind the steps that a condition passes over.
LEMMA PassesOver ==
  ASSUME IInv, status = "running", step \in 1 .. Len(body), Tests(now),
         now.does = "unless" => now.needs \subseteq chain,
         now.does = "unlessSaved" => now.needs \subseteq records,
         step' = step + (1 + now.length),
         UNCHANGED <<network, command, place, script, status, tries, migrations, records,
                     zero, chain, pending, crashes, losses>>
  PROVE  IInv'
<1> DEFINE a == Outline[network][script.id][step]
           b == Outline[network][script.id][step + 1 + now.length]
<1>1. script \in Scripts(network) /\ network \in Network /\ Len(body) \in Nat
  BY OutlineShape DEF IInv, ControlOK, Standing, body
<1>2. now.length \in 0 .. (Len(body) - step) /\ Follows(b, PassedOver(network, now, a))
  BY <1>1, OutlineSteps DEF body, now
<1>3. /\ b.known \subseteq a.known
           \cup (IF now.does = "unless" THEN now.needs \ Dropped(network) ELSE {})
      /\ b.names \subseteq a.names
           \cup (IF now.does = "unlessSaved" THEN now.needs ELSE {})
      /\ b.sent \subseteq a.sent
           \cup (IF now.does = "unless" THEN now.needs \ Dropped(network) ELSE {})
      /\ b.clear => a.clear
      /\ b.held \subseteq a.held
      /\ a.brief \subseteq b.brief
  BY <1>2, PassedFields
<1>4. step' \in 1 .. (Len(body) + 1) /\ step' = step + 1 + now.length
  BY <1>1, <1>2
<1>5. Here = a /\ Here' = b /\ Standing /\ Standing' /\ status' = "running"
  BY <1>4 DEF Here, Standing
<1>6. ControlOK' /\ CountsOK' /\ WaitingOK' /\ RecordsOK'
  BY <1>4, <1>5 DEF IInv, ControlOK, CountsOK, WaitingOK, RecordsOK, body
<1>7. Informed'
  BY <1>3, <1>5 DEF IInv, Informed
<1>8. SentOK'
  <2>1. \A s, k : Sure(s, k)' = Sure(s, k)
    BY DEF Sure
  <2>2. chain \ Dropped(network) \subseteq Sure(script.sender, Len(pending[script.sender]) + 1)
    BY DEF Sure
  <2>3. QED BY <1>3, <1>5, <2>1, <2>2 DEF IInv, SentOK
<1>9. BriefOK'
  BY <1>3, <1>5 DEF IInv, BriefOK, Faulty
<1>10. PendingOK' /\ FeedsOK' /\ OrderOK' /\ HandedOver' /\ MigratedMeansDone'
  BY WorldKept, EvidenceKept DEF IInv
<1>11. QED BY <1>6, <1>7, <1>8, <1>9, <1>10 DEF IInv

LEMMA ConditionIInv == IInv /\ condition => IInv'
<1> SUFFICES ASSUME IInv, condition PROVE IInv'
  OBVIOUS
<1>1. /\ status = "running" /\ step \in 1 .. Len(body)
      /\ now.does \in Conditions
  BY RunningStep DEF condition
<1>2. UNCHANGED <<network, migrations, records, zero, chain, pending, crashes, losses>>
  BY DEF condition
<1>3. CASE now.needs \subseteq Consulted(now.does)
  <2>1. step' = step + (1 + now.length) /\ UNCHANGED <<command, place, script, status, tries>>
    BY <1>3 DEF condition, Advance
  <2>2. QED BY <1>1, <1>2, <1>3, <2>1, PassesOver DEF Tests, Conditions, Consulted
<1>4. CASE ~(now.needs \subseteq Consulted(now.does))
  <2>1. step' = step + 1 /\ UNCHANGED <<command, place, script, status, tries>>
    BY <1>4 DEF condition, Advance
  <2>2. Learnt(network, now) = {} /\ NamesAfter(now) = {}
    BY <1>1 DEF Learnt, NamesAfter, Mined, Conditions
  <2>3. RecordsOK'
    BY <1>2 DEF IInv, RecordsOK
  <2>4. QED BY <1>1, <1>2, <2>1, <2>2, <2>3, GoesOn DEF Conditions
<1>5. QED BY <1>3, <1>4

\* A proxy read of the provider is there, but for that of the incentives.
LEMMA SaveIInv == IInv /\ save => IInv'
<1> SUFFICES ASSUME IInv, save PROVE IInv'
  OBVIOUS
<1>1. /\ status = "running" /\ step \in 1 .. Len(body) /\ now.does = "save" /\ Standing
      /\ network \in Network /\ script \in Scripts(network)
  BY RunningStep DEF save
<1>2. /\ records' = records \cup now.adds
      /\ zero' = IF now.needs \subseteq chain THEN zero \ now.adds ELSE zero \cup now.adds
      /\ step' = step + 1 /\ UNCHANGED <<command, place, script, status, tries>>
      /\ UNCHANGED <<network, migrations, chain, pending, crashes, losses>>
  BY DEF save, Advance
<1>3. Learnt(network, now) = {} /\ NamesAfter(now) \subseteq records'
  BY <1>1, <1>2 DEF Learnt, NamesAfter, Mined
<1>4. now.needs \subseteq chain \/ now.adds \subseteq {"IncentivesProxy"}
  <2>1. SafeStep(network, script, now, Here)
    BY <1>1, OutlineSteps DEF now, body, Here
  <2>2. Here.known \subseteq chain
    BY <1>1 DEF IInv, Informed
  <2>3. QED BY <1>1, <2>1, <2>2 DEF SafeStep
<1>5. RecordsOK'
  BY <1>2, <1>4 DEF IInv, RecordsOK
<1>6. QED BY <1>1, <1>2, <1>3, <1>5, GoesOn

LEMMA ReuseIInv == IInv /\ reuse => IInv'
<1> SUFFICES ASSUME IInv, reuse PROVE IInv'
  OBVIOUS
<1>1. /\ status = "running" /\ step \in 1 .. Len(body) /\ now.does = "deploy"
      /\ now.needs \subseteq records
  BY RunningStep DEF reuse
<1>2. UNCHANGED <<network, migrations, records, zero, chain, pending, crashes, losses>>
  BY DEF reuse
<1>3. Learnt(network, now) = {} /\ NamesAfter(now) \subseteq records' /\ RecordsOK'
  BY <1>1, <1>2 DEF Learnt, NamesAfter, Mined, IInv, RecordsOK
<1>4. QED BY <1>1, <1>2, <1>3, GoesOn DEF reuse, Advance

LEMMA RefusedIInv == IInv /\ refused => IInv'
<1> SUFFICES ASSUME IInv, refused PROVE IInv'
  OBVIOUS
<1>1. /\ status = "running" /\ step \in 1 .. Len(body) /\ now.does \in {"send", "await"}
      /\ Standing /\ network \in Network /\ script \in Scripts(network)
  BY RunningStep DEF refused
<1>2. CASE now.does = "send"
  BY <1>1, <1>2, NothingBrief, ThrowsIInv DEF Tests, refused
<1>3. CASE now.does = "await"
  <2>1. ASSUME ~Faulty, Here.brief # {}
        PROVE  FALSE
    <3>1. SafeStep(network, script, now, Here)
      BY <1>1, OutlineSteps DEF now, body, Here
    <3>2. now.bars = {} /\ now.needs \subseteq Here.known \cup Here.held
      BY <2>1, <3>1, <1>3 DEF SafeStep, Tests
    <3>3. Here.known \subseteq chain /\ Here.held \subseteq chain
      BY <1>1, <2>1 DEF IInv, Informed, BriefOK
    <3>4. Accepted(now)
      BY <1>3, <3>2, <3>3 DEF Accepted, NeedsOf
    <3>5. QED BY <3>4 DEF refused, Estimated
  <2>2. QED BY <1>1, <2>1, ThrowsIInv DEF refused
<1>4. QED BY <1>1, <1>2, <1>3

LEMMA Handles ==
  ASSUME IInv
  PROVE  \A s \in Senders : Sure(s, Len(pending[s]) + 1) \subseteq chain \cup OnTheWay
<1> SUFFICES ASSUME NEW s \in Senders, NEW f \in Sure(s, Len(pending[s]) + 1), f \notin chain
             PROVE  f \in OnTheWay
  OBVIOUS
<1>1. Len(pending[s]) \in Nat
  BY DEF IInv, PendingOK
<1>2. PICK i \in 1 .. ((Len(pending[s]) + 1) - 1) : f \in pending[s][i].adds
  BY DEF Sure
<1>3. i \in 1 .. Len(pending[s])
  BY <1>1
<1>4. f \in UNION {pending[s][k].adds : k \in 1 .. Len(pending[s])}
  BY <1>2, <1>3
<1>5. QED BY <1>4 DEF OnTheWay

\* A script that ends unrecorded, or is entered in the migrations.
LEMMA ReturnFalseIInv == IInv /\ returnFalse => IInv'
<1> SUFFICES ASSUME IInv, returnFalse PROVE IInv'
  OBVIOUS
<1>1. status = "running" /\ step \in 1 .. Len(body) /\ now.does = "return"
  BY RunningStep DEF returnFalse
<1>2. Here.brief = {}
  BY <1>1, NothingBrief DEF Tests
<1>3. status' = "between" /\ ~Standing'
  BY DEF returnFalse, GoTo, Standing
<1>4. ControlOK' /\ CountsOK'
  BY <1>1, <1>3 DEF IInv, ControlOK, CountsOK, returnFalse, GoTo
<1>5. Informed' /\ SentOK' /\ WaitingOK' /\ BriefOK'
  BY <1>1, <1>2, <1>3, Stands DEF returnFalse, Faulty
<1>6. RecordsOK' /\ MigratedMeansDone'
  BY EvidenceKept DEF IInv, RecordsOK, returnFalse
<1>7. PendingOK' /\ FeedsOK' /\ OrderOK' /\ HandedOver'
  BY WorldKept DEF IInv, returnFalse
<1>8. QED BY <1>4, <1>5, <1>6, <1>7 DEF IInv

LEMMA RecordIInv == IInv /\ record => IInv'
<1> SUFFICES ASSUME IInv, record PROVE IInv'
  OBVIOUS
<1>1. /\ status = "running" /\ step = Len(body) + 1 /\ Standing
      /\ migrations' = migrations \cup {script.id}
      /\ UNCHANGED <<network, records, zero, chain, pending, crashes, losses>>
  BY DEF record, Standing
<1>2. /\ network \in Network /\ script \in Scripts(network) /\ script.sender \in Senders
      /\ Here = Outline[network][script.id][Len(script.body) + 1]
  BY <1>1, SenderKnown DEF IInv, ControlOK, Here, body
<1>3. Here.brief = {}
  BY <1>2, OutlineShape
<1>4. status' = "between" /\ ~Standing'
  BY DEF record, GoTo, Standing
<1>5. ControlOK' /\ CountsOK'
  BY <1>1, <1>4 DEF IInv, ControlOK, CountsOK, record, GoTo
<1>6. Informed' /\ SentOK' /\ WaitingOK' /\ BriefOK'
  BY <1>1, <1>3, <1>4, Stands DEF Faulty
<1>7. MigratedMeansDone'
  <2>1. SUFFICES ASSUME NEW e \in Evidence[network], e.id = script.id
                 PROVE  /\ e.names \subseteq records
                        /\ losses = 0 => e.facts \subseteq chain \cup OnTheWay
    BY <1>1, <2>1 DEF IInv, MigratedMeansDone, OnTheWay
  <2>2. e.names \subseteq Here.names /\ e.facts \subseteq Here.sent
    BY <1>2, <2>1, OutlineAssumption DEF OutlineAssumption
  <2>3. Here.names \subseteq records
    BY <1>1 DEF IInv, Informed
  <2>4. losses = 0 => Here.sent \subseteq Sure(script.sender, Len(pending[script.sender]) + 1)
    BY <1>1 DEF IInv, SentOK
  <2>5. Sure(script.sender, Len(pending[script.sender]) + 1) \subseteq chain \cup OnTheWay
    BY <1>2, Handles
  <2>6. QED BY <2>2, <2>3, <2>4, <2>5
<1>8. RecordsOK'
  BY <1>1 DEF IInv, RecordsOK
<1>9. PendingOK' /\ FeedsOK' /\ OrderOK' /\ HandedOver'
  BY <1>1, WorldKept DEF IInv
<1>10. QED BY <1>5, <1>6, <1>7, <1>8, <1>9 DEF IInv

-----------------------------------------------------------------------------
(* The operator, and what goes wrong.                                        *)

LEMMA RetryIInv == IInv /\ retry => IInv'
<1> SUFFICES ASSUME IInv, retry PROVE IInv'
  OBVIOUS
<1>1. /\ status = "failed" /\ ~Standing
      /\ UNCHANGED <<network, migrations, records, zero, chain, pending, crashes, losses>>
  BY DEF retry, Standing
<1>2. CASE tries > Retries
  BY <1>1, <1>2, NextCommandIInv DEF retry
<1>3. CASE ~(tries > Retries)
  <2>1. status' = "idle" /\ UNCHANGED <<command, tries>> /\ BeforeScripts /\ ~Standing'
    BY <1>3 DEF retry, Standing
  <2>2. ControlOK' /\ CountsOK'
    BY <1>1, <1>3, <2>1, DeploymentAssumption
       DEF IInv, ControlOK, CountsOK, BeforeScripts, DeploymentAssumption
  <2>3. Informed' /\ SentOK' /\ WaitingOK' /\ BriefOK'
    BY <1>1, <2>1, Stands DEF Faulty
  <2>4. RecordsOK' /\ MigratedMeansDone'
    BY <1>1, EvidenceKept DEF IInv, RecordsOK
  <2>5. PendingOK' /\ FeedsOK' /\ OrderOK' /\ HandedOver'
    BY <1>1, WorldKept DEF IInv
  <2>6. QED BY <2>2, <2>3, <2>4, <2>5 DEF IInv
<1>4. QED BY <1>2, <1>3

LEMMA CrashIInv == IInv /\ crash => IInv'
<1> SUFFICES ASSUME IInv, crash PROVE IInv'
  OBVIOUS
<1>1. /\ Standing /\ status' = "idle" /\ ~Standing' /\ crashes' = crashes + 1
      /\ crashes + losses < Faults /\ BeforeScripts
      /\ UNCHANGED <<network, command, tries, migrations, records, zero, chain, pending,
                     losses>>
  BY DEF crash, Standing
<1>2. crashes \in Nat /\ losses \in Nat
  BY DEF IInv, CountsOK
<1>3. Faulty'
  BY <1>1, <1>2 DEF Faulty
<1>4. ControlOK'
  BY <1>1 DEF IInv, ControlOK, BeforeScripts, Standing
<1>5. CountsOK'
  BY <1>1, DeploymentAssumption
     DEF IInv, CountsOK, Standing, DeploymentAssumption
<1>6. Informed' /\ SentOK' /\ WaitingOK' /\ BriefOK'
  BY <1>1, <1>3, Stands
<1>7. RecordsOK' /\ MigratedMeansDone'
  BY <1>1, EvidenceKept DEF IInv, RecordsOK
<1>8. PendingOK' /\ FeedsOK' /\ OrderOK' /\ HandedOver'
  BY <1>1, WorldKept DEF IInv
<1>9. QED BY <1>4, <1>5, <1>6, <1>7, <1>8 DEF IInv

LEMMA LoseIInv == ASSUME NEW s \in Senders PROVE IInv /\ lose(s) => IInv'
<1> SUFFICES ASSUME IInv, lose(s) PROVE IInv'
  OBVIOUS
<1>1. /\ crashes + losses < Faults /\ pending[s] # <<>> /\ losses' = losses + 1
      /\ UNCHANGED <<network, migrations, records, zero, chain, crashes>>
  BY DEF lose
<1>2. PICK k \in {0, Len(pending[s]) - 1} :
        pending' = [pending EXCEPT ![s] = SubSeq(@, 1, k)]
  BY DEF lose
<1>3. /\ pending \in [Senders -> Seq(Transactions(network))]
      /\ \A r \in Senders : \A i \in 1 .. Len(pending[r]) :
           pending[r][i] \in TransactionsBy(network, r)
  BY DEF IInv, PendingOK
<1>4. pending[s] \in Seq(Transactions(network)) /\ Len(pending[s]) \in Nat \ {0}
  BY <1>1, <1>3
<1>5. k \in 0 .. Len(pending[s])
  BY <1>4
<1>6. /\ SubSeq(pending[s], 1, k) \in Seq(Transactions(network))
      /\ Len(SubSeq(pending[s], 1, k)) = k
      /\ \A i \in 1 .. k : SubSeq(pending[s], 1, k)[i] = pending[s][i]
  BY <1>4, <1>5
<1>7. pending'[s] = SubSeq(pending[s], 1, k) /\ \A r \in Senders \ {s} : pending'[r] = pending[r]
  BY <1>2, <1>3
<1>8. \A r \in Senders : \A i \in 1 .. Len(pending'[r]) :
        i \in 1 .. Len(pending[r]) /\ pending'[r][i] = pending[r][i]
  BY <1>4, <1>5, <1>6, <1>7
<1>9. PendingOK'
  <2>1. pending' \in [Senders -> Seq(Transactions(network))]
    BY <1>2, <1>3, <1>6
  <2>2. QED BY <1>1, <1>3, <1>8, <2>1 DEF PendingOK
<1>10. FeedsOK'
  BY <1>1, <1>8 DEF IInv, FeedsOK
<1>11. losses' # 0 /\ Faulty'
  <2>1. crashes \in Nat /\ losses \in Nat
    BY DEF IInv, CountsOK
  <2>2. QED BY <1>1, <2>1 DEF Faulty
<1>12. crashes' \in Nat /\ losses' \in Nat /\ crashes' + losses' =< Faults
  <2>1. crashes \in Nat /\ losses \in Nat
    BY DEF IInv, CountsOK
  <2>2. QED BY <1>1, <2>1, DeploymentAssumption DEF DeploymentAssumption
<1>13. SentOK' /\ OrderOK' /\ HandedOver' /\ BriefOK' /\ RecordsOK'
  BY <1>1, <1>11 DEF SentOK, OrderOK, HandedOver, BriefOK, IInv, RecordsOK
<1>14. MigratedMeansDone'
  BY <1>1, <1>11 DEF IInv, MigratedMeansDone
<1>15. CASE status = "waiting" /\ script.sender = s
  <2>1. status' = "failed" /\ ~Standing' /\ UNCHANGED <<command, place, script, step, tries>>
    BY <1>15 DEF lose, Standing
  <2>2. ControlOK'
    BY <1>1, <1>15, <2>1 DEF IInv, ControlOK, Standing, body
  <2>3. CountsOK'
    <3>1. tries \in Nat /\ tries =< Retries
      BY <1>15 DEF IInv, CountsOK
    <3>2. tries' \in Nat /\ tries' =< Retries + 1 /\ status' = "failed"
      BY <2>1, <3>1, DeploymentAssumption DEF DeploymentAssumption
    <3>3. QED BY <1>12, <3>2 DEF CountsOK
  <2>4. WaitingOK' /\ Informed'
    BY <2>1 DEF WaitingOK, Informed
  <2>5. QED BY <1>9, <1>10, <1>13, <1>14, <2>2, <2>3, <2>4 DEF IInv
<1>16. CASE ~(status = "waiting" /\ script.sender = s)
  <2>1. UNCHANGED <<command, place, script, step, status, tries>>
    BY <1>16 DEF lose, script_
  <2>2. ControlOK'
    BY <1>1, <2>1 DEF IInv, ControlOK, Standing, body
  <2>3. CountsOK'
    BY <1>12, <2>1 DEF IInv, CountsOK
  <2>4. Standing => script.sender \in Senders
    BY SenderKnown DEF IInv, ControlOK
  <2>5. WaitingOK'
    BY <1>7, <1>16, <2>1, <2>4 DEF IInv, WaitingOK, Standing, now, body
  <2>6. Informed'
    <3>1. Here' = Here /\ Standing' = Standing
      BY <1>1, <2>1 DEF Here, Standing
    <3>2. ASSUME status = "running", Here.clear
          PROVE  pending'[script.sender] = <<>>
      <4>1. pending[script.sender] = <<>> /\ script.sender \in Senders
        BY <3>2, <2>4 DEF IInv, Informed, Standing
      <4>2. QED BY <1>1, <1>7, <4>1
    <3>3. QED BY <1>1, <2>1, <3>1, <3>2 DEF IInv, Informed
  <2>7. QED BY <1>9, <1>10, <1>13, <1>14, <2>2, <2>3, <2>5, <2>6 DEF IInv
<1>17. QED BY <1>15, <1>16

-----------------------------------------------------------------------------
(* A transaction sent: it comes last of its sender.                          *)

LEMMA SureKept ==
  ASSUME NEW s, NEW k, network' = network,
         chain \ Dropped(network) \subseteq chain',
         \A i \in 1 .. (k - 1) : pending'[s][i] = pending[s][i]
  PROVE  Sure(s, k) \subseteq Sure(s, k)'
<1> SUFFICES ASSUME NEW f \in Sure(s, k), f \notin chain
             PROVE  f \in Sure(s, k)'
  BY DEF Sure
<1>1. PICK i \in 1 .. (k - 1) : f \in pending[s][i].adds
  BY DEF Sure
<1>2. f \in pending'[s][i].adds
  BY <1>1
<1>3. f \in UNION {pending'[s][j].adds : j \in 1 .. (k - 1)}
  BY <1>2
<1>4. QED BY <1>3 DEF Sure

LEMMA QueueGrows ==
  ASSUME IInv, status = "running", step \in 1 .. Len(body), Sends(now),
         pending' = [pending EXCEPT ![script.sender] = Append(@, now)]
  PROVE  /\ script.sender \in Senders /\ now \in TransactionsBy(network, script.sender)
         /\ pending' \in [Senders -> Seq(Transactions(network))]
         /\ \A r \in Senders \ {script.sender} : pending'[r] = pending[r]
         /\ Len(pending[script.sender]) \in Nat
         /\ Len(pending'[script.sender]) = Len(pending[script.sender]) + 1
         /\ pending'[script.sender][Len(pending'[script.sender])] = now
         /\ \A i \in 1 .. Len(pending[script.sender]) :
              pending'[script.sender][i] = pending[script.sender][i]
<1>1. network \in Network /\ script \in Scripts(network)
  BY DEF IInv, ControlOK, Standing
<1>2. script.sender \in Senders /\ now \in TransactionsBy(network, script.sender)
  BY <1>1, SenderKnown, SendingKnown DEF now, body
<1>3. now \in Transactions(network)
  BY <1>1, <1>2, TransactionsKnown
<1>4. pending \in [Senders -> Seq(Transactions(network))]
  BY DEF IInv, PendingOK
<1>5. pending[script.sender] \in Seq(Transactions(network))
  BY <1>2, <1>4
<1>6. /\ Append(pending[script.sender], now) \in Seq(Transactions(network))
      /\ Len(Append(pending[script.sender], now)) = Len(pending[script.sender]) + 1
      /\ \A i \in 1 .. Len(pending[script.sender]) :
           Append(pending[script.sender], now)[i] = pending[script.sender][i]
      /\ Append(pending[script.sender], now)[Len(pending[script.sender]) + 1] = now
  BY <1>3, <1>5
<1>7. pending'[script.sender] = Append(pending[script.sender], now)
  BY <1>2, <1>4
<1>8. pending' \in [Senders -> Seq(Transactions(network))]
  BY <1>2, <1>4, <1>6
<1>9. QED BY <1>2, <1>4, <1>5, <1>6, <1>7, <1>8

LEMMA Queued ==
  ASSUME IInv, status = "running", step \in 1 .. Len(body), Sends(now), Estimated,
         ~(now.does = "send" /\ isLocalNetwork(network)),
         NEW s0, s0 = script.sender, NEW m, m = Len(pending[s0]),
         pending' = [pending EXCEPT ![script.sender] = Append(@, now)],
         UNCHANGED <<network, chain, losses, migrations, records>>
  PROVE  /\ PendingOK' /\ FeedsOK' /\ OrderOK' /\ HandedOver' /\ MigratedMeansDone'
         /\ \A s \in Senders : \A k \in 1 .. Len(pending[s]) : pending'[s][k] = pending[s][k]
         /\ Sure(s0, m + 1) \cup (now.adds \ Dropped(network)) \subseteq Sure(s0, m + 2)'
<1>1. /\ s0 \in Senders /\ now \in TransactionsBy(network, s0)
      /\ pending' \in [Senders -> Seq(Transactions(network))]
      /\ \A r \in Senders \ {s0} : pending'[r] = pending[r]
      /\ m \in Nat /\ Len(pending'[s0]) = m + 1 /\ pending'[s0][m + 1] = now
      /\ \A i \in 1 .. m : pending'[s0][i] = pending[s0][i]
  BY QueueGrows
<1>2. /\ network \in Network /\ script \in Scripts(network) /\ step \in 1 .. (Len(body) + 1)
      /\ Standing
  BY DEF IInv, ControlOK, Standing
<1>3. \A r \in Senders : \A k \in 1 .. Len(pending[r]) : pending'[r][k] = pending[r][k]
  BY <1>1
<1>4. \A r \in Senders : \A k \in 1 .. Len(pending'[r]) :
        (k \in 1 .. Len(pending[r]) /\ pending'[r][k] = pending[r][k])
          \/ (r = s0 /\ k = m + 1 /\ pending'[r][k] = now)
  BY <1>1
<1>5. SafeTransaction(network, script, now, Here)
  BY <1>2, OutlineSteps DEF SafeStep, now, body, Here
<1>6. /\ Here.known \subseteq chain /\ (Here.known \cup Here.sent) \cap Dropped(network) = {}
      /\ losses = 0 => Here.sent \subseteq Sure(s0, m + 1)
      /\ Here.clear => pending[s0] = <<>>
  <2>1. (Here.known \cup Here.sent) \cap Dropped(network) = {}
    BY <1>2, OutlineShape DEF Here, body
  <2>2. QED BY <1>2, <2>1 DEF IInv, Informed, SentOK
<1>7. PendingOK'
  BY <1>1, <1>4 DEF IInv, PendingOK
<1>8. FeedsOK'
  <2>1. RequiredBy(now) \subseteq chain \ Dropped(network)
    BY <1>5, <1>6 DEF SafeTransaction
  <2>2. QED BY <1>4, <2>1 DEF IInv, FeedsOK
<1>9. \A r \in Senders : \A k \in 1 .. (Len(pending[r]) + 1) : Sure(r, k) \subseteq Sure(r, k)'
  <2>1. SUFFICES ASSUME NEW r \in Senders, NEW k \in 1 .. (Len(pending[r]) + 1)
                 PROVE  Sure(r, k) \subseteq Sure(r, k)'
    OBVIOUS
  <2>2. \A i \in 1 .. (k - 1) : i \in 1 .. Len(pending[r])
    BY <1>1 DEF IInv, PendingOK
  <2>3. \A i \in 1 .. (k - 1) : pending'[r][i] = pending[r][i]
    BY <1>3, <2>2
  <2>4. QED BY <2>3, SureKept
<1>10. OrderOK'
  <2>1. SUFFICES ASSUME losses = 0, NEW r \in Senders, NEW k \in 1 .. Len(pending'[r])
                 PROVE  /\ Preceding(network, pending'[r][k]) \subseteq Sure(r, k)'
                        /\ \A f \in NeedsOf(pending'[r][k]) :
                             \/ f \in chain
                             \/ f \notin Brief
                                /\ pending'[r][k].adds \ Dropped(network) \subseteq Sure(r, k)'
                        /\ NeedsOf(pending'[r][k]) \cap Brief # {} => k = 1
    BY <2>1 DEF OrderOK
  <2>2. CASE k \in 1 .. Len(pending[r]) /\ pending'[r][k] = pending[r][k]
    <3>1. Sure(r, k) \subseteq Sure(r, k)'
      <4>1. k \in 1 .. (Len(pending[r]) + 1)
        BY <2>2, <1>1 DEF IInv, PendingOK
      <4>2. QED BY <1>9, <4>1
    <3>2. QED BY <2>1, <2>2, <3>1 DEF IInv, OrderOK
  <2>3. CASE r = s0 /\ k = m + 1 /\ pending'[r][k] = now
    <3>1. Sure(s0, m + 1) \subseteq Sure(s0, m + 1)'
      BY <1>1, <1>9
    <3>2. Preceding(network, now) \subseteq Here.sent
      BY <1>5 DEF SafeTransaction
    <3>3. NeedsOf(now) \subseteq chain
      BY DEF Estimated, Accepted
    <3>4. NeedsOf(now) \cap Brief # {} => m = 0
      BY <1>5, <1>6 DEF SafeTransaction
    <3>5. QED BY <1>6, <2>1, <2>3, <3>1, <3>2, <3>3, <3>4
  <2>4. QED BY <1>4, <2>2, <2>3
<1>11. HandedOver'
  BY DEF IInv, HandedOver
<1>12. OnTheWay \subseteq OnTheWay'
  <2>1. SUFFICES ASSUME NEW f \in OnTheWay PROVE f \in OnTheWay'
    OBVIOUS
  <2>2. PICK r \in Senders : f \in UNION {pending[r][k].adds : k \in 1 .. Len(pending[r])}
    BY <2>1 DEF OnTheWay
  <2>3. PICK k \in 1 .. Len(pending[r]) : f \in pending[r][k].adds
    BY <2>2
  <2>4. k \in 1 .. Len(pending'[r]) /\ f \in pending'[r][k].adds
    BY <1>1, <1>3, <2>3
  <2>5. f \in UNION {pending'[r][j].adds : j \in 1 .. Len(pending'[r])}
    BY <2>4
  <2>6. QED BY <2>5 DEF OnTheWay
<1>13. MigratedMeansDone'
  BY <1>12 DEF IInv, MigratedMeansDone
<1>14. Sure(s0, m + 1) \cup (now.adds \ Dropped(network)) \subseteq Sure(s0, m + 2)'
  <2>1. SUFFICES ASSUME NEW f \in Sure(s0, m + 1) \cup (now.adds \ Dropped(network))
                 PROVE  f \in Sure(s0, m + 2)'
    OBVIOUS
  <2>2. f \notin Dropped(network)
    BY <2>1 DEF Sure
  <2>3. CASE f \in chain
    BY <2>2, <2>3 DEF Sure
  <2>4. CASE f \in now.adds
    <3>1. m + 1 \in 1 .. ((m + 2) - 1) /\ f \in pending'[s0][m + 1].adds
      BY <1>1, <2>4
    <3>2. f \in UNION {pending'[s0][j].adds : j \in 1 .. ((m + 2) - 1)}
      BY <3>1
    <3>3. QED BY <2>2, <3>2 DEF Sure
  <2>5. CASE f \in UNION {pending[s0][j].adds : j \in 1 .. ((m + 1) - 1)}
    <3>1. PICK j \in 1 .. ((m + 1) - 1) : f \in pending[s0][j].adds
      BY <2>5
    <3>2. j \in 1 .. ((m + 2) - 1) /\ f \in pending'[s0][j].adds
      BY <1>1, <3>1
    <3>3. f \in UNION {pending'[s0][i].adds : i \in 1 .. ((m + 2) - 1)}
      BY <3>2
    <3>4. QED BY <2>2, <3>3 DEF Sure
  <2>6. QED BY <2>1, <2>3, <2>4, <2>5 DEF Sure
<1>15. QED BY <1>3, <1>7, <1>8, <1>10, <1>11, <1>13, <1>14

LEMMA SentIs ==
  ASSUME NEW s0, NEW k, s0 = script'.sender, k = Len(pending'[s0]) + 1,
         losses' = 0 /\ Standing' => Here'.sent \subseteq Sure(s0, k)'
  PROVE  SentOK'
<1> SUFFICES ASSUME losses' = 0, Standing', NEW f \in Here'.sent, f \notin chain'
             PROVE  /\ f \notin Dropped(network')
                    /\ f \in UNION {pending'[script'.sender][i].adds :
                                       i \in 1 .. ((Len(pending'[script'.sender]) + 1) - 1)}
  <2>1. \A f \in chain' : losses' = 0 /\ Standing' /\ f \in Here'.sent => f \notin Dropped(network')
    BY DEF Sure
  <2>2. QED BY <2>1 DEF SentOK, Sure
<1>1. f \notin Dropped(network')
  BY DEF Sure
<1>2. PICK i \in 1 .. (k - 1) : f \in pending'[s0][i].adds
  BY DEF Sure
<1>3. /\ i \in 1 .. ((Len(pending'[script'.sender]) + 1) - 1)
      /\ f \in pending'[script'.sender][i].adds
  BY <1>2
<1>4. QED BY <1>1, <1>3

LEMMA SubmitIInv == IInv /\ submit => IInv'
<1> SUFFICES ASSUME IInv, submit PROVE IInv'
  OBVIOUS
<1>1. /\ status = "running" /\ step \in 1 .. Len(body) /\ now.does \in {"deploy", "await"}
      /\ Standing /\ network \in Network /\ script \in Scripts(network)
  BY RunningStep DEF submit
<1>2. /\ Estimated /\ status' = "waiting" /\ Standing'
      /\ pending' = [pending EXCEPT ![script.sender] = Append(@, now)]
      /\ UNCHANGED <<network, command, place, script, step, tries, migrations, records, zero,
                     chain, crashes, losses>>
  BY DEF submit, Standing
<1>3. PICK s0, m : s0 = script.sender /\ m = Len(pending[s0])
  OBVIOUS
<1>4. /\ s0 \in Senders /\ m \in Nat
      /\ pending' \in [Senders -> Seq(Transactions(network))]
      /\ Len(pending'[s0]) = m + 1 /\ pending'[s0][m + 1] = now
      /\ \A r \in Senders \ {s0} : pending'[r] = pending[r]
  BY <1>1, <1>2, <1>3, QueueGrows DEF Sends
<1>5. /\ PendingOK' /\ FeedsOK' /\ OrderOK' /\ HandedOver' /\ MigratedMeansDone'
      /\ \A s \in Senders : \A k \in 1 .. Len(pending[s]) : pending'[s][k] = pending[s][k]
      /\ Sure(s0, m + 1) \subseteq Sure(s0, m + 2)'
  BY <1>1, <1>2, <1>3, Queued DEF Sends
<1>6. ControlOK' /\ CountsOK' /\ RecordsOK'
  BY <1>1, <1>2 DEF IInv, ControlOK, CountsOK, RecordsOK, body
<1>7. WaitingOK'
  <2>1. pending'[s0] \in Seq(Transactions(network)) /\ pending'[s0] # <<>>
    BY <1>4
  <2>2. now' = now
    BY <1>2 DEF now, body
  <2>3. QED BY <1>1, <1>2, <1>3, <1>4, <2>1, <2>2 DEF WaitingOK
<1>8. Here' = Here
  BY <1>2 DEF Here
<1>9. Informed'
  BY <1>1, <1>2, <1>8 DEF IInv, Informed
<1>10. SentOK'
  <2>1. losses = 0 => Here.sent \subseteq Sure(s0, m + 1)
    BY <1>1, <1>3 DEF IInv, SentOK
  <2>2. s0 = script'.sender /\ m + 2 = Len(pending'[s0]) + 1
    BY <1>2, <1>3, <1>4
  <2>3. losses' = 0 /\ Standing' => Here'.sent \subseteq Sure(s0, m + 2)'
    BY <1>2, <1>5, <1>8, <2>1
  <2>4. QED BY <2>2, <2>3, SentIs
<1>11. BriefOK'
  <2>1. SUFFICES ASSUME ~Faulty
                 PROVE  /\ Brief \cap chain \subseteq Here.brief /\ Here.held \subseteq chain
                        /\ \A s \in Senders : \A k \in 1 .. Len(pending'[s]) :
                             (pending'[s][k].adds \cup pending'[s][k].drops) \cap Brief # {} =>
                               s = s0 /\ k = Len(pending'[s])
    BY <1>2, <1>3, <1>8, <2>1 DEF BriefOK, Faulty
  <2>2. Brief \cap chain \subseteq Here.brief /\ Here.held \subseteq chain
    BY <1>1, <2>1 DEF IInv, BriefOK
  <2>3. \A s \in Senders : \A k \in 1 .. Len(pending[s]) :
          (pending[s][k].adds \cup pending[s][k].drops) \cap Brief = {}
    BY <1>1, <2>1 DEF IInv, BriefOK
  <2>4. \A s \in Senders : \A k \in 1 .. Len(pending'[s]) :
          k \in 1 .. Len(pending[s]) \/ (s = s0 /\ k = Len(pending'[s]))
    BY <1>3, <1>4
  <2>5. QED BY <1>5, <2>2, <2>3, <2>4
<1>12. QED BY <1>5, <1>6, <1>7, <1>9, <1>10, <1>11 DEF IInv

(* A step that sends without waiting, on a live network.                     *)
LEMMA SendLive ==
  ASSUME IInv, send, ~isLocalNetwork(network)
  PROVE  IInv'
<1>1. /\ status = "running" /\ step \in 1 .. Len(body) /\ now.does = "send"
      /\ Standing /\ network \in Network /\ script \in Scripts(network)
      /\ Len(body) \in Nat
  BY RunningStep DEF send
<1>2. /\ Estimated /\ status' = "running" /\ Standing' /\ step' = step + 1
      /\ pending' = [pending EXCEPT ![script.sender] = Append(@, now)]
      /\ UNCHANGED <<network, command, place, script, tries, migrations, records, zero,
                     chain, crashes, losses>>
  BY <1>1 DEF send, Advance, Standing
<1>3. PICK s0, m : s0 = script.sender /\ m = Len(pending[s0])
  OBVIOUS
<1>4. /\ s0 \in Senders /\ m \in Nat /\ now \in TransactionsBy(network, s0)
      /\ Len(pending'[s0]) = m + 1 /\ pending'[s0][m + 1] = now
      /\ \A r \in Senders \ {s0} : pending'[r] = pending[r]
  BY <1>1, <1>2, <1>3, QueueGrows DEF Sends
<1>5. /\ PendingOK' /\ FeedsOK' /\ OrderOK' /\ HandedOver' /\ MigratedMeansDone'
      /\ \A s \in Senders : \A k \in 1 .. Len(pending[s]) : pending'[s][k] = pending[s][k]
      /\ Sure(s0, m + 1) \cup (now.adds \ Dropped(network)) \subseteq Sure(s0, m + 2)'
  BY <1>1, <1>2, <1>3, Queued DEF Sends
<1>6. ControlOK' /\ CountsOK' /\ RecordsOK' /\ WaitingOK'
  BY <1>1, <1>2 DEF IInv, ControlOK, CountsOK, RecordsOK, WaitingOK, body
<1>7. /\ Here'.known \subseteq Here.known \cup (now.needs \ Dropped(network))
      /\ Here'.names \subseteq Here.names
      /\ Here'.sent \subseteq Here.sent \cup (now.needs \ Dropped(network))
                              \cup (now.adds \ Dropped(network))
      /\ ~Here'.clear /\ Here'.held \subseteq Here.held /\ Here.brief \subseteq Here'.brief
  <2>1. Follows(Outline[network][script.id][step + 1], Afterwards(network, now, Here))
    BY <1>1, OutlineSteps DEF Here, now, body, Ends
  <2>2. Here' = Outline[network][script.id][step + 1]
    BY <1>2 DEF Here
  <2>3. Learnt(network, now) = now.needs \ Dropped(network) /\ NamesAfter(now) = {}
    BY <1>1 DEF Learnt, NamesAfter, Mined
  <2>4. QED BY <1>1, <2>1, <2>2, <2>3, AfterFields DEF BriefAfter
<1>8. now.needs \subseteq chain
  BY <1>1, <1>2 DEF Estimated, Accepted, NeedsOf
<1>9. Informed'
  BY <1>1, <1>2, <1>7, <1>8 DEF IInv, Informed
<1>10. SentOK'
  <2>1. losses = 0 => Here.sent \subseteq Sure(s0, m + 1)
    BY <1>1, <1>3 DEF IInv, SentOK
  <2>2. chain \ Dropped(network) \subseteq Sure(s0, m + 1)
    BY DEF Sure
  <2>3. losses = 0 => Here'.sent \subseteq Sure(s0, m + 2)'
    BY <1>5, <1>7, <1>8, <2>1, <2>2
  <2>4. s0 = script'.sender /\ m + 2 = Len(pending'[s0]) + 1
    BY <1>2, <1>3, <1>4
  <2>5. losses' = 0 /\ Standing' => Here'.sent \subseteq Sure(s0, m + 2)'
    BY <1>2, <2>3
  <2>6. QED BY <2>4, <2>5, SentIs
<1>11. BriefOK'
  <2>1. SUFFICES ASSUME ~Faulty
                 PROVE  /\ Brief \cap chain \subseteq Here'.brief /\ Here'.held \subseteq chain
                        /\ \A s \in Senders : \A k \in 1 .. Len(pending'[s]) :
                             (pending'[s][k].adds \cup pending'[s][k].drops) \cap Brief = {}
    BY <1>2, <2>1 DEF BriefOK, Faulty
  <2>2. Brief \cap chain \subseteq Here'.brief /\ Here'.held \subseteq chain
    BY <1>1, <1>7, <2>1 DEF IInv, BriefOK
  <2>3. \A s \in Senders : \A k \in 1 .. Len(pending[s]) :
          (pending[s][k].adds \cup pending[s][k].drops) \cap Brief = {}
    BY <1>1, <2>1 DEF IInv, BriefOK
  <2>4. (now.adds \cup now.drops) \cap Brief = {}
    BY <1>1, <1>4, TransactionFacts
  <2>5. \A s \in Senders : \A k \in 1 .. Len(pending'[s]) :
          k \in 1 .. Len(pending[s]) \/ (s = s0 /\ k = m + 1)
    BY <1>3, <1>4
  <2>6. QED BY <1>4, <1>5, <2>2, <2>3, <2>4, <2>5
<1>12. QED BY <1>5, <1>6, <1>9, <1>10, <1>11 DEF IInv

-----------------------------------------------------------------------------
(* A transaction mined.                                                      *)

LEMMA Carried ==
  ASSUME IInv, NEW s \in Senders, NEW t \in TransactionsBy(network, s), chain' = After(t),
         UNCHANGED <<network, losses>>,
         RequiredBy(t) \subseteq chain \ Dropped(network),
         losses = 0 => Preceding(network, t) \subseteq chain
  PROVE  /\ chain \ Dropped(network) \subseteq chain'
         /\ \A f \in chain' : Required(f) \subseteq chain' \ Dropped(network)
         /\ HandedOver'
         /\ losses = 0 =>
              \A r \in Senders : \A u \in TransactionsBy(network, r) : \A f \in NeedsOf(u) :
                f \in chain /\ f \notin chain' /\ f \notin Brief =>
                  u.adds \ Dropped(network) \subseteq chain'
         /\ \A f \in chain \cap Brief : f \notin chain' => s = "deployer"
<1>1. network \in Network
  BY DEF IInv, ControlOK
<1>2. chain' = chain \/ chain' = (chain \ t.drops) \cup t.adds
  BY DEF After
<1>3. t \in Transactions(network) /\ t.drops \subseteq Dropped(network)
  BY <1>1, TransactionsKnown
<1>4. chain \ Dropped(network) \subseteq chain'
  BY <1>2, <1>3
<1>5. \A f \in chain' : Required(f) \subseteq chain' \ Dropped(network)
  <2>1. SUFFICES ASSUME NEW f \in chain'
                 PROVE  Required(f) \subseteq chain \ Dropped(network)
    BY <1>4
  <2>2. CASE f \in chain
    BY <2>2 DEF IInv, FeedsOK
  <2>3. CASE f \in t.adds
    BY <2>3 DEF RequiredBy
  <2>4. QED BY <1>2, <2>2, <2>3
<1>6. HandedOver'
  <2>1. SUFFICES ASSUME losses = 0, FinalOwner \in chain'
                 PROVE  ControllerGiven \in chain \ Dropped(network)
    BY <1>4, <2>1 DEF HandedOver
  <2>2. CASE FinalOwner \in chain
    BY <2>1, <2>2 DEF IInv, HandedOver
  <2>3. CASE FinalOwner \in t.adds
    <3>1. ControllerGiven \in Preceding(network, t)
      BY <2>3 DEF Preceding
    <3>2. Preceding(network, t) \cap Dropped(network) = {}
      BY <1>1, TransactionFacts
    <3>3. QED BY <2>1, <3>1, <3>2
  <2>4. QED BY <1>2, <2>1, <2>2, <2>3
<1>7. ASSUME losses = 0, NEW r \in Senders, NEW u \in TransactionsBy(network, r),
             NEW f \in NeedsOf(u), f \in chain, f \notin chain', f \notin Brief
      PROVE  u.adds \ Dropped(network) \subseteq chain'
  <2>1. f \in t.drops \ Brief /\ chain' = (chain \ t.drops) \cup t.adds
    BY <1>2, <1>7
  <2>2. u \in Transactions(network)
    BY <1>1, TransactionsKnown
  <2>3. NeedsOf(u) \cap (t.drops \ Brief) # {}
    BY <2>1
  <2>4. u.adds \subseteq NeededIn(network, t.drops \ Brief)
    BY <2>2, <2>3 DEF NeededIn
  <2>5. (u.adds \ Dropped(network)) \ t.adds \subseteq Preceding(network, t)
    BY <2>4 DEF Preceding
  <2>6. (u.adds \ Dropped(network)) \ t.adds \subseteq chain
    BY <1>7, <2>5
  <2>7. QED BY <1>4, <2>1, <2>6
<1>8. ASSUME NEW f \in chain \cap Brief, f \notin chain'
      PROVE  s = "deployer"
  <2>1. (NeedsOf(t) \cup t.drops) \cap Brief # {}
    BY <1>2, <1>8
  <2>2. QED BY <1>1, <2>1, TransactionFacts
<1>9. QED BY <1>4, <1>5, <1>6, <1>7, <1>8

\* A script of a local network goes on when what it has sent is mined.
LEMMA SendLocal ==
  ASSUME IInv, send, isLocalNetwork(network)
  PROVE  IInv'
<1>1. /\ status = "running" /\ step \in 1 .. Len(body) /\ now.does = "send"
      /\ Standing /\ network \in Network /\ script \in Scripts(network)
      /\ Len(body) \in Nat
  BY RunningStep DEF send
<1>2. /\ Estimated /\ chain' = After(now)
      /\ status' = "running" /\ Standing' /\ step' = step + 1
      /\ UNCHANGED <<network, command, place, script, tries, migrations, records, zero,
                     pending, crashes, losses>>
  BY <1>1 DEF send, Advance, Standing
<1>3. chain' = (chain \ now.drops) \cup now.adds /\ now.needs \subseteq chain
  BY <1>1, <1>2 DEF Estimated, Accepted, After, NeedsOf
<1>4. PICK s0 : s0 = script.sender
  OBVIOUS
<1>5. s0 \in Senders /\ now \in TransactionsBy(network, s0)
  BY <1>1, <1>4, SenderKnown, SendingKnown DEF now, body, Sends
<1>6. SafeTransaction(network, script, now, Here)
  BY <1>1, OutlineSteps DEF SafeStep, now, body, Here, Sends
<1>7. Here.known \subseteq chain /\ (Here.known \cup Here.sent) \cap Dropped(network) = {}
  <2>1. Here.known \subseteq chain
    BY <1>1 DEF IInv, Informed
  <2>2. QED BY <1>1, <2>1, OutlineShape DEF Here, body
<1>8. RequiredBy(now) \subseteq chain \ Dropped(network) /\ Preceding(network, now) \subseteq chain
  BY <1>1, <1>6, <1>7 DEF SafeTransaction
<1>9. /\ chain \ Dropped(network) \subseteq chain'
      /\ \A f \in chain' : Required(f) \subseteq chain' \ Dropped(network)
      /\ HandedOver'
      /\ losses = 0 =>
           \A r \in Senders : \A u \in TransactionsBy(network, r) : \A f \in NeedsOf(u) :
             f \in chain /\ f \notin chain' /\ f \notin Brief =>
               u.adds \ Dropped(network) \subseteq chain'
  BY <1>2, <1>5, <1>8, Carried
<1>10. (now.adds \cup now.drops) \cap Brief = {} /\ Brief \cap chain' = Brief \cap chain
  <2>1. (now.adds \cup now.drops) \cap Brief = {}
    BY <1>1, <1>5, TransactionFacts
  <2>2. QED BY <1>3, <2>1
<1>11. PendingOK'
  BY <1>2 DEF IInv, PendingOK
<1>12. FeedsOK'
  BY <1>2, <1>9 DEF IInv, FeedsOK
<1>13. \A r, k : Sure(r, k) \subseteq Sure(r, k)'
  BY <1>2, <1>9 DEF Sure
<1>14. OrderOK'
  <2>1. SUFFICES ASSUME losses = 0, NEW r \in Senders, NEW k \in 1 .. Len(pending[r])
                 PROVE  /\ Preceding(network, pending[r][k]) \subseteq Sure(r, k)'
                        /\ \A f \in NeedsOf(pending[r][k]) :
                             \/ f \in chain'
                             \/ f \notin Brief
                                /\ pending[r][k].adds \ Dropped(network) \subseteq Sure(r, k)'
                        /\ NeedsOf(pending[r][k]) \cap Brief # {} => k = 1
    BY <1>2, <2>1 DEF OrderOK
  <2>2. /\ Preceding(network, pending[r][k]) \subseteq Sure(r, k)
        /\ \A f \in NeedsOf(pending[r][k]) :
             \/ f \in chain
             \/ f \notin Brief /\ pending[r][k].adds \ Dropped(network) \subseteq Sure(r, k)
        /\ NeedsOf(pending[r][k]) \cap Brief # {} => k = 1
    BY <2>1 DEF IInv, OrderOK
  <2>3. pending[r][k] \in TransactionsBy(network, r)
    BY DEF IInv, PendingOK
  <2>4. chain' \ Dropped(network) \subseteq Sure(r, k)'
    BY <1>2 DEF Sure
  <2>5. \A f \in NeedsOf(pending[r][k]) :
          \/ f \in chain'
          \/ f \notin Brief
             /\ pending[r][k].adds \ Dropped(network) \subseteq Sure(r, k)'
    <3>1. SUFFICES ASSUME NEW f \in NeedsOf(pending[r][k]), f \notin chain'
                   PROVE  /\ f \notin Brief
                          /\ pending[r][k].adds \ Dropped(network) \subseteq Sure(r, k)'
      OBVIOUS
    <3>2. CASE f \in chain
      <4>1. f \notin Brief
        BY <1>10, <3>1, <3>2
      <4>2. pending[r][k].adds \ Dropped(network) \subseteq chain'
        BY <1>9, <2>1, <2>3, <3>1, <3>2, <4>1
      <4>3. QED BY <2>4, <4>1, <4>2
    <3>3. CASE f \notin chain
      BY <1>13, <2>2, <3>3
    <3>4. QED BY <3>2, <3>3
  <2>6. QED BY <1>13, <2>2, <2>5
<1>15. MigratedMeansDone'
  <2>1. \A e \in Evidence[network] : e.facts \cap Dropped(network) = {}
    BY <1>1, OutlineAssumption DEF OutlineAssumption
  <2>2. OnTheWay' = OnTheWay
    BY <1>2 DEF OnTheWay
  <2>3. QED BY <1>2, <1>9, <2>1, <2>2 DEF IInv, MigratedMeansDone
<1>16. ControlOK' /\ CountsOK' /\ RecordsOK' /\ WaitingOK'
  BY <1>1, <1>2 DEF IInv, ControlOK, CountsOK, RecordsOK, WaitingOK, body
<1>17. /\ Here'.known \subseteq Here.known \cup ((now.needs \cup now.adds) \ Dropped(network))
       /\ Here'.names \subseteq Here.names
       /\ Here'.sent \subseteq Here.sent \cup ((now.needs \cup now.adds) \ Dropped(network))
       /\ ~Here'.clear /\ Here'.held \subseteq Here.held /\ Here.brief \subseteq Here'.brief
  <2>1. Follows(Outline[network][script.id][step + 1], Afterwards(network, now, Here))
    BY <1>1, OutlineSteps DEF Here, now, body, Ends
  <2>2. Here' = Outline[network][script.id][step + 1]
    BY <1>2 DEF Here
  <2>3. Learnt(network, now) = (now.needs \cup now.adds) \ Dropped(network) /\ NamesAfter(now) = {}
    BY <1>1 DEF Learnt, NamesAfter, Mined
  <2>4. QED BY <1>1, <2>1, <2>2, <2>3, AfterFields DEF BriefAfter
<1>18. (now.needs \cup now.adds) \ Dropped(network) \subseteq chain'
  BY <1>3, <1>9
<1>19. Informed'
  BY <1>1, <1>2, <1>7, <1>9, <1>17, <1>18 DEF IInv, Informed
<1>20. SentOK'
  <2>1. losses = 0 => Here.sent \subseteq Sure(script.sender, Len(pending[script.sender]) + 1)
    BY <1>1 DEF IInv, SentOK
  <2>2. PICK k : k = Len(pending[s0]) + 1
    OBVIOUS
  <2>3. chain' \ Dropped(network) \subseteq Sure(s0, k)'
    BY <1>2 DEF Sure
  <2>4. losses' = 0 /\ Standing' => Here'.sent \subseteq Sure(s0, k)'
    BY <1>2, <1>4, <1>13, <1>17, <1>18, <2>1, <2>2, <2>3
  <2>5. s0 = script'.sender /\ k = Len(pending'[s0]) + 1
    BY <1>2, <1>4, <2>2
  <2>6. QED BY <2>4, <2>5, SentIs
<1>21. BriefOK'
  <2>1. SUFFICES ASSUME ~Faulty
                 PROVE  /\ Brief \cap chain' \subseteq Here'.brief /\ Here'.held \subseteq chain'
                        /\ \A s \in Senders : \A k \in 1 .. Len(pending[s]) :
                             (pending[s][k].adds \cup pending[s][k].drops) \cap Brief = {}
    BY <1>2, <2>1 DEF BriefOK, Faulty
  <2>2. /\ Brief \cap chain \subseteq Here.brief /\ Here.held \subseteq chain
        /\ \A s \in Senders : \A k \in 1 .. Len(pending[s]) :
             (pending[s][k].adds \cup pending[s][k].drops) \cap Brief = {}
    BY <1>1, <2>1 DEF IInv, BriefOK
  <2>3. Here.held \subseteq Brief
    BY <1>1, OutlineShape DEF Here, body
  <2>4. QED BY <1>10, <1>17, <2>2, <2>3
<1>22. QED BY <1>9, <1>11, <1>12, <1>14, <1>15, <1>16, <1>19, <1>20, <1>21 DEF IInv

LEMMA SendIInv == IInv /\ send => IInv'
BY SendLive, SendLocal

(* The first pending transaction of a sender is mined: those behind it move  *)
(* up by one.                                                                *)
LEMMA QueueShrinks ==
  ASSUME IInv, NEW s \in Senders, mine(s)
  PROVE  /\ network \in Network /\ Len(pending[s]) \in Nat \ {0}
         /\ Head(pending[s]) = pending[s][1]
         /\ pending[s][1] \in TransactionsBy(network, s)
         /\ pending' \in [Senders -> Seq(Transactions(network))]
         /\ pending'[s] = Tail(pending[s]) /\ Len(pending'[s]) = Len(pending[s]) - 1
         /\ \A i \in 1 .. Len(pending'[s]) : pending'[s][i] = pending[s][i + 1]
         /\ \A r \in Senders \ {s} : pending'[r] = pending[r]
<1>1. network \in Network
  BY DEF IInv, ControlOK
<1>2. /\ pending \in [Senders -> Seq(Transactions(network))]
      /\ \A k \in 1 .. Len(pending[s]) : pending[s][k] \in TransactionsBy(network, s)
  BY DEF IInv, PendingOK
<1>3. pending[s] # <<>> /\ pending' = [pending EXCEPT ![s] = Tail(@)]
  BY DEF mine
<1>4. pending[s] \in Seq(Transactions(network)) /\ Len(pending[s]) \in Nat \ {0}
  BY <1>2, <1>3
<1>5. /\ Head(pending[s]) = pending[s][1]
      /\ Tail(pending[s]) \in Seq(Transactions(network))
      /\ Len(Tail(pending[s])) = Len(pending[s]) - 1
      /\ \A i \in 1 .. (Len(pending[s]) - 1) : Tail(pending[s])[i] = pending[s][i + 1]
  BY <1>3, <1>4
<1>6. pending'[s] = Tail(pending[s])
  BY <1>2, <1>3
<1>7. pending' \in [Senders -> Seq(Transactions(network))]
  BY <1>2, <1>3, <1>5
<1>8. QED BY <1>1, <1>2, <1>3, <1>4, <1>5, <1>6, <1>7

LEMMA SureShift ==
  ASSUME NEW s, NEW k \in Nat, network' = network,
         chain \ Dropped(network) \subseteq chain',
         pending[s][1].adds \ Dropped(network) \subseteq chain',
         \A i \in 1 .. (k - 1) : pending'[s][i] = pending[s][i + 1]
  PROVE  Sure(s, k + 1) \subseteq Sure(s, k)'
<1> SUFFICES ASSUME NEW f \in Sure(s, k + 1), f \notin chain'
             PROVE  f \in Sure(s, k)'
  BY DEF Sure
<1>1. f \notin Dropped(network) /\ f \notin chain
  BY DEF Sure
<1>2. PICK i \in 1 .. ((k + 1) - 1) : f \in pending[s][i].adds
  BY <1>1 DEF Sure
<1>3. i # 1
  BY <1>1, <1>2
<1>4. i - 1 \in 1 .. (k - 1) /\ (i - 1) + 1 = i
  BY <1>2, <1>3
<1>5. f \in pending'[s][i - 1].adds
  BY <1>2, <1>4
<1>6. f \in UNION {pending'[s][j].adds : j \in 1 .. (k - 1)}
  BY <1>4, <1>5
<1>7. QED BY <1>1, <1>6 DEF Sure

(* What a mined transaction adds for good is there then: if it reverts, it   *)
(* was there before.                                                         *)
LEMMA HeadArrives ==
  ASSUME IInv, NEW s \in Senders, mine(s)
  PROVE  /\ RequiredBy(pending[s][1]) \subseteq chain \ Dropped(network)
         /\ losses = 0 => Preceding(network, pending[s][1]) \subseteq chain
         /\ losses = 0 => pending[s][1].adds \ Dropped(network) \subseteq chain'
         /\ chain' = After(pending[s][1]) /\ network' = network /\ losses' = losses
<1> DEFINE t == pending[s][1]
<1>1. /\ network \in Network /\ 1 \in 1 .. Len(pending[s]) /\ Head(pending[s]) = t
      /\ t \in TransactionsBy(network, s)
  BY QueueShrinks
<1>2. chain' = After(t) /\ network' = network /\ losses' = losses
  BY <1>1 DEF mine
<1>3. RequiredBy(t) \subseteq chain \ Dropped(network)
  BY <1>1 DEF IInv, FeedsOK
<1>4. Sure(s, 1) = chain \ Dropped(network)
  BY DEF Sure
<1>5. ASSUME losses = 0
      PROVE  /\ Preceding(network, t) \subseteq chain
             /\ \A f \in NeedsOf(t) : f \in chain \/ t.adds \ Dropped(network) \subseteq chain
  BY <1>1, <1>4, <1>5 DEF IInv, OrderOK
<1>6. ASSUME losses = 0
      PROVE  t.adds \ Dropped(network) \subseteq chain'
  <2>1. CASE Accepted(t)
    BY <1>2, <2>1 DEF After
  <2>2. CASE ~Accepted(t)
    <3>1. chain' = chain
      BY <1>2, <2>2 DEF After
    <3>2. CASE ~(NeedsOf(t) \subseteq chain)
      BY <1>5, <1>6, <3>1, <3>2
    <3>3. CASE t.bars \cap chain # {}
      BY <1>1, <3>1, <3>3, TransactionFacts
    <3>4. QED BY <2>2, <3>2, <3>3 DEF Accepted
  <2>3. QED BY <2>1, <2>2
<1>7. QED BY <1>2, <1>3, <1>5, <1>6

LEMMA MinedWorld ==
  ASSUME IInv, NEW s \in Senders, mine(s)
  PROVE  /\ PendingOK' /\ FeedsOK' /\ OrderOK' /\ HandedOver' /\ MigratedMeansDone'
         /\ chain \ Dropped(network) \subseteq chain'
         /\ losses = 0 =>
              /\ \A r \in Senders \ {s} : \A k \in 1 .. (Len(pending[r]) + 1) :
                   Sure(r, k) \subseteq Sure(r, k)'
              /\ \A k \in 1 .. Len(pending[s]) : Sure(s, k + 1) \subseteq Sure(s, k)'
<1> DEFINE t == pending[s][1]
<1>1. /\ network \in Network /\ Len(pending[s]) \in Nat \ {0}
      /\ t \in TransactionsBy(network, s)
      /\ pending' \in [Senders -> Seq(Transactions(network))]
      /\ Len(pending'[s]) = Len(pending[s]) - 1
      /\ \A i \in 1 .. Len(pending'[s]) : pending'[s][i] = pending[s][i + 1]
      /\ \A r \in Senders \ {s} : pending'[r] = pending[r]
  BY QueueShrinks
<1>2. /\ RequiredBy(t) \subseteq chain \ Dropped(network)
      /\ losses = 0 => Preceding(network, t) \subseteq chain
      /\ losses = 0 => t.adds \ Dropped(network) \subseteq chain'
      /\ chain' = After(t) /\ network' = network /\ losses' = losses
  BY HeadArrives
<1>3. migrations' = migrations /\ records \subseteq records'
  BY DEF mine, script_
<1>4. /\ chain \ Dropped(network) \subseteq chain'
      /\ \A f \in chain' : Required(f) \subseteq chain' \ Dropped(network)
      /\ HandedOver'
      /\ losses = 0 =>
           \A r \in Senders : \A u \in TransactionsBy(network, r) : \A f \in NeedsOf(u) :
             f \in chain /\ f \notin chain' /\ f \notin Brief =>
               u.adds \ Dropped(network) \subseteq chain'
      /\ \A f \in chain \cap Brief : f \notin chain' => s = "deployer"
  BY <1>1, <1>2, Carried
\* Where a transaction that is pending still was before.
<1>5. \A r \in Senders : \A k \in 1 .. Len(pending'[r]) :
        \E j \in 1 .. Len(pending[r]) :
          j = (IF r = s THEN k + 1 ELSE k) /\ pending'[r][k] = pending[r][j]
  <2>1. SUFFICES ASSUME NEW r \in Senders, NEW k \in 1 .. Len(pending'[r])
                 PROVE  \E j \in 1 .. Len(pending[r]) :
                          j = (IF r = s THEN k + 1 ELSE k) /\ pending'[r][k] = pending[r][j]
    OBVIOUS
  <2>2. CASE r = s
    <3>1. k + 1 \in 1 .. Len(pending[r]) /\ pending'[r][k] = pending[r][k + 1]
      BY <1>1, <2>2
    <3>2. QED BY <2>2, <3>1
  <2>3. CASE r # s
    BY <1>1, <2>3
  <2>4. QED BY <2>2, <2>3
<1>6. \A r \in Senders : \A j \in 1 .. Len(pending[r]) :
        pending[r][j] \in TransactionsBy(network, r)
  BY DEF IInv, PendingOK
<1>7. PendingOK'
  BY <1>1, <1>2, <1>5, <1>6 DEF PendingOK
<1>8. FeedsOK'
  <2>1. \A r \in Senders : \A j \in 1 .. Len(pending[r]) :
          RequiredBy(pending[r][j]) \subseteq chain' \ Dropped(network)
    BY <1>4 DEF IInv, FeedsOK
  <2>2. QED BY <1>2, <1>4, <1>5, <2>1 DEF FeedsOK
<1>9. \A r \in Senders \ {s} : \A k : Sure(r, k) \subseteq Sure(r, k)'
  BY <1>1, <1>2, <1>4, SureKept
<1>10. losses = 0 => \A k \in 1 .. Len(pending[s]) : Sure(s, k + 1) \subseteq Sure(s, k)'
  <2>1. SUFFICES ASSUME losses = 0, NEW k \in 1 .. Len(pending[s])
                 PROVE  Sure(s, k + 1) \subseteq Sure(s, k)'
    OBVIOUS
  <2>2. k \in Nat /\ \A i \in 1 .. (k - 1) : i \in 1 .. Len(pending'[s])
    BY <1>1
  <2>3. \A i \in 1 .. (k - 1) : pending'[s][i] = pending[s][i + 1]
    BY <1>1, <2>2
  <2>4. QED BY <1>2, <1>4, <2>1, <2>2, <2>3, SureShift
<1>11. OrderOK'
  <2>1. SUFFICES ASSUME losses = 0, NEW r \in Senders, NEW k \in 1 .. Len(pending'[r])
                 PROVE  /\ Preceding(network, pending'[r][k]) \subseteq Sure(r, k)'
                        /\ \A f \in NeedsOf(pending'[r][k]) :
                             \/ f \in chain'
                             \/ f \notin Brief
                                /\ pending'[r][k].adds \ Dropped(network) \subseteq Sure(r, k)'
                        /\ NeedsOf(pending'[r][k]) \cap Brief # {} => k = 1
    BY <1>2, <2>1 DEF OrderOK
  <2>2. PICK j \in 1 .. Len(pending[r]) :
          j = (IF r = s THEN k + 1 ELSE k) /\ pending'[r][k] = pending[r][j]
    BY <1>5
  <2>3. PICK u : u = pending[r][j]
    OBVIOUS
  <2>4. u = pending'[r][k] /\ u \in TransactionsBy(network, r)
    BY <1>6, <2>2, <2>3
  <2>5. /\ Preceding(network, u) \subseteq Sure(r, j)
        /\ \A f \in NeedsOf(u) :
             \/ f \in chain
             \/ f \notin Brief /\ u.adds \ Dropped(network) \subseteq Sure(r, j)
        /\ NeedsOf(u) \cap Brief # {} => j = 1
    BY <2>1, <2>3 DEF IInv, OrderOK
  <2>6. Sure(r, j) \subseteq Sure(r, k)'
    <3>1. CASE r = s
      <4>1. k \in 1 .. Len(pending[s]) /\ j = k + 1
        BY <1>1, <2>2, <3>1
      <4>2. QED BY <1>10, <2>1, <3>1, <4>1
    <3>2. CASE r # s
      BY <1>9, <2>2, <3>2
    <3>3. QED BY <3>1, <3>2
  <2>7. NeedsOf(u) \cap Brief # {} => k = 1 /\ r # s
    BY <1>1, <2>2, <2>5
  <2>8. chain' \ Dropped(network) \subseteq Sure(r, k)'
    BY <1>2 DEF Sure
  <2>9. ASSUME NEW f \in NeedsOf(u), f \notin chain'
        PROVE  f \notin Brief /\ u.adds \ Dropped(network) \subseteq Sure(r, k)'
    <3>1. CASE f \notin chain
      BY <2>5, <2>6, <2>9, <3>1
    <3>2. CASE f \in chain
      <4>1. f \notin Brief
        <5>1. SUFFICES ASSUME f \in Brief PROVE FALSE
          OBVIOUS
        <5>2. s = "deployer"
          BY <1>4, <2>9, <3>2, <5>1
        <5>3. r = "deployer"
          BY <1>1, <2>4, <2>9, <5>1, TransactionFacts
        <5>4. QED BY <2>7, <2>9, <5>1, <5>2, <5>3
      <4>2. u.adds \ Dropped(network) \subseteq chain'
        BY <1>4, <2>1, <2>4, <2>9, <3>2, <4>1
      <4>3. QED BY <2>8, <4>1, <4>2
    <3>3. QED BY <3>1, <3>2
  <2>10. QED BY <2>4, <2>5, <2>6, <2>7, <2>9
<1>12. MigratedMeansDone'
  <2>1. SUFFICES ASSUME losses = 0, NEW e \in Evidence[network], e.id \in migrations,
                        NEW f \in e.facts
                 PROVE  f \in chain' \cup OnTheWay'
    <3>1. \A e \in Evidence[network] : e.id \in migrations => e.names \subseteq records'
      BY <1>3 DEF IInv, MigratedMeansDone
    <3>2. QED BY <1>2, <1>3, <2>1, <3>1 DEF MigratedMeansDone
  <2>2. f \notin Dropped(network) /\ f \in chain \cup OnTheWay
    <3>1. e.facts \cap Dropped(network) = {}
      BY <1>1, OutlineAssumption DEF OutlineAssumption
    <3>2. QED BY <2>1, <3>1 DEF IInv, MigratedMeansDone
  <2>3. CASE f \in chain
    BY <1>4, <2>2, <2>3
  <2>4. CASE f \in OnTheWay
    <3>1. PICK r \in Senders : f \in UNION {pending[r][k].adds : k \in 1 .. Len(pending[r])}
      BY <2>4 DEF OnTheWay
    <3>2. PICK k \in 1 .. Len(pending[r]) : f \in pending[r][k].adds
      BY <3>1
    <3>3. CASE r = s /\ k = 1
      BY <1>2, <2>1, <2>2, <3>2, <3>3
    <3>4. CASE ~(r = s /\ k = 1)
      <4>1. PICK j : j = IF r = s THEN k - 1 ELSE k
        OBVIOUS
      <4>2. j \in 1 .. Len(pending'[r]) /\ f \in pending'[r][j].adds
        <5>1. CASE r = s
          BY <1>1, <3>2, <3>4, <4>1, <5>1
        <5>2. CASE r # s
          BY <1>1, <3>2, <4>1, <5>2
        <5>3. QED BY <5>1, <5>2
      <4>3. f \in UNION {pending'[r][i].adds : i \in 1 .. Len(pending'[r])}
        BY <4>2
      <4>4. QED BY <4>3 DEF OnTheWay
    <3>5. QED BY <3>3, <3>4
  <2>5. QED BY <2>2, <2>3, <2>4
<1>13. QED BY <1>4, <1>7, <1>8, <1>9, <1>10, <1>11, <1>12

\* The awaited transaction is the script's step, and the last one of its sender.
LEMMA AwaitedStep ==
  ASSUME IInv, NEW s \in Senders, mine(s), Awaited(s)
  PROVE  /\ status = "waiting" /\ Standing /\ script.sender = s /\ Len(pending[s]) = 1
         /\ now = pending[s][1] /\ Head(pending[s]) = now /\ now.does \in {"deploy", "await"}
         /\ pending'[s] = <<>> /\ step \in 1 .. Len(body) /\ Len(body) \in Nat
         /\ network \in Network /\ script \in Scripts(network)
         /\ now \in TransactionsBy(network, s)
<1>1. status = "waiting" /\ Standing /\ script.sender = s /\ Len(pending[s]) = 1
  BY DEF Awaited, Standing
<1>2. /\ network \in Network /\ script \in Scripts(network) /\ step \in 1 .. Len(body)
  BY <1>1 DEF IInv, ControlOK
<1>3. now.does \in {"deploy", "await"} /\ now = pending[s][1]
  BY <1>1 DEF IInv, WaitingOK
<1>4. /\ Head(pending[s]) = pending[s][1] /\ pending[s][1] \in TransactionsBy(network, s)
      /\ pending' \in [Senders -> Seq(Transactions(network))] /\ Len(pending'[s]) = 0
  BY <1>1, QueueShrinks
<1>5. pending'[s] = <<>>
  BY <1>4
<1>6. Len(body) \in Nat
  BY <1>2, OutlineShape DEF body
<1>7. QED BY <1>1, <1>2, <1>3, <1>4, <1>5, <1>6

\* Nothing that is pending but what is awaited touches what is brief.
LEMMA BriefMoves ==
  ASSUME IInv, NEW s \in Senders, mine(s), ~Faulty
  PROVE  /\ \A r \in Senders : \A k \in 1 .. Len(pending'[r]) :
              (pending'[r][k].adds \cup pending'[r][k].drops) \cap Brief # {} =>
                /\ status = "waiting" /\ r = script.sender /\ k = Len(pending'[r])
                /\ ~Awaited(s)
         /\ ~Awaited(s) => Brief \cap chain' = Brief \cap chain
<1>1. /\ Len(pending[s]) \in Nat \ {0}
      /\ Len(pending'[s]) = Len(pending[s]) - 1
      /\ \A i \in 1 .. Len(pending'[s]) : pending'[s][i] = pending[s][i + 1]
      /\ \A r \in Senders \ {s} : pending'[r] = pending[r]
  BY QueueShrinks
<1>2. \A r \in Senders : \A k \in 1 .. Len(pending[r]) :
        (pending[r][k].adds \cup pending[r][k].drops) \cap Brief # {} =>
          status = "waiting" /\ r = script.sender /\ k = Len(pending[r])
  BY DEF IInv, BriefOK
<1>3. ASSUME NEW r \in Senders, NEW k \in 1 .. Len(pending'[r]),
             (pending'[r][k].adds \cup pending'[r][k].drops) \cap Brief # {}
      PROVE  /\ status = "waiting" /\ r = script.sender /\ k = Len(pending'[r])
             /\ ~Awaited(s)
  <2>1. CASE r = s
    <3>1. k + 1 \in 1 .. Len(pending[s]) /\ pending'[r][k] = pending[s][k + 1]
      BY <1>1, <2>1
    <3>2. status = "waiting" /\ r = script.sender /\ k + 1 = Len(pending[s])
      BY <1>2, <1>3, <2>1, <3>1
    <3>3. QED BY <1>1, <2>1, <3>2 DEF Awaited
  <2>2. CASE r # s
    <3>1. pending'[r] = pending[r]
      BY <1>1, <2>2
    <3>2. status = "waiting" /\ r = script.sender /\ k = Len(pending[r])
      BY <1>2, <1>3, <3>1
    <3>3. QED BY <2>2, <3>1, <3>2 DEF Awaited
  <2>3. QED BY <2>1, <2>2
<1>4. ASSUME ~Awaited(s)
      PROVE  Brief \cap chain' = Brief \cap chain
  <2>1. (pending[s][1].adds \cup pending[s][1].drops) \cap Brief = {}
    <3>1. 1 \in 1 .. Len(pending[s])
      BY <1>1
    <3>2. 1 = Len(pending[s]) /\ status = "waiting" /\ s = script.sender => FALSE
      BY <1>4 DEF Awaited
    <3>3. QED BY <1>2, <3>1, <3>2
  <2>2. chain' = After(pending[s][1])
    BY HeadArrives
  <2>3. QED BY <2>1, <2>2 DEF After
<1>5. QED BY <1>3, <1>4

LEMMA MineOther == ASSUME IInv, NEW s \in Senders, mine(s), ~Awaited(s) PROVE IInv'
<1>1. /\ UNCHANGED <<network, migrations, zero, crashes, losses, records, command, place,
                     script, step, status, tries>>
  BY DEF mine, script_
<1>2. /\ PendingOK' /\ FeedsOK' /\ OrderOK' /\ HandedOver' /\ MigratedMeansDone'
      /\ chain \ Dropped(network) \subseteq chain'
      /\ losses = 0 =>
           /\ \A r \in Senders \ {s} : \A k \in 1 .. (Len(pending[r]) + 1) :
                Sure(r, k) \subseteq Sure(r, k)'
           /\ \A k \in 1 .. Len(pending[s]) : Sure(s, k + 1) \subseteq Sure(s, k)'
  BY MinedWorld
<1>3. /\ network \in Network /\ Len(pending[s]) \in Nat \ {0} /\ pending[s] # <<>>
      /\ pending' \in [Senders -> Seq(Transactions(network))]
      /\ Len(pending'[s]) = Len(pending[s]) - 1
      /\ \A i \in 1 .. Len(pending'[s]) : pending'[s][i] = pending[s][i + 1]
      /\ \A r \in Senders \ {s} : pending'[r] = pending[r]
  BY QueueShrinks DEF mine
<1>4. Here' = Here /\ Standing' = Standing /\ now' = now /\ body' = body
  BY <1>1 DEF Here, Standing, now, body
<1>5. Standing => script \in Scripts(network) /\ step \in 1 .. (Len(body) + 1)
                  /\ script.sender \in Senders
  BY <1>3, SenderKnown DEF IInv, ControlOK
<1>6. ControlOK' /\ CountsOK' /\ RecordsOK'
  BY <1>1, <1>4 DEF IInv, ControlOK, CountsOK, RecordsOK
<1>7. WaitingOK'
  <2>1. SUFFICES ASSUME status = "waiting"
                 PROVE  /\ now.does \in {"deploy", "await"} /\ pending'[script.sender] # <<>>
                        /\ pending'[script.sender][Len(pending'[script.sender])] = now
    BY <1>1, <1>4, <2>1 DEF WaitingOK
  <2>2. /\ now.does \in {"deploy", "await"} /\ pending[script.sender] # <<>>
        /\ pending[script.sender][Len(pending[script.sender])] = now
        /\ script.sender \in Senders
    BY <1>5, <2>1 DEF IInv, WaitingOK, Standing
  <2>3. CASE script.sender = s
    <3>1. Len(pending[s]) # 1
      BY <2>1, <2>3 DEF Awaited
    <3>2. Len(pending'[s]) \in 1 .. Len(pending'[s]) /\ Len(pending'[s]) + 1 = Len(pending[s])
      <4>1. \A l \in Nat \ {0} : l # 1 => l - 1 \in 1 .. (l - 1) /\ (l - 1) + 1 = l
        OBVIOUS
      <4>2. QED BY <1>3, <3>1, <4>1
    <3>3. pending'[s] # <<>>
      BY <3>2
    <3>4. QED BY <1>3, <2>2, <2>3, <3>2, <3>3
  <2>4. CASE script.sender # s
    BY <1>3, <2>2, <2>4
  <2>5. QED BY <2>3, <2>4
<1>8. Informed'
  <2>1. Standing => Here.known \subseteq chain' /\ Here.names \subseteq records
    <3>1. Standing => Here.known \cap Dropped(network) = {}
      BY <1>3, <1>5, OutlineShape DEF Here, body
    <3>2. QED BY <1>2, <3>1 DEF IInv, Informed
  <2>2. status = "running" /\ Here.clear => pending'[script.sender] = <<>>
    <3>1. SUFFICES ASSUME status = "running", Here.clear
                   PROVE  pending'[script.sender] = <<>>
      OBVIOUS
    <3>2. pending[script.sender] = <<>> /\ script.sender \in Senders
      BY <1>5, <3>1 DEF IInv, Informed, Standing
    <3>3. QED BY <1>3, <3>2
  <2>3. QED BY <1>1, <1>4, <2>1, <2>2 DEF Informed
<1>9. SentOK'
  <2>1. PICK r, m : r = script.sender /\ m = Len(pending[r]) + 1
    OBVIOUS
  <2>2. PICK k : k = Len(pending'[r]) + 1
    OBVIOUS
  <2>3. r = script'.sender
    BY <1>1, <2>1
  <2>4. ASSUME losses = 0, Standing
        PROVE  Here'.sent \subseteq Sure(r, k)'
    <3>1. Here.sent \subseteq Sure(r, m) /\ r \in Senders
      BY <1>5, <2>1, <2>4 DEF IInv, SentOK
    <3>2. CASE r = s
      <4>1. k \in 1 .. Len(pending[s]) /\ m = k + 1
        BY <1>3, <2>1, <2>2, <3>2
      <4>2. Sure(s, k + 1) \subseteq Sure(s, k)'
        BY <1>2, <2>4, <4>1
      <4>3. QED BY <1>4, <3>1, <3>2, <4>1, <4>2
    <3>3. CASE r # s
      <4>1. m \in 1 .. (Len(pending[r]) + 1) /\ k = m
        BY <1>3, <2>1, <2>2, <3>1, <3>3 DEF IInv, PendingOK
      <4>2. Sure(r, m) \subseteq Sure(r, m)'
        BY <1>2, <2>4, <3>1, <3>3, <4>1
      <4>3. QED BY <1>4, <3>1, <4>1, <4>2
    <3>4. QED BY <3>2, <3>3
  <2>5. losses' = 0 /\ Standing' => Here'.sent \subseteq Sure(r, k)'
    BY <1>1, <1>4, <2>4
  <2>6. QED BY <2>2, <2>3, <2>5, SentIs
<1>10. BriefOK'
  <2>1. SUFFICES ASSUME ~Faulty
                 PROVE  /\ ~Standing => Brief \cap chain' = {}
                        /\ Standing => Brief \cap chain' \subseteq Here.brief
                                       /\ Here.held \subseteq chain'
                        /\ \A r \in Senders : \A k \in 1 .. Len(pending'[r]) :
                             (pending'[r][k].adds \cup pending'[r][k].drops) \cap Brief # {} =>
                               status = "waiting" /\ r = script.sender /\ k = Len(pending'[r])
    BY <1>1, <1>4, <2>1 DEF BriefOK, Faulty
  <2>2. Brief \cap chain' = Brief \cap chain
    BY <2>1, BriefMoves
  <2>3. Standing => Here.held \subseteq Brief
    BY <1>3, <1>5, OutlineShape DEF Here, body
  <2>4. /\ ~Standing => Brief \cap chain = {}
        /\ Standing => Brief \cap chain \subseteq Here.brief /\ Here.held \subseteq chain
    BY <2>1 DEF IInv, BriefOK
  <2>5. QED BY <2>1, <2>2, <2>3, <2>4, BriefMoves
<1>11. QED BY <1>2, <1>6, <1>7, <1>8, <1>9, <1>10 DEF IInv

LEMMA MineReverts ==
  ASSUME IInv, NEW s \in Senders, mine(s), Awaited(s), ~Accepted(now)
  PROVE  IInv'
<1>1. /\ status = "waiting" /\ Standing /\ script.sender = s /\ Head(pending[s]) = now
      /\ now = pending[s][1] /\ now.does \in {"deploy", "await"}
      /\ step \in 1 .. Len(body) /\ network \in Network /\ script \in Scripts(network)
      /\ now \in TransactionsBy(network, s)
  BY AwaitedStep
<1>2. /\ Throws /\ UNCHANGED <<network, migrations, zero, crashes, losses, records>>
  BY <1>1 DEF mine
<1>3. chain' = chain
  BY <1>1, HeadArrives DEF After
<1>4. /\ PendingOK' /\ FeedsOK' /\ OrderOK' /\ HandedOver' /\ MigratedMeansDone'
  BY MinedWorld
<1>5. status' = "failed" /\ ~Standing'
  BY <1>2 DEF Throws, Standing
<1>6. ControlOK'
  BY <1>1, <1>2 DEF IInv, ControlOK, Throws, Standing, body
<1>7. CountsOK' /\ RecordsOK'
  BY <1>1, <1>2, DeploymentAssumption
     DEF IInv, CountsOK, RecordsOK, Throws, DeploymentAssumption
<1>8. WaitingOK' /\ Informed' /\ SentOK'
  BY <1>5 DEF WaitingOK, Informed, SentOK
<1>9. BriefOK'
  <2>1. SUFFICES ASSUME ~Faulty
                 PROVE  /\ Brief \cap chain = {}
                        /\ \A r \in Senders : \A k \in 1 .. Len(pending'[r]) :
                             (pending'[r][k].adds \cup pending'[r][k].drops) \cap Brief = {}
    BY <1>2, <1>3, <1>5, <2>1 DEF BriefOK, Faulty
  <2>2. SafeStep(network, script, now, Here)
    BY <1>1, OutlineSteps DEF now, body, Here
  <2>3. /\ Here.known \subseteq chain /\ Here.held \subseteq chain
        /\ Brief \cap chain \subseteq Here.brief
    BY <1>1, <2>1 DEF IInv, Informed, BriefOK
  <2>4. ASSUME Here.brief # {}
        PROVE  FALSE
    <3>1. now.does = "await" /\ now.bars = {} /\ now.needs \subseteq Here.known \cup Here.held
      BY <1>1, <2>2, <2>4 DEF SafeStep, Tests
    <3>2. QED BY <2>3, <3>1 DEF Accepted, NeedsOf
  <2>5. QED BY <2>1, <2>3, <2>4, BriefMoves
<1>10. QED BY <1>4, <1>6, <1>7, <1>8, <1>9 DEF IInv

LEMMA MineAwaited ==
  ASSUME IInv, NEW s \in Senders, mine(s), Awaited(s), Accepted(now)
  PROVE  IInv'
<1>1. /\ status = "waiting" /\ Standing /\ script.sender = s /\ Len(pending[s]) = 1
      /\ now = pending[s][1] /\ Head(pending[s]) = now /\ now.does \in {"deploy", "await"}
      /\ pending'[s] = <<>> /\ step \in 1 .. Len(body) /\ Len(body) \in Nat
      /\ network \in Network /\ script \in Scripts(network)
      /\ now \in TransactionsBy(network, s)
  BY AwaitedStep
<1>2. /\ step' = step + 1 /\ status' = "running" /\ Standing'
      /\ records' = records \cup (IF now.does = "deploy" THEN now.needs ELSE {})
      /\ UNCHANGED <<network, migrations, zero, crashes, losses, command, place, script, tries>>
  BY <1>1 DEF mine, Standing
<1>3. chain' = (chain \ now.drops) \cup now.adds
  BY <1>1, HeadArrives DEF After
<1>4. /\ PendingOK' /\ FeedsOK' /\ OrderOK' /\ HandedOver' /\ MigratedMeansDone'
      /\ chain \ Dropped(network) \subseteq chain'
      /\ losses = 0 => \A k \in 1 .. Len(pending[s]) : Sure(s, k + 1) \subseteq Sure(s, k)'
  BY MinedWorld
<1>5. ControlOK' /\ CountsOK' /\ RecordsOK' /\ WaitingOK'
  BY <1>1, <1>2 DEF IInv, ControlOK, CountsOK, RecordsOK, WaitingOK, body
<1>6. /\ Here'.known \subseteq Here.known \cup Learnt(network, now)
      /\ Here'.names \subseteq Here.names \cup NamesAfter(now)
      /\ Here'.sent \subseteq Here.sent \cup Learnt(network, now)
      /\ Here'.held \subseteq BriefAfter(now, Here.held)
      /\ BriefAfter(now, Here.brief) \subseteq Here'.brief
  <2>1. Follows(Outline[network][script.id][step + 1], Afterwards(network, now, Here))
    BY <1>1, OutlineSteps DEF Here, now, body, Ends
  <2>2. Here' = Outline[network][script.id][step + 1]
    BY <1>2 DEF Here
  <2>3. QED BY <1>1, <2>1, <2>2, AfterFields
<1>7. Learnt(network, now) \subseteq chain' \ Dropped(network) /\ NamesAfter(now) \subseteq records'
  <2>1. now.does = "await" => now.needs \subseteq chain
    BY DEF Accepted, NeedsOf
  <2>2. Learnt(network, now) \subseteq chain' \ Dropped(network)
    BY <1>1, <1>3, <1>4, <2>1 DEF Learnt, Mined
  <2>3. QED BY <1>1, <1>2, <2>2 DEF NamesAfter
<1>8. (Here.known \cup Here.sent) \cap Dropped(network) = {} /\ Here.held \subseteq Brief
  BY <1>1, OutlineShape DEF Here, body
<1>9. Informed'
  <2>1. Here.known \subseteq chain /\ Here.names \subseteq records
    BY <1>1 DEF IInv, Informed
  <2>2. QED BY <1>1, <1>2, <1>4, <1>6, <1>7, <1>8, <2>1 DEF Informed
<1>10. SentOK'
  <2>1. losses = 0 => Here.sent \subseteq Sure(s, 2)
    BY <1>1 DEF IInv, SentOK
  <2>2. losses = 0 => Sure(s, 2) \subseteq Sure(s, 1)'
    <3>1. 1 \in 1 .. Len(pending[s]) /\ 1 + 1 = 2
      BY <1>1
    <3>2. QED BY <1>4, <3>1
  <2>3. chain' \ Dropped(network) \subseteq Sure(s, 1)'
    BY <1>2 DEF Sure
  <2>4. losses' = 0 /\ Standing' => Here'.sent \subseteq Sure(s, 1)'
    BY <1>2, <1>6, <1>7, <2>1, <2>2, <2>3
  <2>5. s = script'.sender /\ 1 = Len(pending'[s]) + 1
    BY <1>1, <1>2
  <2>6. QED BY <2>4, <2>5, SentIs
<1>11. BriefOK'
  <2>1. SUFFICES ASSUME ~Faulty
                 PROVE  /\ Brief \cap chain' \subseteq Here'.brief /\ Here'.held \subseteq chain'
                        /\ \A r \in Senders : \A k \in 1 .. Len(pending'[r]) :
                             (pending'[r][k].adds \cup pending'[r][k].drops) \cap Brief = {}
    BY <1>2, <2>1 DEF BriefOK, Faulty
  <2>2. Brief \cap chain \subseteq Here.brief /\ Here.held \subseteq chain
    BY <1>1, <2>1 DEF IInv, BriefOK
  <2>3. Brief \cap chain' \subseteq Here'.brief /\ Here'.held \subseteq chain'
    <3>1. CASE now.does = "await"
      BY <1>3, <1>6, <2>2, <3>1 DEF BriefAfter
    <3>2. CASE now.does = "deploy"
      <4>1. (now.adds \cup now.drops) \cap Brief = {}
        BY <1>1, <3>2, TransactionFacts
      <4>2. QED BY <1>3, <1>6, <1>8, <2>2, <3>2, <4>1 DEF BriefAfter
    <3>3. QED BY <1>1, <3>1, <3>2
  <2>4. QED BY <1>1, <2>1, <2>3, BriefMoves
<1>12. QED BY <1>4, <1>5, <1>9, <1>10, <1>11 DEF IInv

LEMMA MineIInv == ASSUME NEW s \in Senders PROVE IInv /\ mine(s) => IInv'
BY MineOther, MineReverts, MineAwaited

-----------------------------------------------------------------------------
LEMMA StepIInv == IInv /\ [Next]_vars => IInv'
<1> SUFFICES ASSUME IInv, [Next]_vars PROVE IInv'
  OBVIOUS
<1>1. CASE Operate
  BY <1>1, StartIInv, RetryIInv DEF Operate
<1>2. CASE Proceed
  BY <1>2, NextIInv, GetIInv, CheckIInv, ThrowIInv, ConditionIInv, SaveIInv, SendIInv,
     SubmitIInv, RefusedIInv, ReuseIInv, RecordIInv, ReturnFalseIInv DEF Proceed
<1>3. CASE Mine
  BY <1>3, MineIInv DEF Mine
<1>4. CASE \E s \in Senders : lose(s)
  BY <1>4, LoseIInv
<1>5. CASE crash
  BY <1>5, CrashIInv
<1>6. CASE UNCHANGED vars
  <2>1. /\ ControlOK' /\ CountsOK' /\ WaitingOK' /\ Informed' /\ RecordsOK' /\ BriefOK'
    BY <1>6 DEF vars, script_, IInv, ControlOK, CountsOK, WaitingOK, Informed, RecordsOK,
       BriefOK, Standing, Here, now, body, Faulty
  <2>2. PendingOK' /\ FeedsOK' /\ OrderOK' /\ HandedOver' /\ MigratedMeansDone'
    BY <1>6, WorldKept, EvidenceKept DEF vars, IInv
  <2>3. SentOK'
    BY <1>6 DEF vars, script_, IInv, SentOK, Standing, Here, Sure
  <2>4. QED BY <2>1, <2>2, <2>3 DEF IInv
<1>7. QED BY <1>1, <1>2, <1>3, <1>4, <1>5, <1>6 DEF Next

(* Whatever is killed, forgotten, mined late or run again, a script stands     *)
(* only where its outline is true, of the chain, of the records and of what is *)
(* on the way.                                                                 *)
THEOREM DeploymentInvariant == Spec => []IInv
BY InitIInv, StepIInv, PTL DEF Spec

LEMMA InvariantTypes == IInv => TypeOK
<1> SUFFICES ASSUME IInv PROVE TypeOK
  OBVIOUS
<1>1. status \in {"running", "waiting", "failed"} => script # NoScript
  BY SenderKnown DEF IInv, ControlOK, Standing
<1>2. DOMAIN pending = Senders
  BY DEF IInv, PendingOK
<1>3. tries \in 0 .. (Retries + 1)
  BY DeploymentAssumption DEF IInv, CountsOK, DeploymentAssumption
<1>4. QED BY <1>1, <1>2, <1>3 DEF IInv, ControlOK, CountsOK, RecordsOK, TypeOK, Standing

(* No script that the migrations have is run again: hardhat-deploy looks each  *)
(* one up when its turn comes.                                                 *)
THEOREM DeploymentTypes == Spec => []TypeOK
BY DeploymentInvariant, InvariantTypes, PTL

(* The scripts that point the oracle aggregator at a wrapper read a price of   *)
(* the wrapper first, and nothing takes a feed away: on every network, however *)
(* late the feed was mined and whatever was forgotten, an asset the aggregator *)
(* points at a wrapper has a price there.                                      *)
THEOREM NoUnfedOracle == Spec => []PointedAtFeed
<1>1. IInv => PointedAtFeed
  BY DEF IInv, FeedsOK, PointedAtFeed
<1>2. QED BY <1>1, DeploymentInvariant, PTL

(* The lending scripts read a proxy's address from the provider and save it:   *)
(* each waits for the transaction that makes the proxy, so what is saved is    *)
(* never the zero address, but for the proxy of the incentives.                *)
THEOREM RightProxies == Spec => []ProxiesSaved
<1>1. IInv => ProxiesSaved
  BY DEF IInv, RecordsOK, ProxiesSaved
<1>2. QED BY <1>1, DeploymentInvariant, PTL

(* Scripts return true with transactions still pending, and later ones use     *)
(* what those are to do: what .migrations.json says is done is done, or on the *)
(* way, though commands were killed and scripts passed over what was there.    *)
THEOREM MigrationsTrue == Spec => []MigratedMeansDone
<1>1. IInv => MigratedMeansDone
  BY DEF IInv
<1>2. QED BY <1>1, DeploymentInvariant, PTL

(* The emission manager is handed to its last owner by a transaction that is   *)
(* not waited for: it is mined after the one that gives it a rewards           *)
(* controller, which only the first owner may.  That one may give it the zero  *)
(* address; the theorem is about the order of the two.                         *)
THEOREM OwnershipPassesLast ==
  Spec => [](losses = 0 /\ FinalOwner \in chain => ControllerGiven \in chain)
<1>1. IInv => (losses = 0 /\ FinalOwner \in chain => ControllerGiven \in chain)
  BY DEF IInv, HandedOver
<1>2. QED BY <1>1, DeploymentInvariant, PTL

(* Scripts make the helper contract a risk admin, wait for its work and take   *)
(* the role back: between the two transactions none of them can throw or end.  *)
THEOREM AdminGoes == Spec => []RiskAdminIsTemporary
<1>1. IInv => RiskAdminIsTemporary
  BY DEF IInv, BriefOK, Brief, Standing, RiskAdminIsTemporary
<1>2. QED BY <1>1, DeploymentInvariant, PTL

-------------------------------------------------------------------------------
(* The reporter of the liquidation bots.                                       *)

Positions == [healthFactor : HealthFactor, indebted : BOOLEAN]

\* The parts of the invariant.

MarketOK ==
  /\ known \subseteq User
  /\ position \in [User -> Positions]
  /\ delivered \in SUBSET (User \X HealthFactor)

\* Every user of a check is still to be read or is read, and only once.
CheckOK ==
  /\ pc \in {"asleep", "reading", "alerting", "stats", "down"}
  /\ toRead \in Seq(known)
  /\ \A i, j \in DOMAIN toRead : toRead[i] = toRead[j] => i = j
  /\ DOMAIN read \subseteq known
  /\ \A u \in DOMAIN read : read[u] \in Positions
  /\ \A i \in DOMAIN toRead : toRead[i] \notin DOMAIN read
  /\ message \in SUBSET (User \X HealthFactor)

MemoryOK ==
  /\ DOMAIN lastHealthFactors \subseteq known
  /\ pc = "down" => lastHealthFactors = Nobody

\* Of a user there is nothing new to tell about, what was read in this check and
\* what was reported are what the market says.
UpToDate ==
  \A u \in User \ news :
    /\ u \in DOMAIN lastHealthFactors
    /\ lastHealthFactors[u] = position[u].healthFactor
    /\ u \in DOMAIN read => read[u] = position[u]

ReporterIInv == MarketOK /\ CheckOK /\ MemoryOK /\ UpToDate

LEMMA ReporterInvariantTypes == ReporterIInv => ReporterTypeOK
<1> SUFFICES ASSUME ReporterIInv PROVE ReporterTypeOK
  OBVIOUS
<1>1. ToSet(toRead) \subseteq known
  BY DEF ReporterIInv, CheckOK, ToSet
<1>2. ToSet(toRead) \cap DOMAIN read = {}
  BY DEF ReporterIInv, CheckOK, ToSet
<1>3. QED BY <1>1, <1>2 DEF ReporterIInv, MarketOK, CheckOK, MemoryOK, ReporterTypeOK, Positions

LEMMA NothingRead ==
  /\ <<>> \in Seq(known)
  /\ DOMAIN <<>> = {} /\ DOMAIN Nobody = {}
BY DEF Nobody

LEMMA ReporterInitIInv == ReporterInit => ReporterIInv
<1> SUFFICES ASSUME ReporterInit PROVE ReporterIInv
  OBVIOUS
<1>1. MarketOK
  BY DEF ReporterInit, MarketOK, Positions
<1>2. CheckOK
  BY NothingRead DEF ReporterInit, CheckOK
<1>3. MemoryOK
  BY NothingRead DEF ReporterInit, MemoryOK
<1>4. UpToDate
  BY DEF ReporterInit, UpToDate
<1>5. QED BY <1>1, <1>2, <1>3, <1>4 DEF ReporterIInv

LEMMA ExitIInv == ReporterIInv /\ Exit => ReporterIInv'
<1> SUFFICES ASSUME ReporterIInv, Exit PROVE ReporterIInv'
  OBVIOUS
<1>1. /\ toRead' = <<>> /\ read' = Nobody /\ message' = {}
      /\ pc' = "down" /\ lastHealthFactors' = Nobody /\ news' = User
      /\ known' = known /\ position' = position /\ delivered' = delivered
  BY DEF Exit, Afresh, marketVars
<1>2. MarketOK' /\ UpToDate'
  BY <1>1 DEF ReporterIInv, MarketOK, UpToDate
<1>3. <<>> \in Seq(known')
  OBVIOUS
<1>4. CheckOK' /\ MemoryOK'
  BY <1>1, <1>3, NothingRead DEF CheckOK, MemoryOK
<1>5. QED BY <1>2, <1>4 DEF ReporterIInv

(* The users that are listed are those known, each once.                       *)
LEMMA ListedOnce ==
  ASSUME ReporterIInv, NEW s \in SetToSeqs(known)
  PROVE  s \in Seq(known) /\ \A i, j \in DOMAIN s : s[i] = s[j] => i = j
<1>1. Cardinality(known) \in Nat
  BY ReporterAssumption, FS_Subset, FS_CardinalityType
     DEF ReporterAssumption, ReporterIInv, MarketOK
<1>2. /\ s \in [1 .. Cardinality(known) -> known]
      /\ \A i, j \in 1 .. Cardinality(known) : i # j => s[i] # s[j]
  BY DEF SetToSeqs
<1>3. QED BY <1>1, <1>2

LEMMA ListIInv == ReporterIInv /\ listUsers => ReporterIInv'
<1> SUFFICES ASSUME ReporterIInv, listUsers PROVE ReporterIInv'
  OBVIOUS
<1>1. CASE Exit
  BY <1>1, ExitIInv
<1>2. CASE /\ toRead' \in SetToSeqs(known) /\ Afresh /\ pc' = "reading"
           /\ UNCHANGED <<marketVars, budget, lastHealthFactors, statsDue, delivered, news>>
  <2>1. /\ read' = Nobody /\ message' = {} /\ pc' = "reading"
        /\ UNCHANGED <<known, position, delivered, lastHealthFactors, news>>
    BY <1>2 DEF Afresh, marketVars
  <2>2. toRead' \in Seq(known) /\ \A i, j \in DOMAIN toRead' : toRead'[i] = toRead'[j] => i = j
    BY <1>2, ListedOnce
  <2>3. MarketOK' /\ MemoryOK'
    BY <2>1 DEF ReporterIInv, MarketOK, MemoryOK
  <2>4. CheckOK'
    BY <2>1, <2>2, NothingRead DEF CheckOK
  <2>5. UpToDate'
    BY <2>1, NothingRead DEF ReporterIInv, UpToDate
  <2>6. QED BY <2>3, <2>4, <2>5 DEF ReporterIInv
<1>3. QED BY <1>1, <1>2 DEF listUsers

LEMMA ReadIInv == ReporterIInv /\ readUser => ReporterIInv'
<1> SUFFICES ASSUME ReporterIInv, readUser PROVE ReporterIInv'
  OBVIOUS
<1>1. CASE Exit
  BY <1>1, ExitIInv
<1>2. CASE /\ read' = [u \in DOMAIN read \cup {Head(toRead)} |->
                         IF u = Head(toRead) THEN position[u] ELSE read[u]]
           /\ toRead' = Tail(toRead)
           /\ UNCHANGED <<marketVars, budget, pc, message, lastHealthFactors, statsDue,
                          delivered, news>>
  <2> DEFINE first == Head(toRead)
  <2>1. /\ toRead # <<>> /\ toRead \in Seq(known)
        /\ UNCHANGED <<known, position, delivered, lastHealthFactors, news, pc, message>>
    BY <1>2 DEF readUser, marketVars, ReporterIInv, CheckOK
  <2>2. /\ first = toRead[1] /\ 1 \in DOMAIN toRead /\ first \in known
        /\ toRead' \in Seq(known)
        /\ \A i \in DOMAIN toRead' : /\ i \in Nat /\ i + 1 \in DOMAIN toRead /\ i + 1 # 1
                                     /\ toRead'[i] = toRead[i + 1]
    BY <1>2, <2>1
  <2>3. /\ \A i, j \in DOMAIN toRead : toRead[i] = toRead[j] => i = j
        /\ DOMAIN read \subseteq known /\ \A u \in DOMAIN read : read[u] \in Positions
        /\ \A i \in DOMAIN toRead : toRead[i] \notin DOMAIN read
        /\ position \in [User -> Positions] /\ known \subseteq User
    BY DEF ReporterIInv, CheckOK, MarketOK
  <2>4. /\ DOMAIN read' = DOMAIN read \cup {first}
        /\ read'[first] = position[first]
        /\ \A u \in DOMAIN read \ {first} : read'[u] = read[u]
    BY <1>2
  <2> HIDE DEF first
  <2>5. \A i, j \in DOMAIN toRead' : toRead'[i] = toRead'[j] => i = j
    <3>1. SUFFICES ASSUME NEW i \in DOMAIN toRead', NEW j \in DOMAIN toRead',
                          toRead'[i] = toRead'[j]
                   PROVE  i = j
      OBVIOUS
    <3>2. i + 1 = j + 1
      BY <2>2, <2>3, <3>1
    <3>3. QED BY <2>2, <3>2
  <2>6. \A i \in DOMAIN toRead' : toRead'[i] \notin DOMAIN read'
    <3>1. SUFFICES ASSUME NEW i \in DOMAIN toRead' PROVE toRead'[i] \notin DOMAIN read'
      OBVIOUS
    <3>2. toRead[i + 1] # first
      BY <2>2, <2>3
    <3>3. QED BY <2>2, <2>3, <2>4, <3>2
  <2>7. DOMAIN read' \subseteq known /\ \A u \in DOMAIN read' : read'[u] \in Positions
    BY <2>2, <2>3, <2>4
  <2>8. CheckOK'
    BY <2>1, <2>2, <2>5, <2>6, <2>7 DEF ReporterIInv, CheckOK, MarketOK
  <2>9. MarketOK' /\ MemoryOK'
    BY <2>1 DEF ReporterIInv, MarketOK, MemoryOK
  <2>10. UpToDate'
    BY <2>1, <2>4 DEF ReporterIInv, UpToDate
  <2>11. QED BY <2>8, <2>9, <2>10 DEF ReporterIInv
<1>3. QED BY <1>1, <1>2 DEF readUser

(* What is remembered of the users a check read.                               *)
LEMMA Remembered ==
  ASSUME ReporterIInv
  PROVE  /\ DOMAIN remembered \subseteq known
         /\ DOMAIN read = {} \/ reported # {} =>
              /\ DOMAIN lastHealthFactors \cup reported \subseteq DOMAIN remembered
              /\ \A u \in reported : remembered[u] = read[u].healthFactor
              /\ \A u \in DOMAIN lastHealthFactors \ reported :
                     remembered[u] = lastHealthFactors[u]
<1>1. reported \subseteq DOMAIN read /\ DOMAIN read \subseteq known
      /\ DOMAIN lastHealthFactors \subseteq known
  BY DEF reported, ReporterIInv, CheckOK, MemoryOK
<1>2. CASE DOMAIN read = {}
  BY <1>1, <1>2 DEF remembered
<1>3. CASE DOMAIN read # {} /\ reported = {}
  BY <1>3, NothingRead DEF remembered
<1>4. CASE DOMAIN read # {} /\ reported # {}
  <2>1. remembered = [u \in DOMAIN lastHealthFactors \cup reported |->
                        IF u \in reported THEN read[u].healthFactor ELSE lastHealthFactors[u]]
    BY <1>4 DEF remembered
  <2>2. QED BY <1>1, <1>4, <2>1
<1>5. QED BY <1>2, <1>3, <1>4

LEMMA CompareIInv == ReporterIInv /\ compareHealthFactors => ReporterIInv'
<1> SUFFICES ASSUME ReporterIInv, compareHealthFactors PROVE ReporterIInv'
  OBVIOUS
<1>1. /\ message' = {<<u, read[u].healthFactor>> : u \in changed}
      /\ lastHealthFactors' = remembered
      /\ news' = (IF reported = {} /\ DOMAIN read # {} THEN User ELSE news)
                   \ {u \in changed : read[u] = position[u]}
      /\ pc' \in {"asleep", "alerting"}
      /\ UNCHANGED <<known, position, delivered, toRead, read>>
  BY DEF compareHealthFactors, marketVars
<1>2. changed \subseteq reported /\ reported \subseteq DOMAIN read
  BY DEF changed, reported
<1>3. /\ DOMAIN read \subseteq known /\ known \subseteq User
      /\ \A u \in DOMAIN read : read[u] \in Positions
  BY DEF ReporterIInv, CheckOK, MarketOK
<1>4. message' \in SUBSET (User \X HealthFactor)
  BY <1>1, <1>2, <1>3 DEF Positions
<1>5. MarketOK' /\ CheckOK' /\ MemoryOK'
  BY <1>1, <1>4, Remembered DEF ReporterIInv, MarketOK, CheckOK, MemoryOK
<1>6. UpToDate'
  <2>1. SUFFICES ASSUME NEW u \in User, u \notin news'
                 PROVE  /\ u \in DOMAIN lastHealthFactors'
                        /\ lastHealthFactors'[u] = position[u].healthFactor
                        /\ u \in DOMAIN read => read[u] = position[u]
    BY <1>1 DEF UpToDate
  <2>2. CASE reported = {} /\ DOMAIN read # {}
    <3>1. u \in changed
      BY <1>1, <2>1, <2>2
    <3>2. QED BY <1>2, <2>2, <3>1
  <2>3. CASE ~(reported = {} /\ DOMAIN read # {})
    <3>1. DOMAIN read = {} \/ reported # {}
      BY <2>3
    <3>2. /\ DOMAIN lastHealthFactors \cup reported \subseteq DOMAIN remembered
          /\ \A v \in reported : remembered[v] = read[v].healthFactor
          /\ \A v \in DOMAIN lastHealthFactors \ reported :
                 remembered[v] = lastHealthFactors[v]
      BY <3>1, Remembered
    <3>3. CASE u \in changed /\ read[u] = position[u]
      BY <1>1, <1>2, <3>2, <3>3
    <3>4. CASE ~(u \in changed /\ read[u] = position[u])
      <4>1. u \notin news
        BY <1>1, <2>1, <2>3, <3>4
      <4>2. /\ u \in DOMAIN lastHealthFactors
            /\ lastHealthFactors[u] = position[u].healthFactor
            /\ u \in DOMAIN read => read[u] = position[u]
        BY <4>1 DEF ReporterIInv, UpToDate
      <4>3. QED BY <1>1, <1>2, <3>2, <4>2
    <3>5. QED BY <3>3, <3>4
  <2>4. QED BY <2>2, <2>3
<1>7. QED BY <1>5, <1>6 DEF ReporterIInv

(* Steps that only send, sleep or wake up.                                     *)
LEMMA IdleIInv ==
  ASSUME ReporterIInv, UNCHANGED <<known, position, lastHealthFactors, news, toRead>>,
         delivered' \in SUBSET (User \X HealthFactor),
         pc' \in {"asleep", "stats", pc},
         UNCHANGED <<read, message>> \/ Afresh
  PROVE  ReporterIInv'
<1>1. MarketOK' /\ MemoryOK'
  BY DEF ReporterIInv, MarketOK, MemoryOK
<1>2. CASE UNCHANGED <<read, message>>
  BY <1>1, <1>2 DEF ReporterIInv, CheckOK, UpToDate
<1>3. CASE Afresh
  <2>1. read' = Nobody /\ message' = {}
    BY <1>3 DEF Afresh
  <2>2. CheckOK'
    BY <2>1, NothingRead DEF ReporterIInv, CheckOK
  <2>3. UpToDate'
    BY <2>1, NothingRead DEF ReporterIInv, UpToDate
  <2>4. QED BY <1>1, <2>2, <2>3 DEF ReporterIInv
<1>4. QED BY <1>2, <1>3

LEMMA ProcessIInv == ReporterIInv /\ Process => ReporterIInv'
<1> SUFFICES ASSUME ReporterIInv, Process PROVE ReporterIInv'
  OBVIOUS
<1>1. delivered \in SUBSET (User \X HealthFactor) /\ message \in SUBSET (User \X HealthFactor)
  BY DEF ReporterIInv, MarketOK, CheckOK
<1>2. CASE Start
  BY <1>1, <1>2, IdleIInv DEF Start, marketVars, checkVars
<1>3. CASE sendAlert
  <2>1. delivered' \in SUBSET (User \X HealthFactor)
    BY <1>1, <1>3 DEF sendAlert
  <2>2. QED BY <1>3, <2>1, IdleIInv DEF sendAlert, marketVars, checkVars
<1>4. CASE generateDetailedStats
  <2>1. CASE Exit
    BY <2>1, ExitIInv
  <2>2. CASE ~Exit
    BY <1>1, <1>4, <2>2, IdleIInv DEF generateDetailedStats, marketVars
  <2>3. QED BY <2>1, <2>2
<1>5. QED
  BY <1>2, <1>3, <1>4, ListIInv, ReadIInv, CompareIInv DEF Process

LEMMA MoveIInv == ReporterIInv /\ Move => ReporterIInv'
<1> SUFFICES ASSUME ReporterIInv, Move PROVE ReporterIInv'
  OBVIOUS
<1>1. PICK u \in User, p \in Positions :
        /\ position' = [position EXCEPT ![u] = p]
        /\ news' = news \cup {u}
  BY DEF Move, Positions
<1>2. UNCHANGED <<known, pc, toRead, read, message, lastHealthFactors, delivered>>
  BY DEF Move, checkVars
<1>3. position \in [User -> Positions]
  BY DEF ReporterIInv, MarketOK
<1>4. MarketOK'
  BY <1>1, <1>2, <1>3 DEF ReporterIInv, MarketOK
<1>5. CheckOK' /\ MemoryOK'
  BY <1>2 DEF ReporterIInv, CheckOK, MemoryOK
<1>6. UpToDate'
  BY <1>1, <1>2, <1>3 DEF ReporterIInv, UpToDate
<1>7. QED BY <1>4, <1>5, <1>6 DEF ReporterIInv

LEMMA IndexIInv == ReporterIInv /\ Index => ReporterIInv'
<1> SUFFICES ASSUME ReporterIInv, Index PROVE ReporterIInv'
  OBVIOUS
<1>1. /\ known \subseteq known' /\ known' \subseteq User
      /\ UNCHANGED <<position, pc, toRead, read, message, lastHealthFactors, delivered, news>>
  BY DEF Index, checkVars, ReporterIInv, MarketOK
<1>2. toRead' \in Seq(known')
  BY <1>1 DEF ReporterIInv, CheckOK
<1>3. MarketOK' /\ MemoryOK'
  BY <1>1 DEF ReporterIInv, MarketOK, MemoryOK
<1>4. CheckOK'
  BY <1>1, <1>2 DEF ReporterIInv, CheckOK
<1>5. UpToDate'
  BY <1>1 DEF ReporterIInv, UpToDate
<1>6. QED BY <1>3, <1>4, <1>5 DEF ReporterIInv

LEMMA ReporterNextIInv == ReporterIInv /\ [ReporterNext]_reporterVars => ReporterIInv'
<1> SUFFICES ASSUME ReporterIInv, [ReporterNext]_reporterVars PROVE ReporterIInv'
  OBVIOUS
<1>1. CASE StatsIntervalPasses \/ UNCHANGED reporterVars
  <2>1. UNCHANGED <<known, position, lastHealthFactors, news, toRead, read, message,
                    delivered, pc>>
    BY <1>1 DEF StatsIntervalPasses, reporterVars, marketVars, checkVars
  <2>2. delivered' \in SUBSET (User \X HealthFactor)
    BY <2>1 DEF ReporterIInv, MarketOK
  <2>3. QED BY <2>1, <2>2, IdleIInv
<1>2. QED
  BY <1>1, ProcessIInv, MoveIInv, IndexIInv DEF ReporterNext

LEMMA ReporterInductive == ReporterSpec => []ReporterIInv
BY ReporterInitIInv, ReporterNextIInv, PTL DEF ReporterSpec

(* Whatever fails and however the market moves during a check, no user is read *)
(* twice in it and nobody is remembered that the subgraph does not know.       *)
THEOREM ReporterTypes == ReporterSpec => []ReporterTypeOK
BY ReporterInductive, ReporterInvariantTypes, PTL

LEMMA AlertIsNews ==
  ASSUME ReporterIInv, [ReporterNext]_reporterVars, NEW u \in User, pc = "reading",
         <<u, position[u].healthFactor>> \in message' \ message
  PROVE  u \in news
<1> SUFFICES ASSUME u \notin news PROVE FALSE
  OBVIOUS
<1>1. /\ u \in DOMAIN lastHealthFactors
      /\ lastHealthFactors[u] = position[u].healthFactor
  BY DEF ReporterIInv, UpToDate
<1>2. CASE compareHealthFactors
  <2>1. PICK v \in changed : <<u, position[u].healthFactor>> = <<v, read[v].healthFactor>>
    BY <1>2 DEF compareHealthFactors
  <2>2. lastHealthFactors[u] # position[u].healthFactor
    BY <1>1, <2>1 DEF changed
  <2>3. QED BY <1>1, <2>2
<1>3. ASSUME ~compareHealthFactors PROVE message' = {} \/ message' = message
  BY <1>3 DEF ReporterNext, Process, Start, listUsers, readUser, sendAlert, generateDetailedStats,
       Exit, Afresh, Move, Index, StatsIntervalPasses, reporterVars, checkVars
<1>4. QED BY <1>2, <1>3

(* Whatever was read when, nobody is alerted to a user whose position did not  *)
(* move since it was reported.                                                 *)
THEOREM Quiet == ReporterSpec => QuietWhileUnchanged
<1>1. ReporterIInv /\ [ReporterNext]_reporterVars
        => [\A u \in User : <<u, position[u].healthFactor>> \in message' \ message
                              /\ pc = "reading" => u \in news]_reporterVars
  BY AlertIsNews
<1>2. QED BY <1>1, ReporterInductive, PTL DEF ReporterSpec, QuietWhileUnchanged
===============================================================================
