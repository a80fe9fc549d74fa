--------------------------- MODULE DeployOutline ---------------------------
(***************************************************************************)
(* The scripts of a migration, and what each of them may rely on.  Outline *)
(* says what is so when a script stands at a step, whatever was killed,    *)
(* forgotten or delayed before: an outline of the proof that the script    *)
(* does what it should.  It is computed step by step from what each step   *)
(* leaves, and OutlineAssumption says that it is one: that each step may   *)
(* be taken where it is taken.                                             *)
(***************************************************************************)
EXTENDS DeployCommands

Scripts(n) == UNION {ToSet(queue) : queue \in ToSet(Queues[n])}

NoScript == Script("none", {}, <<>>, <<>>)

-----------------------------------------------------------------------------
(* Transactions.  What a deployment needs is a name, and nothing of the    *)
(* chain.                                                                  *)
Sends(t)   == t.does \in {"deploy", "send", "await"}
NeedsOf(t) == IF t.does = "deploy" THEN {} ELSE t.needs

Sendings ==
    UNION {UNION {{<<n, s.sender, t>> : t \in {u \in ToSet(s.body) : Sends(u)}} :
                      s \in Scripts(n)} : n \in Network}
TransactionsBy(n, sender) ==
    {sending[3] : sending \in {x \in Sendings : x[1] = n /\ x[2] = sender}}
Transactions(n) == {sending[3] : sending \in {x \in Sendings : x[1] = n}}

(* Facts that do not last, and those meant to last no longer than a script. *)
Dropped(n) == UNION {t.drops : t \in Transactions(n)}
Brief      == {Role("riskAdmin")}

(* What has to be there before the price of an asset is asked for.         *)
Required(fact) ==
    IF fact[1] = "oracle" /\ fact[3] \in {API3, Thresholding, Composite, Curve}
    THEN PriceOf(fact[3], fact[2]) ELSE {}
RequiredBy(t) == UNION {Required(fact) : fact \in t.adds}

FinalOwner == <<"emissionManager", "final">>

(* What has to be sent before a transaction: a rewards controller before   *)
(* ownership passes on, and all that needs what the transaction takes away. *)
NeededIn(n, facts) ==
    UNION {t.adds : t \in {u \in Transactions(n) : NeedsOf(u) \intersect facts # {}}}
Preceding(n, t) ==
    ((NeededIn(n, t.drops \ Brief) \ Dropped(n)) \ t.adds)
      \union (IF FinalOwner \in t.adds THEN {ControllerGiven} ELSE {})

-----------------------------------------------------------------------------
(* What is so at a step.                                                   *)
(*   known   facts that last and hold                                      *)
(*   names   deployments that are saved                                    *)
(*   sent    facts that last and hold, or are on the way, if nothing was   *)
(*           forgotten                                                     *)
(*   clear   the sender has nothing pending                                *)
(*   held    brief facts that hold, if nothing was killed or forgotten     *)
(*   brief   brief facts that may hold then, and no others do              *)
Assertion(known, names, sent, clear, held, brief) ==
    [known |-> known, names |-> names, sent |-> sent, clear |-> clear,
     held |-> held, brief |-> brief]
Nothing == Assertion({}, {}, {}, FALSE, {}, {})

Follows(b, a) ==
    /\ b.known \subseteq a.known
    /\ b.names \subseteq a.names
    /\ b.sent \subseteq a.sent
    /\ b.clear => a.clear
    /\ b.held \subseteq a.held
    /\ a.brief \subseteq b.brief

(* What a step leaves that was carried out; a condition is carried out     *)
(* when its steps are next.                                                *)
Mined(n, t) == t.does = "await" \/ (t.does = "send" /\ isLocalNetwork(n))
Learnt(n, t) ==
    ((IF t.does \in {"check", "send", "await"} THEN t.needs ELSE {})
      \union (IF Mined(n, t) THEN t.adds ELSE {})) \ Dropped(n)
NamesAfter(t) ==
    IF t.does \in {"get", "deploy"} THEN t.needs
    ELSE IF t.does = "save" THEN t.adds ELSE {}
BriefAfter(t, facts) ==
    IF t.does = "await" THEN (facts \ t.drops) \union (t.adds \intersect Brief)
    ELSE facts

Afterwards(n, t, a) ==
    Assertion(a.known \union Learnt(n, t),
              a.names \union NamesAfter(t),
              a.sent \union Learnt(n, t)
                \union (IF t.does = "send" THEN t.adds \ Dropped(n) ELSE {}),
              t.does = "await" \/ (t.does # "send" /\ a.clear),
              BriefAfter(t, a.held),
              BriefAfter(t, a.brief))

(* What is so behind the steps that a condition passes over.               *)
PassedOver(n, t, a) ==
    Assertion(a.known \union (IF t.does = "unless" THEN t.needs \ Dropped(n) ELSE {}),
              a.names \union (IF t.does = "unlessSaved" THEN t.needs ELSE {}),
              a.sent \union (IF t.does = "unless" THEN t.needs \ Dropped(n) ELSE {}),
              a.clear, a.held, a.brief)

(* What a transaction of a script relies on.  One that is barred adds but  *)
(* the fact that bars it, and so is done already when it reverts.          *)
SafeTransaction(n, s, t, a) ==
    /\ RequiredBy(t) \subseteq a.known
    /\ Preceding(n, t) \subseteq
           (IF t.does = "send" /\ isLocalNetwork(n) THEN a.known ELSE a.sent)
    /\ \A fact \in t.bars : t.adds \ Dropped(n) \subseteq {fact}
    /\ (NeedsOf(t) \union t.drops) \intersect Brief # {} => s.sender = "deployer"
    /\ NeedsOf(t) \intersect Brief # {} => a.clear
    /\ t.does # "await" => (t.adds \union t.drops) \intersect Brief = {}
    /\ t.does = "deploy" => t.bars = {} /\ t.drops = {}

Ends(t)  == t.does \in {"throw", "return"}
Tests(t) == t.does \in {"unless", "unlessSaved", "unlessZero"}

(* A script may not end, nor throw, before it has taken back what is brief. *)
SafeStep(n, s, t, a) ==
    /\ Sends(t) => SafeTransaction(n, s, t, a)
    /\ t.does = "save" =>
           t.needs \subseteq a.known \/ t.adds \subseteq {"IncentivesProxy"}
    /\ a.brief # {} =>
           \/ Tests(t)
           \/ t.does = "await" /\ t.bars = {} /\ t.needs \subseteq a.known \union a.held

Steps ==
    {"get", "check", "throw", "return", "unless", "unlessSaved", "unlessZero", "save",
     "deploy", "send", "await"}

SoundOutline(n, s, outline) ==
    /\ s.body \in Seq(ToSet(s.body)) /\ outline \in Seq(ToSet(outline))
    /\ Len(outline) = Len(s.body) + 1
    /\ \A a \in ToSet(outline) :
           /\ (a.known \union a.sent) \intersect Dropped(n) = {}
           /\ a.held \subseteq Brief
    /\ Follows(outline[1], Nothing)
    /\ outline[Len(outline)].brief = {}
    /\ \A k \in 1..Len(s.body) :
           LET t == s.body[k] IN
           /\ t.does \in Steps
           /\ SafeStep(n, s, t, outline[k])
           /\ Ends(t) \/ Follows(outline[k + 1], Afterwards(n, t, outline[k]))
           /\ Tests(t) =>
                  /\ t.length \in 0..(Len(s.body) - k)
                  /\ Follows(outline[k + 1 + t.length],
                             PassedOver(n, t, outline[k]))

-----------------------------------------------------------------------------
(* The outline of a script: what is so at a step is what the steps leave   *)
(* from which the script comes there, all of it that they agree on.        *)
Meet(a, b) ==
    Assertion(a.known \intersect b.known, a.names \intersect b.names,
              a.sent \intersect b.sent, a.clear /\ b.clear,
              a.held \intersect b.held, a.brief \union b.brief)

Comes(n, s, outline, k) ==
    (IF k = 1 THEN {Nothing}
     ELSE IF Ends(s.body[k - 1]) THEN {}
     ELSE {Afterwards(n, s.body[k - 1], outline[k - 1])})
      \union {PassedOver(n, s.body[j], outline[j]) :
                 j \in {i \in 1..(k - 1) : Tests(s.body[i])
                                            /\ i + 1 + s.body[i].length = k}}

At(n, s, outline, k) ==
    LET ways == Comes(n, s, outline, k) IN
    IF ways = {} THEN Nothing ELSE FoldSet(Meet, CHOOSE a \in ways : TRUE, ways)

OutlineOf(n, s) ==
    LET upTo[k \in 0..(Len(s.body) + 1)] ==
            IF k = 0 THEN <<>>
            ELSE LET outline == upTo[k - 1] IN Append(outline, At(n, s, outline, k))
    IN upTo[Len(s.body) + 1]

OutlinesOn(n) == FunctionOf({<<s.id, OutlineOf(n, s)>> : s \in Scripts(n)})
Outline == FunctionOf({<<n, OutlinesOn(n)>> : n \in Network})

-----------------------------------------------------------------------------
(* What a script that has run leaves: the names it saves, and the facts    *)
(* that no script removes.                                                 *)
Collect(s, does, Of(_)) ==
    FoldLeft(LAMBDA all, t : IF t.does \in does THEN all \union Of(t) ELSE all,
             {}, s.body)
Saved(t) == IF t.does = "deploy" THEN t.needs ELSE t.adds
Adds(t)  == t.adds
Drops(t) == t.drops

Temporary(scripts) == UNION {Collect(s, {"send", "await"}, Drops) : s \in scripts}

Left(scripts) ==
    {[id    |-> s.id,
      names |-> Collect(s, {"deploy", "save"}, Saved),
      facts |-> Collect(s, {"deploy", "await", "send"}, Adds)
                  \ Temporary(scripts)] : s \in scripts}

Evidence == FunctionOf({<<n, Left(ToSet(Queues[n][1]))>> : n \in Network})

(* Names saved as contracts deployed, and as addresses read of the chain.  *)
SavedBy(n, does) == UNION {Collect(s, {does}, Saved) : s \in Scripts(n)}

(* The scripts do what they should, each by itself.                        *)
ASSUME OutlineAssumption ==
    /\ Network \subseteq Networks
    /\ RunBook \in Seq(ToSet(RunBook)) /\ RunBook # <<>>
    /\ \A n \in Network :
           /\ Queues[n] \in Seq(ToSet(Queues[n]))
           /\ Len(Queues[n]) = Len(RunBook)
           /\ \A queue \in ToSet(Queues[n]) : queue \in Seq(ToSet(queue))
           /\ \A s \in Scripts(n) :
                  /\ s.sender \in Senders
                  /\ SoundOutline(n, s, Outline[n][s.id])
                  /\ \A left \in Evidence[n] : left.id = s.id =>
                         LET end == Outline[n][s.id][Len(s.body) + 1] IN
                         left.names \subseteq end.names /\ left.facts \subseteq end.sent
           /\ \A left \in Evidence[n] : left.facts \intersect Dropped(n) = {}
           /\ NoScript \notin Scripts(n)
           /\ SavedBy(n, "deploy") \intersect SavedBy(n, "save") = {}
=============================================================================
