----------------------------- MODULE IgnoreMemory -----------------------------
(* ShortTermIgnoreMemory of utils/utils.ts: the users a bot leaves alone for   *)
(* a while. Each bot has a memory of its own in the process; all the memories  *)
(* of a network share one file, ignoreMemory.json, which a memory loads when   *)
(* it is first used and rewrites whole at every change. An entry holds the     *)
(* time it has left; one with none left is still there until it is looked up.  *)
EXTENDS Naturals, FiniteSets

CONSTANTS
  Bot,              \* the bots, each with a memory
  User,             \* the accounts of the lending market, by their ids
  IgnoreDuration    \* [Bot -> Nat], how long a memory ignores a user

ASSUME IgnoreAssumption ==
  /\ User \subseteq Nat \ {0} /\ IsFiniteSet(User)
  /\ IgnoreDuration \in [Bot -> Nat \ {0}]

VARIABLES
  memory,           \* [Bot -> the entries of the bot's memory]
  isInitialized,    \* [Bot -> whether the memory has looked at the file]
  memoryFile        \* the shared file

memoryVars == <<memory, isInitialized, memoryFile>>

NoEntries == [u \in {} |-> 0]

Entries(duration) == UNION {[S -> 0 .. duration] : S \in SUBSET User}

AbsentFile == [status |-> "absent", ignoreDuration |-> 0, memory |-> NoEntries]

FileOf(b, entries) ==
  [status |-> "whole", ignoreDuration |-> IgnoreDuration[b], memory |-> entries]

(* A file whose writer died between truncating and filling it is no JSON.      *)
TornFile == [AbsentFile EXCEPT !.status = "torn"]

(* Loading throws on a file that does not parse and on one that was written    *)
(* with another duration.                                                      *)
CanInitialize(b) ==
  \/ isInitialized[b]
  \/ memoryFile.status = "absent"
  \/ memoryFile.status = "whole" /\ memoryFile.ignoreDuration = IgnoreDuration[b]

(* The entries once initializeIfNeeded has returned.                           *)
initialized(b) ==
  IF ~isInitialized[b] /\ memoryFile.status = "whole"
  THEN memoryFile.memory ELSE memory[b]

Keep(b, entries) ==
  /\ memory' = [memory EXCEPT ![b] = entries]
  /\ isInitialized' = [isInitialized EXCEPT ![b] = TRUE]

neverDump(b, entries) == UNCHANGED memoryFile

dumpToFileIfNeeded(b, entries) == memoryFile' = FileOf(b, entries)

(* The entries with a user put away from now on.                               *)
withUser(b, u) ==
  [w \in DOMAIN initialized(b) \cup {u} |->
    IF w = u THEN IgnoreDuration[b] ELSE initialized(b)[w]]

putIfReadable(b, u) ==
  IF CanInitialize(b)
  THEN Keep(b, withUser(b, u)) /\ dumpToFileIfNeeded(b, withUser(b, u))
  ELSE UNCHANGED memoryVars

put(b, u) ==
  /\ CanInitialize(b)
  /\ Keep(b, withUser(b, u))
  /\ dumpToFileIfNeeded(b, withUser(b, u))

isIgnored(b, u) == u \in DOMAIN initialized(b) /\ initialized(b)[u] > 0

(* Looking users up forgets those whose time has run out, and rewrites the     *)
(* file when there was one.                                                    *)
lookUp(b, users) ==
  LET expired == {u \in users \cap DOMAIN initialized(b) : ~isIgnored(b, u)}
      left == [u \in DOMAIN initialized(b) \ expired |-> initialized(b)[u]]
  IN  /\ CanInitialize(b)
      /\ Keep(b, left)
      /\ IF expired = {} THEN UNCHANGED memoryFile ELSE dumpToFileIfNeeded(b, left)

(* The process dies: what it remembered is gone, the file is not.              *)
Forget ==
  /\ memory' = [b \in Bot |-> NoEntries]
  /\ isInitialized' = [b \in Bot |-> FALSE]

OneLess(entries) ==
  [u \in DOMAIN entries |-> IF entries[u] > 0 THEN entries[u] - 1 ELSE 0]

Elapse ==
  /\ memory' = [b \in Bot |-> OneLess(memory[b])]
  /\ memoryFile' = [memoryFile EXCEPT !.memory = OneLess(@)]
  /\ UNCHANGED isInitialized
=============================================================================
