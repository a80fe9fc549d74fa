----------------------------- MODULE UniV3Proofs -----------------------------
(***************************************************************************)
(* Theorems about UniV3AmoVault, for any number of positions and amounts:  *)
(* the vault's two records agree, and what the vault reports it has.       *)
(***************************************************************************)
EXTENDS UniV3AmoVault, ArithmeticTheorems, SequenceTheorems

Entries   == [tokenId : TokenId, liquidity : Uint128]
Positions == [owner : {Vault, Outsider}, liquidity : Uint128, owed : Uint128]

(* The parts of the invariant. *)

ArrayOK ==
    /\ positionsArray \in Seq(Entries)
    /\ \A i, j \in DOMAIN positionsArray :
           positionsArray[i].tokenId = positionsArray[j].tokenId => i = j

MappingOK ==
    /\ tracked \subseteq TokenId
    /\ positionsMapping \in [tracked -> Uint128]

\* The array has what the mapping has.
Agree ==
    \A id \in TokenId :
        id \in tracked <=>
            \E i \in DOMAIN positionsArray : positionsArray[i].tokenId = id

\* Ids are given out in order and never again, so a new one is not tracked.
ManagerOK ==
    /\ DOMAIN nft \subseteq TokenId
    /\ nft \in [DOMAIN nft -> Positions]
    /\ nextId \in 1 .. MaxTokenId + 1
    /\ \A id \in DOMAIN nft \cup tracked : id < nextId

WalletOK == wallet \in Uint128

IInv == ArrayOK /\ MappingOK /\ Agree /\ ManagerOK /\ WalletOK

LEMMA Bounds ==
  /\ MaxTokenId \in Nat /\ MaxLiquidity \in Nat
  /\ Amount \subseteq Nat /\ Amount \subseteq Uint128
  /\ Vault # Outsider /\ Recipient \subseteq {Vault, Outsider}
BY PositionsAssumption DEF Uint128

LEMMA InvariantParts == IInv => TypeOK /\ TrackedOnce
<1> SUFFICES ASSUME IInv PROVE TypeOK /\ TrackedOnce
  OBVIOUS
<1>1. TypeOK
  BY DEF IInv, ArrayOK, MappingOK, ManagerOK, WalletOK, TypeOK, Entries, Positions
<1>2. {p.tokenId : p \in ToSet(positionsArray)} = tracked
  <2>1. \A i \in DOMAIN positionsArray : positionsArray[i].tokenId \in TokenId
    <3>1. \A i \in DOMAIN positionsArray : positionsArray[i] \in Entries
      BY DEF IInv, ArrayOK
    <3>2. QED BY <3>1 DEF Entries
  <2>2. ASSUME NEW id \in tracked PROVE id \in {p.tokenId : p \in ToSet(positionsArray)}
    <3>1. \E i \in DOMAIN positionsArray : positionsArray[i].tokenId = id
      BY DEF IInv, Agree, MappingOK
    <3>2. QED BY <3>1 DEF ToSet
  <2>3. ASSUME NEW p \in ToSet(positionsArray) PROVE p.tokenId \in tracked
    <3>1. PICK i \in DOMAIN positionsArray : p = positionsArray[i]
      BY DEF ToSet
    <3>2. QED BY <2>1, <3>1 DEF IInv, Agree
  <2>4. QED BY <2>2, <2>3
<1>3. QED BY <1>1, <1>2 DEF IInv, ArrayOK, TrackedOnce

(* Where the array has an id, which it has at most once. *)
LEMMA IndexOf ==
  ASSUME ArrayOK, NEW id
  PROVE  IF indexOf(id) = 0
         THEN \A i \in DOMAIN positionsArray : positionsArray[i].tokenId # id
         ELSE /\ indexOf(id) \in DOMAIN positionsArray
              /\ positionsArray[indexOf(id)].tokenId = id
<1> DEFINE I == {i \in 1 .. Len(positionsArray) : positionsArray[i].tokenId = id}
<1>1. indexOf(id) = IF I # {} THEN Min(I) ELSE 0
  BY DEF indexOf, SelectInSeq
<1>2. I \in SUBSET Nat /\ DOMAIN positionsArray = 1 .. Len(positionsArray)
  BY DEF ArrayOK
<1>3. CASE I = {}
  BY <1>1, <1>2, <1>3
<1>4. CASE I # {}
  <2>1. PICK i \in I : TRUE
    BY <1>4
  <2>2. \A j \in I : j = i
    BY <1>2, <2>1 DEF ArrayOK
  <2>3. Min(I) = i
    BY <1>2, <2>1, <2>2 DEF Min
  <2>4. QED BY <1>1, <1>2, <1>4, <2>1, <2>3
<1>5. QED BY <1>3, <1>4

-----------------------------------------------------------------------------
(* The three ways the array changes. *)

LEMMA Appended ==
  ASSUME ArrayOK, MappingOK, Agree, ManagerOK, NEW n \in Uint128, nextId \in TokenId,
         positionsArray' = Append(positionsArray, [tokenId |-> nextId, liquidity |-> n]),
         positionsMapping' = Written(positionsMapping, nextId, n)
  PROVE  ArrayOK' /\ MappingOK' /\ Agree' /\ tracked' = tracked \cup {nextId}
<1> DEFINE new == [tokenId |-> nextId, liquidity |-> n]
           len == Len(positionsArray)
<1>1. /\ new \in Entries /\ positionsArray \in Seq(Entries)
      /\ len \in Nat /\ DOMAIN positionsArray = 1 .. len
  BY DEF Entries, ArrayOK
<1>2. /\ positionsArray' \in Seq(Entries)
      /\ DOMAIN positionsArray' = 1 .. len + 1
      /\ \A i \in 1 .. len : positionsArray'[i] = positionsArray[i]
      /\ positionsArray'[len + 1] = new
  BY <1>1, AppendProperties
<1>3. /\ tracked' = tracked \cup {nextId}
      /\ \A id \in tracked : id # nextId => positionsMapping'[id] = positionsMapping[id]
      /\ positionsMapping'[nextId] = n
  BY DEF Written, tracked
<1>4. MappingOK'
  BY <1>3 DEF MappingOK, Written, tracked
<1>5. \A i \in 1 .. len : positionsArray[i].tokenId # nextId
  <2>1. nextId \notin tracked
    BY Bounds DEF ManagerOK, TokenId
  <2>2. QED BY <1>1, <2>1 DEF Agree
<1>6. new.tokenId = nextId
  OBVIOUS
<1> HIDE DEF new, len
<1>7. \A i \in 1 .. len + 1 : i \in 1 .. len \/ i = len + 1
  BY <1>1
<1>8. ArrayOK'
  BY <1>1, <1>2, <1>5, <1>6, <1>7 DEF ArrayOK
<1>9. Agree'
  <2> SUFFICES ASSUME NEW id \in TokenId
               PROVE  id \in tracked' <=>
                        \E i \in DOMAIN positionsArray' : positionsArray'[i].tokenId = id
    BY DEF Agree
  <2>1. (\E i \in 1 .. len + 1 : positionsArray'[i].tokenId = id)
          <=> (\E i \in 1 .. len : positionsArray[i].tokenId = id) \/ id = nextId
    BY <1>1, <1>2, <1>6, <1>7
  <2>2. QED BY <1>1, <1>2, <1>3, <2>1 DEF Agree
<1>10. QED BY <1>3, <1>4, <1>8, <1>9

LEMMA Rewritten ==
  ASSUME ArrayOK, MappingOK, Agree, NEW k \in DOMAIN positionsArray, NEW m \in Uint128,
         positionsArray' = [positionsArray EXCEPT ![k].liquidity = m],
         UNCHANGED positionsMapping
  PROVE  /\ ArrayOK' /\ MappingOK' /\ Agree'
         /\ DOMAIN positionsArray' = DOMAIN positionsArray
         /\ \A i \in DOMAIN positionsArray :
               /\ positionsArray'[i].tokenId = positionsArray[i].tokenId
               /\ positionsArray'[i].liquidity
                    = IF i = k THEN m ELSE positionsArray[i].liquidity
<1>1. /\ positionsArray \in Seq(Entries)
      /\ \A i \in DOMAIN positionsArray : positionsArray[i] \in Entries
  BY DEF ArrayOK
<1>2. /\ DOMAIN positionsArray' = DOMAIN positionsArray
      /\ \A i \in DOMAIN positionsArray :
             positionsArray'[i] = IF i = k THEN [positionsArray[k] EXCEPT !.liquidity = m]
                                           ELSE positionsArray[i]
  BY <1>1
<1>3. /\ \A i \in DOMAIN positionsArray :
             /\ positionsArray'[i].tokenId = positionsArray[i].tokenId
             /\ positionsArray'[i].liquidity
                  = IF i = k THEN m ELSE positionsArray[i].liquidity
      /\ \A i \in DOMAIN positionsArray : positionsArray'[i] \in Entries
  BY <1>1, <1>2 DEF Entries
<1>4. positionsArray' \in Seq(Entries)
  <2>1. [positionsArray[k] EXCEPT !.liquidity = m] \in Entries
    BY <1>1 DEF Entries
  <2>2. QED BY <1>1, <2>1, ExceptSeq
<1>5. ArrayOK'
  BY <1>2, <1>3, <1>4 DEF ArrayOK
<1>6. MappingOK' /\ tracked' = tracked
  BY DEF MappingOK, tracked
<1>7. Agree'
  BY <1>2, <1>3, <1>6 DEF Agree
<1>8. QED BY <1>2, <1>3, <1>5, <1>6, <1>7
(* burn: one entry and one key go, whichever place the entry had. *)
LEMMA Removed ==
  ASSUME ArrayOK, MappingOK, Agree, NEW id \in tracked,
         positionsArray' = swapAndPop(id),
         positionsMapping' = [i \in tracked \ {id} |-> positionsMapping[i]]
  PROVE  /\ ArrayOK' /\ MappingOK' /\ Agree'
         /\ tracked' = tracked \ {id}
         /\ \A j \in DOMAIN positionsArray' :
                \E i \in DOMAIN positionsArray : /\ positionsArray'[j] = positionsArray[i]
                                                /\ positionsArray[i].tokenId # id
<1> DEFINE len   == Len(positionsArray)
           k     == indexOf(id)
           moved == [positionsArray EXCEPT ![k] = Last(positionsArray)]
<1>1. /\ positionsArray \in Seq(Entries) /\ len \in Nat
      /\ DOMAIN positionsArray = 1 .. len
      /\ \A i \in 1 .. len : positionsArray[i] \in Entries
  BY DEF ArrayOK
<1>2. k \in 1 .. len /\ positionsArray[k].tokenId = id
  <2>1. \E i \in DOMAIN positionsArray : positionsArray[i].tokenId = id
    BY DEF Agree, MappingOK
  <2>2. QED BY <1>1, <2>1, IndexOf
<1>3. positionsArray' = Front(moved)
  BY <1>2 DEF swapAndPop
<1> HIDE DEF k
<1>4. /\ moved \in Seq(Entries) /\ Len(moved) = len
      /\ \A i \in 1 .. len : moved[i] = positionsArray[IF i = k THEN len ELSE i]
  BY <1>1, <1>2, ExceptSeq DEF Last
<1> HIDE DEF moved, len
<1>5. /\ positionsArray' \in Seq(Entries)
      /\ Len(positionsArray') = len - 1
      /\ DOMAIN positionsArray' = 1 .. len - 1
      /\ \A i \in 1 .. len - 1 : positionsArray'[i] = moved[i]
  <2>1. /\ 1 \in Int /\ len - 1 \in Int
        /\ \A i \in 1 .. len - 1 : moved[i] \in Entries
    BY <1>1, <1>2, <1>4
  <2>2. /\ Front(moved) \in Seq(Entries)
        /\ Len(Front(moved)) = IF 1 <= len - 1 THEN len - 1 - 1 + 1 ELSE 0
        /\ \A i \in 1 .. len - 1 - 1 + 1 : Front(moved)[i] = moved[1 + i - 1]
    BY <1>4, <2>1, SubSeqProperties DEF Front
  <2>3. Len(Front(moved)) = len - 1
    BY <1>1, <1>2, <2>2
  <2>4. DOMAIN Front(moved) = 1 .. len - 1
    BY <2>2, <2>3
  <2>5. \A i \in 1 .. len - 1 : Front(moved)[i] = moved[i]
    BY <1>1, <2>2
  <2>6. QED BY <1>3, <2>2, <2>3, <2>4, <2>5
<1> DEFINE from(i) == IF i = k THEN len ELSE i
<1>6. \A i \in 1 .. len - 1 : /\ from(i) \in 1 .. len /\ from(i) # k
                              /\ positionsArray'[i] = positionsArray[from(i)]
  BY <1>1, <1>2, <1>4, <1>5
<1>7. \A i, j \in 1 .. len - 1 : from(i) = from(j) => i = j
  BY <1>1
<1>8. \A m \in 1 .. len : m # k => \E i \in 1 .. len - 1 : from(i) = m
  <2> SUFFICES ASSUME NEW m \in 1 .. len, m # k
               PROVE  \E i \in 1 .. len - 1 : from(i) = m
    OBVIOUS
  <2>1. CASE m = len
    BY <1>1, <1>2, <2>1
  <2>2. CASE m # len
    BY <1>1, <2>2
  <2>3. QED BY <2>1, <2>2
<1> HIDE DEF from
<1>9. \A i, j \in 1 .. len :
         positionsArray[i].tokenId = positionsArray[j].tokenId => i = j
  BY <1>1 DEF ArrayOK
<1>10. ArrayOK'
  BY <1>5, <1>6, <1>7, <1>9 DEF ArrayOK
<1>11. tracked' = tracked \ {id} /\ MappingOK'
  BY DEF MappingOK, tracked
<1>12. Agree'
  <2> SUFFICES ASSUME NEW q \in TokenId
               PROVE  q \in tracked' <=>
                        \E j \in DOMAIN positionsArray' : positionsArray'[j].tokenId = q
    BY DEF Agree
  <2>1. q \in tracked <=> \E m \in 1 .. len : positionsArray[m].tokenId = q
    BY <1>1 DEF Agree
  <2>2. (\E j \in 1 .. len - 1 : positionsArray'[j].tokenId = q)
          <=> (\E m \in 1 .. len : m # k /\ positionsArray[m].tokenId = q)
    BY <1>6, <1>8
  <2>3. QED BY <1>2, <1>5, <1>9, <1>11, <2>1, <2>2
<1>13. \A j \in DOMAIN positionsArray' :
          \E i \in DOMAIN positionsArray : /\ positionsArray'[j] = positionsArray[i]
                                          /\ positionsArray[i].tokenId # id
  BY <1>1, <1>2, <1>5, <1>6, <1>9
<1>14. QED BY <1>10, <1>11, <1>12, <1>13

-----------------------------------------------------------------------------
(* What the manager's operations do to the positions. *)

LEMMA NewPositionDoes ==
  ASSUME ManagerOK, MappingOK, NEW owner \in {Vault, Outsider}, NEW n \in Uint128,
         NewPosition(owner, n), tracked' \subseteq tracked \cup {nextId}
  PROVE  /\ ManagerOK'
         /\ nextId \notin DOMAIN nft
         /\ DOMAIN nft' = DOMAIN nft \cup {nextId}
         /\ nft'[nextId] = [owner |-> owner, liquidity |-> n, owed |-> 0]
         /\ \A i \in DOMAIN nft : nft'[i] = nft[i]
<1>1. /\ nextId \notin DOMAIN nft /\ nextId \in TokenId /\ nextId' = nextId + 1
      /\ \A i \in DOMAIN nft \cup tracked : i < nextId
      /\ nextId \in Nat /\ MaxTokenId \in Nat
  BY Bounds DEF ManagerOK, NewPosition, TokenId
<1>2. /\ DOMAIN nft' = DOMAIN nft \cup {nextId}
      /\ nft'[nextId] = [owner |-> owner, liquidity |-> n, owed |-> 0]
      /\ \A i \in DOMAIN nft : nft'[i] = nft[i]
      /\ nft' = [i \in DOMAIN nft' |-> nft'[i]]
  BY <1>1 DEF NewPosition, Written
<1>3. nft'[nextId] \in Positions
  BY <1>2, Bounds DEF Positions, Uint128
<1>4. /\ nft' \in [DOMAIN nft' -> Positions] /\ DOMAIN nft' \subseteq TokenId
  BY <1>1, <1>2, <1>3 DEF ManagerOK
<1>5. /\ nextId' \in 1 .. MaxTokenId + 1
      /\ \A i \in DOMAIN nft' \cup tracked' : i < nextId'
  <2>1. DOMAIN nft \subseteq TokenId
    BY DEF ManagerOK
  <2>2. \A i \in DOMAIN nft \cup tracked \cup {nextId} : i < nextId + 1
    <3>1. DOMAIN nft \cup tracked \subseteq Nat
      BY <1>1 DEF MappingOK, ManagerOK, TokenId
    <3>2. \A i \in Nat : i < nextId => i < nextId + 1
      BY <1>1
    <3>3. nextId < nextId + 1
      BY <1>1
    <3>4. QED BY <1>1, <3>1, <3>2, <3>3
  <2>3. QED BY <1>1, <1>2, <2>2 DEF TokenId
<1>6. QED BY <1>1, <1>2, <1>4, <1>5 DEF ManagerOK

(* Positions change or go, and none comes. *)
LEMMA ManagerKept ==
  ASSUME ManagerOK, DOMAIN nft' \subseteq DOMAIN nft, nft' \in [DOMAIN nft' -> Positions],
         UNCHANGED nextId, tracked' \subseteq tracked
  PROVE  ManagerOK'
BY DEF ManagerOK

LEMMA AddDoes ==
  ASSUME ManagerOK, NEW id, NEW n \in Nat, AddLiquidity(id, n)
  PROVE  /\ id \in DOMAIN nft /\ DOMAIN nft' = DOMAIN nft
         /\ nft' \in [DOMAIN nft' -> Positions]
         /\ nft'[id].liquidity = nft[id].liquidity + n
         /\ nft'[id].owner = nft[id].owner /\ nft'[id].owed = nft[id].owed
         /\ \A i \in DOMAIN nft \ {id} : nft'[i] = nft[i]
<1>1. /\ id \in DOMAIN nft /\ nft[id] \in Positions
      /\ nft[id].liquidity + n \in Uint128
  BY DEF ManagerOK, AddLiquidity
<1>2. nft' = [nft EXCEPT ![id] = [nft[id] EXCEPT !.liquidity = @ + n]]
  BY <1>1 DEF AddLiquidity
<1>3. [nft[id] EXCEPT !.liquidity = @ + n] \in Positions
  BY <1>1 DEF Positions
<1>4. nft'[id] = [nft[id] EXCEPT !.liquidity = @ + n] /\ DOMAIN nft' = DOMAIN nft
  BY <1>1, <1>2
<1>5. nft' \in [DOMAIN nft' -> Positions] /\ \A i \in DOMAIN nft \ {id} : nft'[i] = nft[i]
  BY <1>1, <1>2, <1>3 DEF ManagerOK
<1>6. QED BY <1>1, <1>4, <1>5 DEF Positions

LEMMA RemoveDoes ==
  ASSUME ManagerOK, NEW owner, NEW id, NEW n \in Nat, RemoveLiquidity(owner, id, n)
  PROVE  /\ id \in DOMAIN nft /\ DOMAIN nft' = DOMAIN nft
         /\ nft' \in [DOMAIN nft' -> Positions]
         /\ nft[id].owner = owner /\ nft[id].liquidity >= n
         /\ nft'[id].liquidity = nft[id].liquidity - n
         /\ nft'[id].owed = nft[id].owed + n /\ nft'[id].owner = owner
         /\ \A i \in DOMAIN nft \ {id} : nft'[i] = nft[i]
<1> DEFINE left == [nft[id] EXCEPT !.liquidity = @ - n, !.owed = @ + n]
<1>1. /\ id \in DOMAIN nft /\ nft[id] \in Positions
      /\ nft[id].owner = owner /\ nft[id].liquidity >= n
      /\ nft[id].owed + n \in Uint128
  BY DEF ManagerOK, RemoveLiquidity
<1>2. nft' = [nft EXCEPT ![id] = left]
  BY <1>1 DEF RemoveLiquidity
<1>3. left \in Positions
  <2>1. nft[id].liquidity \in Uint128
    BY <1>1 DEF Positions
  <2> DEFINE a == nft[id].liquidity
  <2> HIDE DEF a
  <2>2. a \in Uint128 /\ a >= n
    BY <1>1, <2>1 DEF a
  <2>3. a - n \in Uint128
    BY <2>2, Bounds DEF Uint128
  <2>4. QED BY <1>1, <2>3 DEF Positions, a
<1>4. nft'[id] = left /\ DOMAIN nft' = DOMAIN nft
  BY <1>1, <1>2
<1>5. nft' \in [DOMAIN nft' -> Positions] /\ \A i \in DOMAIN nft \ {id} : nft'[i] = nft[i]
  BY <1>1, <1>2, <1>3 DEF ManagerOK
<1>6. QED BY <1>1, <1>4, <1>5 DEF Positions

\* What a position is owed is earned or collected.
LEMMA OwedDoes ==
  ASSUME ManagerOK, NEW id \in DOMAIN nft, NEW m \in Uint128,
         nft' = [nft EXCEPT ![id].owed = m]
  PROVE  /\ DOMAIN nft' = DOMAIN nft
         /\ nft' \in [DOMAIN nft' -> Positions]
         /\ nft'[id].liquidity = nft[id].liquidity
         /\ nft'[id].owed = m /\ nft'[id].owner = nft[id].owner
         /\ \A i \in DOMAIN nft \ {id} : nft'[i] = nft[i]
<1>1. nft[id] \in Positions
  BY DEF ManagerOK
<1>2. nft' = [nft EXCEPT ![id] = [nft[id] EXCEPT !.owed = m]]
  BY <1>1
<1>3. [nft[id] EXCEPT !.owed = m] \in Positions
  BY <1>1 DEF Positions
<1>4. nft'[id] = [nft[id] EXCEPT !.owed = m] /\ DOMAIN nft' = DOMAIN nft
  BY <1>2
<1>5. nft' \in [DOMAIN nft' -> Positions] /\ \A i \in DOMAIN nft \ {id} : nft'[i] = nft[i]
  BY <1>1, <1>2, <1>3 DEF ManagerOK
<1>6. QED BY <1>1, <1>4, <1>5 DEF Positions

-----------------------------------------------------------------------------
(* The invariant: one step per operation. *)

LEMMA MintKeeps ==
  ASSUME IInv, NEW r \in {Vault, Outsider}, NEW n \in Nat, mint(r, n)
  PROVE  IInv'
<1>1. n \in Uint128 /\ WalletOK' /\ nextId \in TokenId
  BY Bounds DEF mint, NewPosition, IInv, WalletOK, Uint128
<1>2. ArrayOK' /\ MappingOK' /\ Agree' /\ tracked' = tracked \cup {nextId}
  BY <1>1, Appended DEF mint, IInv
<1>3. ManagerOK'
  BY <1>1, <1>2, NewPositionDoes DEF mint, IInv
<1>4. QED BY <1>1, <1>2, <1>3 DEF IInv

LEMMA BurnKeeps ==
  ASSUME IInv, NEW id, burn(id)
  PROVE  IInv'
<1>1. id \in tracked /\ WalletOK' /\ UNCHANGED nextId
  BY DEF burn, WalletOK
<1>2. ArrayOK' /\ MappingOK' /\ Agree' /\ tracked' = tracked \ {id}
  BY <1>1, Removed DEF burn, IInv
<1>3. DOMAIN nft' \subseteq DOMAIN nft /\ nft' \in [DOMAIN nft' -> Positions]
  BY DEF burn, IInv, ManagerOK
<1>4. ManagerOK'
  BY <1>1, <1>2, <1>3, ManagerKept DEF IInv
<1>5. QED BY <1>1, <1>2, <1>4 DEF IInv

LEMMA IncreaseKeeps ==
  ASSUME IInv, NEW id, NEW n \in Nat, increaseLiquidity(id, n)
  PROVE  IInv'
<1> DEFINE k == indexOf(id)
<1>1. WalletOK' /\ UNCHANGED <<positionsMapping, nextId>>
  BY Bounds DEF increaseLiquidity, IInv, WalletOK, Uint128
<1>2. tracked' = tracked
  BY <1>1 DEF tracked
<1>3. ManagerOK'
  BY <1>1, <1>2, AddDoes, ManagerKept DEF increaseLiquidity, IInv
<1>4. ArrayOK' /\ MappingOK' /\ Agree'
  <2>1. CASE k = 0
    <3>1. UNCHANGED <<positionsArray, positionsMapping>>
      BY <2>1 DEF increaseLiquidity
    <3>2. QED BY <1>2, <3>1 DEF IInv, ArrayOK, MappingOK, Agree
  <2>2. CASE k # 0
    <3>1. /\ k \in DOMAIN positionsArray
          /\ positionsArray[k].liquidity + n \in Uint128
      BY <2>2, IndexOf DEF increaseLiquidity, IInv
    <3> DEFINE m == positionsArray[k].liquidity + n
    <3>2. positionsArray' = [positionsArray EXCEPT ![k].liquidity = m]
      BY <2>2 DEF increaseLiquidity
    <3> HIDE DEF m, k
    <3>3. QED BY <1>1, <3>1, <3>2, Rewritten DEF IInv, m
  <2>3. QED BY <2>1, <2>2
<1>5. QED BY <1>1, <1>3, <1>4 DEF IInv

LEMMA DecreaseKeeps ==
  ASSUME IInv, NEW id, NEW n \in Nat, decreaseLiquidity(id, n)
  PROVE  IInv'
<1> DEFINE k == indexOf(id)
<1>1. WalletOK' /\ UNCHANGED <<positionsMapping, nextId>>
  BY DEF decreaseLiquidity, IInv, WalletOK
<1>2. tracked' = tracked
  BY <1>1 DEF tracked
<1>3. ManagerOK'
  BY <1>1, <1>2, RemoveDoes, ManagerKept DEF decreaseLiquidity, IInv
<1>4. ArrayOK' /\ MappingOK' /\ Agree'
  <2>1. CASE k = 0
    <3>1. UNCHANGED <<positionsArray, positionsMapping>>
      BY <2>1 DEF decreaseLiquidity
    <3>2. QED BY <1>2, <3>1 DEF IInv, ArrayOK, MappingOK, Agree
  <2>2. CASE k # 0
    <3>1. /\ k \in DOMAIN positionsArray
          /\ positionsArray[k].liquidity >= n
      BY <2>2, IndexOf DEF decreaseLiquidity, IInv
    <3> DEFINE m == positionsArray[k].liquidity - n
    <3>2. positionsArray' = [positionsArray EXCEPT ![k].liquidity = m]
      BY <2>2 DEF decreaseLiquidity
    <3>3. m \in Uint128
      <4>1. positionsArray[k] \in Entries
        BY <3>1 DEF IInv, ArrayOK
      <4>2. positionsArray[k].liquidity \in Uint128
        BY <4>1 DEF Entries
      <4> HIDE DEF k
      <4>3. QED BY <3>1, <4>2, Bounds DEF Uint128
    <3> HIDE DEF m, k
    <3>4. QED BY <1>1, <3>1, <3>2, <3>3, Rewritten DEF IInv
  <2>3. QED BY <2>1, <2>2
<1>5. QED BY <1>1, <1>3, <1>4 DEF IInv

(* Only the wallet and what positions have or are owed change. *)
LEMMA RecordsKept ==
  ASSUME IInv, UNCHANGED vaultVars
  PROVE  ArrayOK' /\ MappingOK' /\ Agree' /\ tracked' = tracked
BY DEF IInv, ArrayOK, MappingOK, Agree, tracked, vaultVars

LEMMA OwedChanges ==
  ASSUME IInv, NEW id \in DOMAIN nft, NEW m \in Uint128,
         nft' = [nft EXCEPT ![id].owed = m],
         UNCHANGED <<vaultVars, nextId>>, WalletOK'
  PROVE  IInv'
<1>1. ArrayOK' /\ MappingOK' /\ Agree' /\ tracked' = tracked
  BY RecordsKept
<1>2. ManagerOK'
  BY <1>1, OwedDoes, ManagerKept DEF IInv
<1>3. QED BY <1>1, <1>2 DEF IInv

LEMMA CollectKeeps ==
  ASSUME IInv, NEW id, collectFees(id)
  PROVE  IInv'
<1>1. id \in DOMAIN nft /\ 0 \in Uint128 /\ WalletOK'
  BY Bounds DEF collectFees, owned, Uint128, WalletOK
<1>2. nft' = [nft EXCEPT ![id].owed = 0] /\ UNCHANGED <<vaultVars, nextId>>
  BY DEF collectFees
<1>3. QED BY <1>1, <1>2, OwedChanges

LEMMA WalletKeeps ==
  ASSUME IInv, NEW n \in Nat, swap(n) \/ fund(n) \/ defund(n)
  PROVE  IInv'
<1>1. UNCHANGED <<vaultVars, nft, nextId>>
  BY DEF swap, fund, defund
<1>2. WalletOK'
  BY Bounds DEF swap, fund, defund, IInv, WalletOK, Uint128
<1>3. ArrayOK' /\ MappingOK' /\ Agree' /\ tracked' = tracked
  BY <1>1, RecordsKept
<1>4. ManagerOK'
  BY <1>1, <1>3 DEF IInv, ManagerOK
<1>5. QED BY <1>2, <1>3, <1>4 DEF IInv

LEMMA EarnKeeps ==
  ASSUME IInv, NEW id, NEW n \in Nat, earnFees(id, n)
  PROVE  IInv'
<1>1. id \in DOMAIN nft /\ nft[id].owed + n \in Uint128
  BY DEF earnFees
<1>2. nft' = [nft EXCEPT ![id].owed = nft[id].owed + n]
  BY <1>1 DEF earnFees
<1>3. UNCHANGED <<vaultVars, nextId>> /\ WalletOK'
  BY DEF earnFees, IInv, WalletOK
<1>4. QED BY <1>1, <1>2, <1>3, OwedChanges

LEMMA OutsiderMintKeeps ==
  ASSUME IInv, NEW r \in {Vault, Outsider}, NEW n \in Uint128, outsiderMint(r, n)
  PROVE  IInv'
<1>1. NewPosition(r, n) /\ UNCHANGED vaultVars /\ WalletOK'
  BY DEF outsiderMint, IInv, WalletOK
<1>2. ArrayOK' /\ MappingOK' /\ Agree' /\ tracked' = tracked
  BY <1>1, RecordsKept
<1>3. ManagerOK'
  BY <1>1, <1>2, NewPositionDoes DEF IInv
<1>4. QED BY <1>1, <1>2, <1>3 DEF IInv

(* An outsider changes the manager's positions and makes none. *)
OutsiderChanges ==
    \E id \in TokenId :
        \/ \E n \in Amount : outsiderIncrease(id, n) \/ outsiderDecrease(id, n)
        \/ outsiderCollect(id) \/ outsiderBurn(id) \/ outsiderGive(id)

LEMMA OutsiderPositions ==
  ASSUME IInv, OutsiderChanges
  PROVE  DOMAIN nft' \subseteq DOMAIN nft /\ nft' \in [DOMAIN nft' -> Positions]
<1>1. PICK id \in TokenId :
        \/ \E n \in Amount : outsiderIncrease(id, n) \/ outsiderDecrease(id, n)
        \/ outsiderCollect(id) \/ outsiderBurn(id) \/ outsiderGive(id)
  BY DEF OutsiderChanges
<1>2. ManagerOK
  BY DEF IInv
<1>3. CASE \E n \in Amount : outsiderIncrease(id, n) \/ outsiderDecrease(id, n)
  <2>1. PICK n \in Amount : AddLiquidity(id, n) \/ RemoveLiquidity(Outsider, id, n)
    BY <1>3 DEF outsiderIncrease, outsiderDecrease
  <2>2. n \in Nat
    BY Bounds
  <2>3. CASE AddLiquidity(id, n)
    BY <1>2, <2>2, <2>3, AddDoes
  <2>4. CASE RemoveLiquidity(Outsider, id, n)
    BY <1>2, <2>2, <2>4, RemoveDoes
  <2>5. QED BY <2>1, <2>3, <2>4
<1>4. CASE outsiderCollect(id)
  <2>1. /\ id \in DOMAIN nft /\ 0 \in Uint128
        /\ nft' = [nft EXCEPT ![id].owed = 0]
    BY <1>4, Bounds DEF outsiderCollect, Uint128
  <2>2. QED BY <1>2, <2>1, OwedDoes
<1>5. CASE outsiderBurn(id)
  BY <1>2, <1>5 DEF outsiderBurn, ManagerOK
<1>6. CASE outsiderGive(id)
  <2>1. id \in DOMAIN nft /\ nft[id] \in Positions
    BY <1>2, <1>6 DEF outsiderGive, ManagerOK
  <2>2. [nft[id] EXCEPT !.owner = Vault] \in Positions
    BY <2>1 DEF Positions
  <2>3. nft' = [nft EXCEPT ![id] = [nft[id] EXCEPT !.owner = Vault]]
    BY <1>6, <2>1 DEF outsiderGive
  <2>4. QED BY <1>2, <2>1, <2>2, <2>3 DEF ManagerOK
<1>7. QED BY <1>1, <1>3, <1>4, <1>5, <1>6

LEMMA OutsiderKeeps ==
  ASSUME IInv, OutsiderChanges
  PROVE  IInv'
<1>1. UNCHANGED <<vaultVars, nextId, wallet>>
  BY DEF OutsiderChanges, outsiderIncrease, outsiderDecrease, outsiderCollect,
         outsiderBurn, outsiderGive
<1>2. ArrayOK' /\ MappingOK' /\ Agree' /\ tracked' = tracked
  BY <1>1, RecordsKept
<1>3. ManagerOK'
  BY <1>1, <1>2, OutsiderPositions, ManagerKept DEF IInv
<1>4. WalletOK'
  BY <1>1 DEF IInv, WalletOK
<1>5. QED BY <1>2, <1>3, <1>4 DEF IInv

LEMMA PositionKeeps ==
  ASSUME IInv, NEW id, Position(id)
  PROVE  IInv'
<1>1. CASE burn(id)
  BY <1>1, BurnKeeps
<1>2. CASE collectFees(id)
  BY <1>2, CollectKeeps
<1>3. CASE \E n \in Amount : increaseLiquidity(id, n) \/ decreaseLiquidity(id, n)
  <2>1. PICK n \in Amount : increaseLiquidity(id, n) \/ decreaseLiquidity(id, n)
    BY <1>3
  <2>2. n \in Nat
    BY Bounds
  <2>3. QED BY <2>1, <2>2, IncreaseKeeps, DecreaseKeeps
<1>4. QED BY <1>1, <1>2, <1>3 DEF Position

LEMMA TraderKeeps ==
  ASSUME IInv, Trader
  PROVE  IInv'
<1>1. CASE \E n \in Amount : swap(n)
  <2>1. PICK n \in Amount : swap(n)
    BY <1>1
  <2>2. QED BY <2>1, Bounds, WalletKeeps
<1>2. CASE \E n \in Amount, r \in Recipient : mint(r, n)
  <2>1. PICK n \in Amount, r \in Recipient : mint(r, n)
    BY <1>2
  <2>2. n \in Nat /\ r \in {Vault, Outsider}
    BY Bounds
  <2>3. QED BY <2>1, <2>2, MintKeeps
<1>3. CASE \E id \in TokenId : Position(id)
  BY <1>3, PositionKeeps
<1>4. QED BY <1>1, <1>2, <1>3 DEF Trader

LEMMA TreasuryKeeps ==
  ASSUME IInv, Treasury
  PROVE  IInv'
<1>1. PICK n \in Amount : fund(n) \/ defund(n)
  BY DEF Treasury
<1>2. QED BY <1>1, Bounds, WalletKeeps

LEMMA OthersKeep ==
  ASSUME IInv, Others
  PROVE  IInv'
<1>1. CASE \E n \in Amount, r \in {Vault, Outsider} : outsiderMint(r, n)
  <2>1. PICK n \in Amount, r \in {Vault, Outsider} : outsiderMint(r, n)
    BY <1>1
  <2>2. n \in Uint128
    BY Bounds
  <2>3. QED BY <2>1, <2>2, OutsiderMintKeeps
<1>2. CASE \E id \in TokenId, n \in Amount : earnFees(id, n)
  <2>1. PICK id \in TokenId, n \in Amount : earnFees(id, n)
    BY <1>2
  <2>2. QED BY <2>1, Bounds, EarnKeeps
<1>3. CASE OutsiderChanges
  BY <1>3, OutsiderKeeps
<1>4. QED BY <1>1, <1>2, <1>3 DEF Others, OutsiderChanges

LEMMA StutterKeeps ==
  ASSUME IInv, UNCHANGED vars
  PROVE  IInv'
<1>1. /\ UNCHANGED <<vaultVars, nft, nextId, wallet>>
      /\ UNCHANGED <<positionsArray, positionsMapping>>
  BY DEF vars, vaultVars
<1>2. ArrayOK' /\ MappingOK' /\ Agree' /\ tracked' = tracked
  BY <1>1, RecordsKept
<1>3. ManagerOK' /\ WalletOK'
  BY <1>1, <1>2 DEF IInv, ManagerOK, WalletOK
<1>4. QED BY <1>2, <1>3 DEF IInv

LEMMA NextKeeps ==
  ASSUME IInv, [Next]_vars
  PROVE  IInv'
BY TraderKeeps, TreasuryKeeps, OthersKeep, StutterKeeps DEF Next

LEMMA InitHolds == Init => IInv
<1> SUFFICES ASSUME Init PROVE IInv
  OBVIOUS
<1>1. /\ positionsArray = <<>> /\ DOMAIN positionsArray = {}
      /\ DOMAIN positionsMapping = {} /\ DOMAIN nft = {}
      /\ nft = [i \in {} |-> 0] /\ positionsMapping = [i \in {} |-> 0]
      /\ nextId = 1 /\ wallet = 0
  BY DEF Init
<1>2. ArrayOK
  BY <1>1 DEF ArrayOK
<1>3. MappingOK /\ Agree
  BY <1>1 DEF MappingOK, Agree, tracked
<1>4. ManagerOK
  BY <1>1, Bounds DEF ManagerOK, tracked
<1>5. WalletOK
  BY <1>1, Bounds DEF WalletOK, Uint128
<1>6. QED BY <1>2, <1>3, <1>4, <1>5 DEF IInv

LEMMA Invariant == Spec => []IInv
<1>1. IInv /\ [Next]_vars => IInv'
  BY NextKeeps
<1>2. QED BY <1>1, InitHolds, PTL DEF Spec

(* Whoever works on the manager's positions, and after any number of mints *)
(* and swap-and-pop burns, the vault's array and mapping have the same     *)
(* positions, each once.                                                   *)
THEOREM RecordsAgree == Spec => [](TypeOK /\ TrackedOnce)
<1>1. IInv => TypeOK /\ TrackedOnce
  BY InvariantParts
<1>2. QED BY <1>1, Invariant, PTL

(* Ids, amounts and owners stay in range, also after calls of outsiders: no   *)
(* decrease or collection takes a position below zero.                        *)
THEOREM UniV3Types == Spec => []TypeOK
<1>1. IInv => TypeOK
  BY InvariantParts
<1>2. QED BY <1>1, Invariant, PTL

-----------------------------------------------------------------------------
(* What the vault reports it has: every entry of the array stands for a    *)
(* position that the vault owns and that has as much liquidity.            *)

Backed ==
    \A i \in DOMAIN positionsArray :
        LET p == positionsArray[i] IN
        p.tokenId \in owned /\ p.liquidity <= nft[p.tokenId].liquidity

\* Numbers that the sums are made of.
LEMMA Numbers ==
  ASSUME IInv
  PROVE  /\ \A i \in DOMAIN positionsArray : /\ positionsArray[i].liquidity \in Nat
                                             /\ positionsArray[i].tokenId \in TokenId
         /\ \A id \in DOMAIN nft : nft[id].liquidity \in Nat /\ nft[id].owed \in Nat
         /\ wallet \in Nat
         /\ IsFiniteSet(owned)
<1>1. Uint128 \subseteq Nat
  BY Bounds DEF Uint128
<1>2. \A i \in DOMAIN positionsArray : positionsArray[i] \in Entries
  BY DEF IInv, ArrayOK
<1>3. \A id \in DOMAIN nft : nft[id] \in Positions
  BY DEF IInv, ManagerOK
<1>4. IsFiniteSet(owned)
  <2>1. IsFiniteSet(TokenId)
    BY Bounds, FS_Interval DEF TokenId
  <2>2. owned \in SUBSET TokenId
    BY DEF IInv, ManagerOK, owned
  <2>3. QED BY <2>1, <2>2, FS_Subset
<1>5. wallet \in Nat
  BY <1>1 DEF IInv, WalletOK
<1>6. QED BY <1>1, <1>2, <1>3, <1>4, <1>5 DEF Entries, Positions

\* No position of the vault goes or shrinks.
LEMMA NoneShrinks ==
  ASSUME IInv, IInv', Backed, UNCHANGED positionsArray,
         \A id \in owned : id \in owned' /\ nft'[id].liquidity >= nft[id].liquidity
  PROVE  Backed'
<1> SUFFICES ASSUME NEW i \in DOMAIN positionsArray
             PROVE  /\ positionsArray[i].tokenId \in owned'
                    /\ positionsArray[i].liquidity <= nft'[positionsArray[i].tokenId].liquidity
  BY DEF Backed
<1> DEFINE id == positionsArray[i].tokenId
<1>1. id \in owned /\ positionsArray[i].liquidity <= nft[id].liquidity
  BY DEF Backed
<1>2. id \in owned' /\ nft'[id].liquidity >= nft[id].liquidity
  BY <1>1
<1>3. positionsArray[i].liquidity \in Nat /\ nft[id].liquidity \in Nat
  BY <1>1, Numbers DEF owned
<1>4. nft'[id].liquidity \in Nat
  <2>1. IInv' => \A q \in DOMAIN nft' : nft'[q].liquidity \in Nat
    <3>1. Uint128 \subseteq Nat
      BY Bounds DEF Uint128
    <3>2. QED BY <3>1 DEF IInv, ManagerOK, Positions
  <2>2. QED BY <1>2, <2>1 DEF owned
<1> HIDE DEF id
<1>5. positionsArray[i].liquidity <= nft'[id].liquidity
  BY <1>1, <1>2, <1>3, <1>4
<1>6. QED BY <1>2, <1>5 DEF id

LEMMA MintBacked ==
  ASSUME IInv, Backed, NEW n \in Nat, mint(Vault, n)
  PROVE  Backed'
<1> DEFINE len == Len(positionsArray)
           new == [tokenId |-> nextId, liquidity |-> n]
<1>1. /\ n \in Uint128 /\ ManagerOK /\ MappingOK /\ NewPosition(Vault, n)
      /\ new \in Entries
  BY Bounds DEF mint, IInv, WalletOK, Uint128, NewPosition, Entries
<1>2. tracked' \subseteq tracked \cup {nextId}
  BY DEF mint, Written, tracked
<1>3. /\ DOMAIN nft' = DOMAIN nft \cup {nextId}
      /\ nft'[nextId] = [owner |-> Vault, liquidity |-> n, owed |-> 0]
      /\ \A i \in DOMAIN nft : nft'[i] = nft[i]
  BY <1>1, <1>2, NewPositionDoes
<1>4. /\ positionsArray \in Seq(Entries) /\ len \in Nat
      /\ DOMAIN positionsArray = 1 .. len
  BY DEF IInv, ArrayOK
<1>5. positionsArray' = Append(positionsArray, new)
  BY DEF mint
<1>6. /\ DOMAIN positionsArray' = 1 .. len + 1
      /\ \A i \in 1 .. len : positionsArray'[i] = positionsArray[i]
      /\ positionsArray'[len + 1] = new
  BY <1>1, <1>4, <1>5, AppendProperties
<1>7. nextId \in owned' /\ new.liquidity <= nft'[nextId].liquidity
  BY <1>3 DEF owned
<1>8. ASSUME NEW i \in 1 .. len
      PROVE  LET p == positionsArray'[i] IN
             p.tokenId \in owned' /\ p.liquidity <= nft'[p.tokenId].liquidity
  <2>1. positionsArray'[i] = positionsArray[i] /\ i \in DOMAIN positionsArray
    BY <1>4, <1>6
  <2>2. QED BY <1>3, <2>1 DEF Backed, owned
<1>9. ASSUME NEW i \in DOMAIN positionsArray'
      PROVE  LET p == positionsArray'[i] IN
             p.tokenId \in owned' /\ p.liquidity <= nft'[p.tokenId].liquidity
  <2>1. i \in 1 .. len \/ i = len + 1
    BY <1>4, <1>6
  <2>2. CASE i = len + 1
    BY <1>6, <1>7, <2>2
  <2>3. QED BY <1>8, <2>1, <2>2
<1>10. QED BY <1>9 DEF Backed

LEMMA BurnBacked ==
  ASSUME IInv, Backed, NEW id, burn(id)
  PROVE  Backed'
<1>1. /\ id \in tracked /\ ArrayOK /\ MappingOK /\ Agree
      /\ nft' = [i \in DOMAIN nft \ {id} |-> nft[i]]
      /\ positionsArray' = swapAndPop(id)
      /\ positionsMapping' = [i \in tracked \ {id} |-> positionsMapping[i]]
  BY DEF burn, IInv
<1>2. \A j \in DOMAIN positionsArray' :
         \E i \in DOMAIN positionsArray : /\ positionsArray'[j] = positionsArray[i]
                                          /\ positionsArray[i].tokenId # id
  BY <1>1, Removed
<1>3. \A q \in owned : q # id => q \in owned' /\ nft'[q] = nft[q]
  BY <1>1 DEF owned
<1>4. QED BY <1>2, <1>3 DEF Backed

LEMMA IncreaseBacked ==
  ASSUME IInv, IInv', Backed, NEW id, NEW n \in Nat, increaseLiquidity(id, n)
  PROVE  Backed'
<1> DEFINE k == indexOf(id)
<1>1. /\ id \in DOMAIN nft /\ DOMAIN nft' = DOMAIN nft
      /\ nft'[id].liquidity = nft[id].liquidity + n
      /\ nft'[id].owner = nft[id].owner
      /\ \A i \in DOMAIN nft \ {id} : nft'[i] = nft[i]
      /\ UNCHANGED positionsMapping
  BY AddDoes DEF increaseLiquidity, IInv
<1>2. owned' = owned
  BY <1>1 DEF owned
<1>3. \A q \in DOMAIN nft : nft[q].liquidity \in Nat
  BY Numbers
<1>4. CASE k = 0
  <2>1. UNCHANGED positionsArray
    BY <1>4 DEF increaseLiquidity
  <2>2. \A q \in owned : nft'[q].liquidity >= nft[q].liquidity
    BY <1>1, <1>3 DEF owned
  <2>3. QED BY <1>2, <2>1, <2>2, NoneShrinks
<1>5. CASE k # 0
  <2> DEFINE m == positionsArray[k].liquidity + n
  <2>1. k \in DOMAIN positionsArray /\ positionsArray[k].tokenId = id /\ m \in Uint128
    BY <1>5, IndexOf DEF increaseLiquidity, IInv
  <2>2. positionsArray' = [positionsArray EXCEPT ![k].liquidity = m]
    BY <1>5 DEF increaseLiquidity
  <2> HIDE DEF m, k
  <2>3. /\ DOMAIN positionsArray' = DOMAIN positionsArray
        /\ \A i \in DOMAIN positionsArray :
              /\ positionsArray'[i].tokenId = positionsArray[i].tokenId
              /\ positionsArray'[i].liquidity
                   = IF i = k THEN m ELSE positionsArray[i].liquidity
    BY <1>1, <2>1, <2>2, Rewritten DEF IInv
  <2>4. \A i \in DOMAIN positionsArray : i # k => positionsArray[i].tokenId # id
    BY <2>1 DEF IInv, ArrayOK
  <2>5. m <= nft[id].liquidity + n
    BY <1>1, <1>3, <2>1, Numbers DEF Backed, m
  <2>6. QED BY <1>1, <1>2, <2>1, <2>3, <2>4, <2>5 DEF Backed, owned
<1>6. QED BY <1>4, <1>5

LEMMA DecreaseBacked ==
  ASSUME IInv, IInv', Backed, NEW id, NEW n \in Nat, decreaseLiquidity(id, n)
  PROVE  Backed'
<1> DEFINE k == indexOf(id)
<1>1. /\ id \in DOMAIN nft /\ DOMAIN nft' = DOMAIN nft
      /\ nft'[id].liquidity = nft[id].liquidity - n
      /\ nft[id].owner = Vault /\ nft'[id].owner = Vault
      /\ \A i \in DOMAIN nft \ {id} : nft'[i] = nft[i]
      /\ UNCHANGED positionsMapping
  BY RemoveDoes DEF decreaseLiquidity, IInv
<1>2. owned' = owned
  BY <1>1 DEF owned
<1>3. \A q \in DOMAIN nft : nft[q].liquidity \in Nat
  BY Numbers
<1>4. CASE k = 0
  <2>1. UNCHANGED positionsArray
    BY <1>4 DEF decreaseLiquidity
  <2>2. \A i \in DOMAIN positionsArray : positionsArray[i].tokenId # id
    BY <1>4, IndexOf DEF IInv
  <2>3. QED BY <1>1, <1>2, <2>1, <2>2 DEF Backed, owned
<1>5. CASE k # 0
  <2> DEFINE m == positionsArray[k].liquidity - n
  <2>1. /\ k \in DOMAIN positionsArray /\ positionsArray[k].tokenId = id
        /\ positionsArray[k].liquidity >= n
    BY <1>5, IndexOf DEF decreaseLiquidity, IInv
  <2>2. positionsArray' = [positionsArray EXCEPT ![k].liquidity = m]
    BY <1>5 DEF decreaseLiquidity
  <2> HIDE DEF k
  <2>3. m \in Uint128
    <3>1. positionsArray[k].liquidity \in Uint128
      <4>1. positionsArray[k] \in Entries
        BY <2>1 DEF IInv, ArrayOK
      <4>2. QED BY <4>1 DEF Entries
    <3>2. QED BY <2>1, <3>1, Bounds DEF Uint128
  <2>4. m <= nft[id].liquidity - n
    BY <1>1, <1>3, <2>1, Numbers DEF Backed
  <2> HIDE DEF m
  <2>5. /\ DOMAIN positionsArray' = DOMAIN positionsArray
        /\ \A i \in DOMAIN positionsArray :
              /\ positionsArray'[i].tokenId = positionsArray[i].tokenId
              /\ positionsArray'[i].liquidity
                   = IF i = k THEN m ELSE positionsArray[i].liquidity
    BY <1>1, <2>1, <2>2, <2>3, Rewritten DEF IInv
  <2>6. \A i \in DOMAIN positionsArray : i # k => positionsArray[i].tokenId # id
    BY <2>1 DEF IInv, ArrayOK
  <2>7. QED BY <1>1, <1>2, <2>1, <2>4, <2>5, <2>6 DEF Backed, owned
<1>6. QED BY <1>4, <1>5

(* Steps that touch neither the array nor the liquidity the vault has. *)
LEMMA OwedBacked ==
  ASSUME IInv, IInv', Backed, NEW id,
         collectFees(id) \/ \E n \in Amount : earnFees(id, n)
  PROVE  Backed'
<1>1. /\ id \in DOMAIN nft /\ UNCHANGED positionsArray
      /\ \E m : nft' = [nft EXCEPT ![id].owed = m]
  BY DEF collectFees, earnFees, owned, vaultVars
<1>2. PICK m : nft' = [nft EXCEPT ![id].owed = m]
  BY <1>1
<1>3. \A q \in DOMAIN nft : /\ nft[q] \in Positions
                            /\ nft[q].liquidity \in Nat
  BY Numbers DEF IInv, ManagerOK
<1>4. \A q \in owned : q \in owned' /\ nft'[q].liquidity = nft[q].liquidity
  <2>1. nft' = [nft EXCEPT ![id] = [nft[id] EXCEPT !.owed = m]]
    BY <1>1, <1>2
  <2> DEFINE left == [nft[id] EXCEPT !.owed = m]
  <2>2. left.liquidity = nft[id].liquidity /\ left.owner = nft[id].owner
    BY <1>1, <1>3 DEF Positions
  <2>3. /\ DOMAIN nft' = DOMAIN nft /\ nft'[id] = left
        /\ \A q \in DOMAIN nft \ {id} : nft'[q] = nft[q]
    BY <1>1, <2>1
  <2> HIDE DEF left
  <2>4. QED BY <2>2, <2>3 DEF owned
<1>5. \A q \in owned : q \in owned' /\ nft'[q].liquidity >= nft[q].liquidity
  BY <1>3, <1>4 DEF owned
<1>6. QED BY <1>1, <1>5, NoneShrinks

LEMMA OthersBacked ==
  ASSUME IInv, IInv', Backed, Others
  PROVE  Backed'
<1>1. CASE \E n \in Amount, r \in {Vault, Outsider} : outsiderMint(r, n)
  <2>1. PICK n \in Amount, r \in {Vault, Outsider} : outsiderMint(r, n)
    BY <1>1
  <2>2. /\ NewPosition(r, n) /\ UNCHANGED <<positionsArray, positionsMapping>>
        /\ n \in Uint128 /\ ManagerOK /\ MappingOK
    BY <2>1, Bounds DEF outsiderMint, vaultVars, IInv
  <2>3. tracked' \subseteq tracked \cup {nextId}
    BY <2>2 DEF tracked
  <2>4. /\ DOMAIN nft' = DOMAIN nft \cup {nextId}
        /\ \A i \in DOMAIN nft : nft'[i] = nft[i]
    BY <2>2, <2>3, NewPositionDoes
  <2>5. \A q \in owned : q \in owned' /\ nft'[q].liquidity >= nft[q].liquidity
    BY <2>4, Numbers DEF owned
  <2>6. QED BY <2>2, <2>5, NoneShrinks
<1>2. ASSUME NEW id, NEW n \in Amount, outsiderIncrease(id, n) PROVE Backed'
  <2>1. AddLiquidity(id, n) /\ UNCHANGED positionsArray /\ n \in Nat /\ ManagerOK
    BY <1>2, Bounds DEF outsiderIncrease, vaultVars, IInv
  <2>2. /\ id \in DOMAIN nft /\ DOMAIN nft' = DOMAIN nft
        /\ nft'[id].liquidity = nft[id].liquidity + n
        /\ nft'[id].owner = nft[id].owner
        /\ \A i \in DOMAIN nft \ {id} : nft'[i] = nft[i]
    BY <2>1, AddDoes
  <2>3. \A q \in owned : q \in owned' /\ nft'[q].liquidity >= nft[q].liquidity
    BY <2>1, <2>2, Numbers DEF owned
  <2>4. QED BY <2>1, <2>3, NoneShrinks
<1>3. ASSUME NEW id, NEW n \in Amount, outsiderDecrease(id, n) PROVE Backed'
  <2>1. /\ RemoveLiquidity(Outsider, id, n) /\ UNCHANGED positionsArray
        /\ n \in Nat /\ ManagerOK
    BY <1>3, Bounds DEF outsiderDecrease, vaultVars, IInv
  <2>2. /\ DOMAIN nft' = DOMAIN nft /\ nft[id].owner = Outsider
        /\ \A i \in DOMAIN nft \ {id} : nft'[i] = nft[i]
    BY <2>1, RemoveDoes
  <2>3. \A q \in owned : q \in owned' /\ nft'[q].liquidity >= nft[q].liquidity
    BY <2>2, Bounds, Numbers DEF owned
  <2>4. QED BY <2>1, <2>3, NoneShrinks
<1>4. ASSUME NEW id, outsiderCollect(id) \/ outsiderBurn(id) \/ outsiderGive(id)
      PROVE  Backed'
  <2>1. UNCHANGED positionsArray /\ id \notin owned
    BY <1>4 DEF outsiderCollect, outsiderBurn, outsiderGive, vaultVars
  <2>2. \A q \in DOMAIN nft \ {id} : q \in DOMAIN nft' /\ nft'[q] = nft[q]
    BY <1>4 DEF outsiderCollect, outsiderBurn, outsiderGive
  <2>3. \A q \in owned : q \in owned' /\ nft'[q].liquidity >= nft[q].liquidity
    BY <2>1, <2>2, Numbers DEF owned
  <2>4. QED BY <2>1, <2>3, NoneShrinks
<1>5. QED BY <1>1, <1>2, <1>3, <1>4, OwedBacked DEF Others

LEMMA WalletBacked ==
  ASSUME Backed, UNCHANGED <<positionsArray, nft>>
  PROVE  Backed'
BY DEF Backed, owned

LEMMA PositionBacked ==
  ASSUME IInv, IInv', Backed, NEW id, Position(id)
  PROVE  Backed'
<1>1. CASE burn(id)
  BY <1>1, BurnBacked
<1>2. CASE collectFees(id)
  BY <1>2, OwedBacked
<1>3. CASE \E n \in Amount : increaseLiquidity(id, n) \/ decreaseLiquidity(id, n)
  <2>1. PICK n \in Amount : increaseLiquidity(id, n) \/ decreaseLiquidity(id, n)
    BY <1>3
  <2>2. n \in Nat
    BY Bounds
  <2>3. QED BY <2>1, <2>2, IncreaseBacked, DecreaseBacked
<1>4. QED BY <1>1, <1>2, <1>3 DEF Position

(* The trader mints to the vault. *)
LEMMA NextBacked ==
  ASSUME Recipient \subseteq {Vault}, IInv, IInv', Backed, [Next]_vars
  PROVE  Backed'
<1>1. CASE Trader
  <2>1. CASE \E n \in Amount : swap(n)
    BY <2>1, WalletBacked DEF swap, vaultVars
  <2>2. CASE \E n \in Amount, r \in Recipient : mint(r, n)
    <3>1. PICK n \in Amount : mint(Vault, n)
      BY <2>2
    <3>2. QED BY <3>1, Bounds, MintBacked
  <2>3. CASE \E id \in TokenId : Position(id)
    BY <2>3, PositionBacked
  <2>4. QED BY <1>1, <2>1, <2>2, <2>3 DEF Trader
<1>2. CASE Treasury
  BY <1>2, WalletBacked DEF Treasury, fund, defund, vaultVars
<1>3. CASE Others
  BY <1>3, OthersBacked
<1>4. CASE UNCHANGED vars
  BY <1>4, WalletBacked DEF vars, vaultVars
<1>5. QED BY <1>1, <1>2, <1>3, <1>4 DEF Next

\* Entry by entry, then in total: different entries stand for different
\* positions.
LEMMA BackedIsHeld ==
  ASSUME IInv, Backed
  PROVE  RecordedIsHeld
<1> DEFINE S     == DOMAIN positionsArray
           f     == [i \in S |-> positionsArray[i].liquidity]
           worth == [id \in owned |-> nft[id].liquidity]
           at    == [i \in S |-> positionsArray[i].tokenId]
<1>1. /\ \A i \in S : f[i] \in Nat
      /\ \A id \in owned : worth[id] \in Nat
      /\ IsFiniteSet(owned)
  BY Numbers DEF owned
<1>2. at \in [S -> owned] /\ \A i \in S : f[i] <= worth[at[i]]
  <2>1. at \in [S -> owned]
    BY DEF Backed
  <2>2. ASSUME NEW i \in S PROVE f[i] <= worth[at[i]]
    <3>1. /\ positionsArray[i].tokenId \in owned
          /\ positionsArray[i].liquidity <= nft[positionsArray[i].tokenId].liquidity
      BY DEF Backed
    <3>2. QED BY <3>1
  <2>3. QED BY <2>1, <2>2
<1>3. \A i, j \in S : at[i] = at[j] => i = j
  BY DEF IInv, ArrayOK
<1>4. recorded = Total(f, S) /\ provided = Total(worth, owned)
  BY DEF recorded, provided
<1>5. \A p \in ToSet(positionsArray) :
         p.tokenId \in owned /\ p.liquidity <= nft[p.tokenId].liquidity
  BY DEF Backed, ToSet
<1> HIDE DEF f, worth, at
<1>6. IsFiniteSet(S)
  BY FS_Interval DEF IInv, ArrayOK
<1> HIDE DEF S
<1>7. Total(f, S) <= Total(worth, owned)
  BY <1>1, <1>2, <1>3, TotalInjects
<1>8. recorded <= provided
  BY <1>4, <1>7
<1>9. QED BY <1>5, <1>8 DEF RecordedIsHeld

(* When the trader mints to the vault, whatever outsiders do to its        *)
(* positions, the liquidity the vault's array records is liquidity that    *)
(* the position manager has for it.                                        *)
THEOREM RecordsAreThere ==
  ASSUME Recipient \subseteq {Vault}
  PROVE  Spec => []RecordedIsHeld
<1>1. Init => Backed
  BY DEF Init, Backed
<1>2. IInv /\ IInv' /\ Backed /\ [Next]_vars => Backed'
  BY NextBacked
<1>3. IInv /\ Backed => RecordedIsHeld
  BY BackedIsHeld
<1>4. QED BY <1>1, <1>2, <1>3, Invariant, PTL DEF Spec

-----------------------------------------------------------------------------
(* What the vault has: every operation on a position it owns moves tokens  *)
(* between its wallet and the position.                                    *)

Worth == [id \in owned |-> nft[id].liquidity + nft[id].owed]

WorthOK ==
    /\ held = wallet + Total(Worth, owned)
    /\ \A id \in owned : Worth[id] = nft[id].liquidity + nft[id].owed
    /\ \A id \in owned : Worth[id] \in Nat
    /\ Total(Worth, owned) \in Nat /\ IsFiniteSet(owned) /\ wallet \in Nat

LEMMA WorthTotal == IInv => WorthOK
<1> SUFFICES ASSUME IInv PROVE WorthOK
  OBVIOUS
<1>1. \A id \in owned : /\ Worth[id] = nft[id].liquidity + nft[id].owed
                        /\ Worth[id] \in Nat
  BY Numbers DEF owned, Worth
<1>2. IsFiniteSet(owned) /\ wallet \in Nat
  BY Numbers
<1>3. Total(Worth, owned) \in Nat
  BY <1>1, <1>2, TotalNat
<1>4. QED BY <1>1, <1>2, <1>3 DEF WorthOK, held, Worth

LEMMA WorthTotalNext == IInv' => WorthOK'
BY WorthTotal, PTL

\* One position's worth and the wallet change by opposite amounts.
LEMMA WorthMoves ==
  ASSUME IInv, IInv', owned' = owned, NEW id \in owned,
         \A q \in owned \ {id} : nft'[q] = nft[q],
         wallet' + Worth'[id] = wallet + Worth[id]
  PROVE  held' = held
<1>1. /\ held = wallet + Total(Worth, owned)
      /\ \A q \in owned : Worth[q] \in Nat
      /\ Total(Worth, owned) \in Nat /\ IsFiniteSet(owned) /\ wallet \in Nat
  BY WorthTotal DEF WorthOK
<1>2. /\ held' = wallet' + Total(Worth', owned')
      /\ \A q \in owned' : Worth'[q] \in Nat
      /\ Total(Worth', owned') \in Nat /\ wallet' \in Nat
  BY WorthTotalNext DEF WorthOK
<1>3. \A q \in owned \ {id} : Worth[q] = Worth'[q]
  BY DEF Worth
<1>4. Total(Worth', owned) = Total(Worth, owned) - Worth[id] + Worth'[id]
  BY <1>1, <1>2, <1>3, TotalChange
<1>5. QED BY <1>1, <1>2, <1>4

LEMMA MintHeld ==
  ASSUME IInv, IInv', NEW n \in Nat, mint(Vault, n)
  PROVE  held' = held
<1>1. /\ held = wallet + Total(Worth, owned)
      /\ \A q \in owned : Worth[q] \in Nat
      /\ Total(Worth, owned) \in Nat /\ wallet \in Nat
  BY WorthTotal DEF WorthOK
<1>2. /\ held' = wallet' + Total(Worth', owned')
      /\ \A q \in owned' : Worth'[q] \in Nat
      /\ IsFiniteSet(owned')
  BY WorthTotalNext DEF WorthOK
<1>3. /\ n \in Uint128 /\ ManagerOK /\ MappingOK /\ NewPosition(Vault, n)
      /\ wallet' = wallet - n
  BY Bounds DEF mint, IInv, WalletOK, Uint128
<1>4. tracked' \subseteq tracked \cup {nextId}
  BY DEF mint, Written, tracked
<1>5. /\ nextId \notin DOMAIN nft
      /\ DOMAIN nft' = DOMAIN nft \cup {nextId}
      /\ nft'[nextId] = [owner |-> Vault, liquidity |-> n, owed |-> 0]
      /\ \A i \in DOMAIN nft : nft'[i] = nft[i]
  BY <1>3, <1>4, NewPositionDoes
<1>6. /\ owned' = owned \cup {nextId} /\ nextId \notin owned
      /\ \A q \in owned : Worth'[q] = Worth[q]
      /\ Worth'[nextId] = n
  BY <1>5 DEF owned, Worth
<1>7. Total(Worth', owned') = Total(Worth', owned' \ {nextId}) + n
  BY <1>2, <1>6, TotalSplit
<1>8. owned' \ {nextId} = owned /\ Total(Worth', owned) = Total(Worth, owned)
  BY <1>6, TotalSame
<1>9. QED BY <1>1, <1>2, <1>3, <1>7, <1>8

LEMMA BurnHeld ==
  ASSUME IInv, IInv', NEW id, burn(id)
  PROVE  held' = held
<1>1. /\ held = wallet + Total(Worth, owned)
      /\ \A q \in owned : Worth[q] \in Nat
      /\ \A q \in owned : Worth[q] = nft[q].liquidity + nft[q].owed
      /\ IsFiniteSet(owned) /\ wallet \in Nat
  BY WorthTotal DEF WorthOK
<1>2. held' = wallet' + Total(Worth', owned')
  BY WorthTotalNext DEF WorthOK
<1>3. /\ id \in owned
      /\ wallet' = wallet + nft[id].liquidity + nft[id].owed
      /\ nft' = [i \in DOMAIN nft \ {id} |-> nft[i]]
  BY DEF burn
<1>4. owned' = owned \ {id} /\ \A q \in owned \ {id} : Worth'[q] = Worth[q]
  BY <1>3 DEF owned, Worth
<1>5. /\ Total(Worth, owned) = Total(Worth, owned \ {id}) + Worth[id]
      /\ Total(Worth, owned \ {id}) \in Nat
  BY <1>1, <1>3, TotalSplit
<1>6. Total(Worth', owned \ {id}) = Total(Worth, owned \ {id})
  BY <1>4, TotalSame
<1>7. nft[id].liquidity \in Nat /\ nft[id].owed \in Nat
  BY <1>3, Numbers DEF owned
<1>8. QED BY <1>1, <1>2, <1>3, <1>4, <1>5, <1>6, <1>7

LEMMA PositionHeld ==
  ASSUME IInv, IInv', NEW id \in tracked \cap owned, Position(id)
  PROVE  held' = held
<1>1. CASE burn(id)
  BY <1>1, BurnHeld
<1>2. /\ ManagerOK /\ id \in DOMAIN nft /\ nft[id].owner = Vault /\ wallet \in Nat
      /\ nft[id].liquidity \in Nat /\ nft[id].owed \in Nat
  BY Numbers DEF IInv, owned
<1>3. ASSUME \/ collectFees(id)
             \/ \E n \in Amount : increaseLiquidity(id, n) \/ decreaseLiquidity(id, n)
      PROVE  /\ DOMAIN nft' = DOMAIN nft /\ nft'[id].owner = Vault
             /\ \A q \in DOMAIN nft \ {id} : nft'[q] = nft[q]
             /\ wallet' + (nft'[id].liquidity + nft'[id].owed)
                  = wallet + (nft[id].liquidity + nft[id].owed)
  <2>1. CASE collectFees(id)
    <3>1. 0 \in Uint128
      BY Bounds DEF Uint128
    <3>2. /\ DOMAIN nft' = DOMAIN nft /\ nft'[id].owner = Vault
          /\ nft'[id].liquidity = nft[id].liquidity /\ nft'[id].owed = 0
          /\ \A q \in DOMAIN nft \ {id} : nft'[q] = nft[q]
      BY <1>2, <2>1, <3>1, OwedDoes DEF collectFees
    <3>3. wallet' = wallet + nft[id].owed
      BY <2>1 DEF collectFees
    <3>4. QED BY <1>2, <3>2, <3>3
  <2>2. ASSUME NEW n \in Amount, increaseLiquidity(id, n)
        PROVE  /\ DOMAIN nft' = DOMAIN nft /\ nft'[id].owner = Vault
               /\ \A q \in DOMAIN nft \ {id} : nft'[q] = nft[q]
               /\ wallet' + (nft'[id].liquidity + nft'[id].owed)
                    = wallet + (nft[id].liquidity + nft[id].owed)
    <3>1. n \in Nat /\ AddLiquidity(id, n) /\ wallet' = wallet - n
      BY <2>2, Bounds DEF increaseLiquidity
    <3>2. QED BY <1>2, <3>1, AddDoes
  <2>3. ASSUME NEW n \in Amount, decreaseLiquidity(id, n)
        PROVE  /\ DOMAIN nft' = DOMAIN nft /\ nft'[id].owner = Vault
               /\ \A q \in DOMAIN nft \ {id} : nft'[q] = nft[q]
               /\ wallet' + (nft'[id].liquidity + nft'[id].owed)
                    = wallet + (nft[id].liquidity + nft[id].owed)
    <3>1. n \in Nat /\ RemoveLiquidity(Vault, id, n) /\ wallet' = wallet
      BY <2>3, Bounds DEF decreaseLiquidity
    <3>2. QED BY <1>2, <3>1, RemoveDoes
  <2>4. QED BY <1>3, <2>1, <2>2, <2>3
<1>4. CASE ~burn(id)
  <2>1. /\ DOMAIN nft' = DOMAIN nft /\ nft'[id].owner = Vault
        /\ \A q \in DOMAIN nft \ {id} : nft'[q] = nft[q]
        /\ wallet' + (nft'[id].liquidity + nft'[id].owed)
             = wallet + (nft[id].liquidity + nft[id].owed)
    BY <1>3, <1>4 DEF Position
  <2>2. owned' = owned /\ id \in owned
    BY <1>2, <2>1 DEF owned
  <2>3. wallet' + Worth'[id] = wallet + Worth[id]
    BY <2>1, <2>2 DEF Worth
  <2>4. QED BY <2>1, <2>2, <2>3, WorthMoves DEF owned
<1>5. QED BY <1>1, <1>4

(* Minting to the vault and working on a position it tracks and owns never *)
(* lowers what the vault has, whatever others did before.                  *)
THEOREM WorkKeepsHoldings == Spec => HoldingsKept
<1>1. ASSUME IInv, IInv',
             \/ \E n \in Amount : mint(Vault, n)
             \/ \E id \in tracked \cap owned : Position(id)
      PROVE  held' >= held
  <2>1. held' = held
    <3>1. CASE \E n \in Amount : mint(Vault, n)
      BY <1>1, <3>1, Bounds, MintHeld
    <3>2. CASE \E id \in tracked \cap owned : Position(id)
      BY <1>1, <3>2, PositionHeld
    <3>3. QED BY <1>1, <3>1, <3>2
  <2>2. held \in Nat
    BY <1>1, WorthTotal DEF WorthOK
  <2>3. QED BY <2>1, <2>2
<1>2. IInv /\ IInv' /\ [Next]_vars
        => [\/ \E n \in Amount : mint(Vault, n)
            \/ \E id \in tracked \cap owned : Position(id)
            => held' >= held]_vars
  BY <1>1
<1>3. QED BY <1>2, Invariant, PTL DEF Spec, HoldingsKept

=============================================================================
