--------------------------- MODULE UniV3AmoVault ---------------------------
(***************************************************************************)
(* UniV3AmoVault.sol: an AMO vault that keeps its tokens as liquidity      *)
(* positions of a Uniswap v3 pool.  A position is an NFT of the pool's     *)
(* position manager, which keeps its liquidity and the tokens it owes; the *)
(* vault keeps two records of its own, an array and a mapping.             *)
(*                                                                         *)
(* Amounts are counted in liquidity at a price that stands still: adding   *)
(* n of liquidity costs n, removing n makes the manager owe n.  What the   *)
(* liquidity is worth, _getPositionValues, is left out: it puts the pool's *)
(* price in its formulas even when that is outside the position's ticks.   *)
(***************************************************************************)
EXTENDS Totals, SequencesExt

CONSTANTS
    Vault,          \* the contract
    Outsider,       \* any other owner of positions
    Recipient,      \* whom the trader names as the owner of a new position
    Amount,         \* amounts of liquidity callers pass (bound)
    MaxTokenId,     \* number of NFTs (bound)
    MaxLiquidity    \* largest amount stored (bound)

TokenId == 1 .. MaxTokenId
Uint128 == 0 .. MaxLiquidity

ASSUME PositionsAssumption ==
    /\ Vault # Outsider
    /\ Recipient \subseteq {Vault, Outsider}
    /\ Amount \subseteq 1 .. MaxLiquidity
    /\ MaxTokenId \in Nat
    /\ MaxLiquidity \in Nat

VARIABLES
    positionsArray,    \* _positionsArray, as [tokenId, liquidity]
    positionsMapping,  \* _positionsMapping: token ids it has to liquidity
    nft,               \* the manager's: id -> [owner, liquidity, owed]
    nextId,            \* the manager's next token id
    wallet             \* the vault's own pool tokens

vaultVars == <<positionsArray, positionsMapping>>
vars == <<vaultVars, nft, nextId, wallet>>

tracked == DOMAIN positionsMapping
owned   == {id \in DOMAIN nft : nft[id].owner = Vault}

TypeOK ==
    /\ positionsArray \in Seq([tokenId : TokenId, liquidity : Uint128])
    /\ tracked \subseteq TokenId
    /\ positionsMapping \in [tracked -> Uint128]
    /\ DOMAIN nft \subseteq TokenId
    /\ nft \in [DOMAIN nft -> [owner : {Vault, Outsider},
                               liquidity : Uint128, owed : Uint128]]
    /\ nextId \in 1 .. MaxTokenId + 1
    /\ wallet \in Uint128

Init ==
    /\ positionsArray = <<>>
    /\ positionsMapping = <<>>
    /\ nft = <<>>
    /\ nextId = 1
    /\ wallet = 0

-----------------------------------------------------------------------------
(* The position manager *)

\* A mapping with one key written.
Written(f, key, value) ==
    [k \in DOMAIN f \cup {key} |-> IF k = key THEN value ELSE f[k]]

NewPosition(owner, n) ==
    /\ nextId \in TokenId
    /\ nextId' = nextId + 1
    /\ nft' = Written(nft, nextId, [owner |-> owner, liquidity |-> n, owed |-> 0])

\* Anybody may add liquidity to anybody's position.
AddLiquidity(id, n) ==
    /\ id \in DOMAIN nft
    /\ nft[id].liquidity + n \in Uint128
    /\ nft' = [nft EXCEPT ![id].liquidity = @ + n]

RemoveLiquidity(owner, id, n) ==
    /\ id \in DOMAIN nft
    /\ nft[id].owner = owner
    /\ nft[id].liquidity >= n
    /\ nft[id].owed + n \in Uint128
    /\ nft' = [nft EXCEPT ![id].liquidity = @ - n, ![id].owed = @ + n]

-----------------------------------------------------------------------------
(* The AMO trader's operations *)

\* The vault records the position whoever owns it.
mint(recipient, n) ==
    /\ wallet >= n
    /\ wallet' = wallet - n
    /\ NewPosition(recipient, n)
    /\ positionsArray' =
           Append(positionsArray, [tokenId |-> nextId, liquidity |-> n])
    /\ positionsMapping' = Written(positionsMapping, nextId, n)

indexOf(id) == SelectInSeq(positionsArray, LAMBDA p : p.tokenId = id)

\* A bug the checks must find: the last entry goes, whichever is burnt.
lastRemoved(id) == Front(positionsArray)

\* The last entry takes the place of the first one with this id.
swapAndPop(id) ==
    IF indexOf(id) = 0
    THEN positionsArray
    ELSE Front([positionsArray EXCEPT ![indexOf(id)] = Last(positionsArray)])

\* burn removes the liquidity that the mapping has, collects everything owed and
\* burns the NFT, for which no liquidity may be left.
burn(id) ==
    /\ id \in tracked
    /\ id \in owned
    /\ nft[id].liquidity = positionsMapping[id]
    /\ wallet + nft[id].liquidity + nft[id].owed \in Uint128
    /\ wallet' = wallet + nft[id].liquidity + nft[id].owed
    /\ nft' = [i \in DOMAIN nft \ {id} |-> nft[i]]
    /\ positionsArray' = swapAndPop(id)
    /\ positionsMapping' = [i \in tracked \ {id} |-> positionsMapping[i]]
    /\ UNCHANGED nextId

\* The array's entry follows; the mapping does not.  A position that is not
\* tracked is paid for all the same.
increaseLiquidity(id, n) ==
    /\ wallet >= n
    /\ wallet' = wallet - n
    /\ AddLiquidity(id, n)
    /\ IF indexOf(id) = 0
       THEN UNCHANGED positionsArray
       ELSE /\ positionsArray[indexOf(id)].liquidity + n \in Uint128
            /\ positionsArray' =
                   [positionsArray EXCEPT ![indexOf(id)].liquidity = @ + n]
    /\ UNCHANGED <<positionsMapping, nextId>>

\* Two bugs the checks must find: an unchecked subtraction, and an entry that
\* does not follow.
decreaseUnchecked(id, n) ==
    /\ RemoveLiquidity(Vault, id, n)
    /\ indexOf(id) # 0
    /\ positionsArray' =
           [positionsArray EXCEPT ![indexOf(id)].liquidity = @ - n]
    /\ UNCHANGED <<positionsMapping, nextId, wallet>>

decreaseUnrecorded(id, n) ==
    /\ RemoveLiquidity(Vault, id, n)
    /\ UNCHANGED <<vaultVars, nextId, wallet>>

\* Reverts when the array has less than is removed, though the position may have
\* more: somebody else may have added to it.
decreaseLiquidity(id, n) ==
    /\ RemoveLiquidity(Vault, id, n)
    /\ IF indexOf(id) = 0
       THEN UNCHANGED positionsArray
       ELSE /\ positionsArray[indexOf(id)].liquidity >= n
            /\ positionsArray' =
                   [positionsArray EXCEPT ![indexOf(id)].liquidity = @ - n]
    /\ UNCHANGED <<positionsMapping, nextId, wallet>>

\* A bug the checks must find: without a recipient the manager keeps the tokens.
collectToManager(id) ==
    /\ id \in tracked
    /\ id \in owned
    /\ nft' = [nft EXCEPT ![id].owed = 0]
    /\ UNCHANGED <<vaultVars, nextId, wallet>>

collectFees(id) ==
    /\ id \in tracked
    /\ id \in owned
    /\ wallet + nft[id].owed \in Uint128
    /\ wallet' = wallet + nft[id].owed
    /\ nft' = [nft EXCEPT ![id].owed = 0]
    /\ UNCHANGED <<vaultVars, nextId>>

\* swapExactInputSingle and swapExactOutputSingle: at a steady price a swap
\* costs its fee, or everything when the recipient is somebody else.
swap(n) ==
    /\ wallet >= n
    /\ wallet' = wallet - n
    /\ UNCHANGED <<vaultVars, nft, nextId>>

-----------------------------------------------------------------------------
(* Everybody else *)

\* Tokens paid to the vault, or taken by the AmoManager and withdrawers.
fund(n) ==
    /\ wallet + n \in Uint128
    /\ wallet' = wallet + n
    /\ UNCHANGED <<vaultVars, nft, nextId>>

defund(n) ==
    /\ wallet >= n
    /\ wallet' = wallet - n
    /\ UNCHANGED <<vaultVars, nft, nextId>>

\* Swaps by others earn fees for the positions with liquidity.
earnFees(id, n) ==
    /\ id \in DOMAIN nft
    /\ nft[id].liquidity > 0
    /\ nft[id].owed + n \in Uint128
    /\ nft' = [nft EXCEPT ![id].owed = @ + n]
    /\ UNCHANGED <<vaultVars, nextId, wallet>>

outsiderMint(recipient, n) ==
    /\ NewPosition(recipient, n)
    /\ UNCHANGED <<vaultVars, wallet>>

outsiderIncrease(id, n) ==
    /\ AddLiquidity(id, n)
    /\ UNCHANGED <<vaultVars, nextId, wallet>>

outsiderDecrease(id, n) ==
    /\ RemoveLiquidity(Outsider, id, n)
    /\ UNCHANGED <<vaultVars, nextId, wallet>>

outsiderCollect(id) ==
    /\ id \in DOMAIN nft \ owned
    /\ nft' = [nft EXCEPT ![id].owed = 0]
    /\ UNCHANGED <<vaultVars, nextId, wallet>>

outsiderBurn(id) ==
    /\ id \in DOMAIN nft \ owned
    /\ nft[id].liquidity = 0 /\ nft[id].owed = 0
    /\ nft' = [i \in DOMAIN nft \ {id} |-> nft[i]]
    /\ UNCHANGED <<vaultVars, nextId, wallet>>

outsiderGive(id) ==
    /\ id \in DOMAIN nft \ owned
    /\ nft' = [nft EXCEPT ![id].owner = Vault]
    /\ UNCHANGED <<vaultVars, nextId, wallet>>

-----------------------------------------------------------------------------
Position(id) ==
    \/ burn(id)
    \/ collectFees(id)
    \/ \E n \in Amount : increaseLiquidity(id, n) \/ decreaseLiquidity(id, n)

Trader ==
    \/ \E n \in Amount : swap(n) \/ \E r \in Recipient : mint(r, n)
    \/ \E id \in TokenId : Position(id)

Treasury == \E n \in Amount : fund(n) \/ defund(n)

Others ==
    \/ \E n \in Amount, r \in {Vault, Outsider} : outsiderMint(r, n)
    \/ \E id \in TokenId :
           \/ \E n \in Amount : \/ earnFees(id, n)
                                \/ outsiderIncrease(id, n)
                                \/ outsiderDecrease(id, n)
           \/ outsiderCollect(id) \/ outsiderBurn(id) \/ outsiderGive(id)

Next == Trader \/ Treasury \/ Others

\* Spec: any trader among any others.  AloneSpec: nobody else touches the
\* manager's positions.
Spec      == Init /\ [][Next]_vars
AloneSpec == Init /\ [][Trader \/ Treasury]_vars

-----------------------------------------------------------------------------
(* Properties *)

\* The liquidity that _totalPositionValues hands on to be valued, entry by entry.
recorded ==
    Total([i \in DOMAIN positionsArray |-> positionsArray[i].liquidity],
          DOMAIN positionsArray)

\* The liquidity the position manager has for the vault.
provided == Total([id \in owned |-> nft[id].liquidity], owned)

\* What the vault has: its tokens, and its positions with what they are owed.
held == wallet + Total([id \in owned |-> nft[id].liquidity + nft[id].owed], owned)

\* mint and burn keep the two records together: the array has every position of
\* the mapping, once, and no other, after any number of swap-and-pops.
TrackedOnce ==
    /\ \A i, j \in DOMAIN positionsArray :
           positionsArray[i].tokenId = positionsArray[j].tokenId => i = j
    /\ {p.tokenId : p \in ToSet(positionsArray)} = tracked

\* The array's liquidity, from which totalValue() is computed, is liquidity that
\* the position manager has for the vault, entry by entry and in total, whatever
\* outsiders do to the vault's positions.  It holds when the trader names the
\* vault as the owner of what it mints, and says nothing of what the liquidity
\* is worth.
RecordedIsHeld ==
    /\ \A p \in ToSet(positionsArray) :
           p.tokenId \in owned /\ p.liquidity <= nft[p.tokenId].liquidity
    /\ recorded <= provided

\* Minting to the vault and working on a position it tracks and owns, burning
\* and collecting included, never lower what the vault has.
HoldingsKept ==
    [][\/ \E n \in Amount : mint(Vault, n)
       \/ \E id \in tracked \cap owned : Position(id)
       => held' >= held]_vars

\* burn "removes all liquidity" (UniV3AmoVault.sol): what it asks the position
\* manager to remove is what the position has.
BurnAsksForAllLiquidity ==
    \A id \in tracked \cap owned : positionsMapping[id] = nft[id].liquidity
=============================================================================
