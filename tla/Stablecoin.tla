----------------------------- MODULE Stablecoin -----------------------------
(***************************************************************************)
(* The stablecoin tokens: ERC20StablecoinUpgradeable with the compliance   *)
(* extension.  A pauser stops a token, a compliance officer freezes        *)
(* accounts and seizes from them, minters mint, holders transfer and burn. *)
(* Several tokens, each with its own books; whoever calls holds the role   *)
(* or the allowance the call needs (one that does not reverts).            *)
(*                                                                         *)
(* A token also lends: flashLoan mints to the borrower, lets it make calls *)
(* of its own in the same transaction, and burns the loan.  While `loan`   *)
(* is open the transaction is under way, so only the borrower moves, and a *)
(* revert restores what the transaction found.                             *)
(***************************************************************************)
EXTENDS Totals

CONSTANTS
    Token,     \* the stablecoins
    User,      \* holders who make calls, roles included
    Contract,  \* holders that are contracts
    Zero,      \* the zero address
    NoLoan,    \* no flash loan under way
    Amount,    \* amounts callers pass (bound)
    MaxUint    \* largest stored integer, standing for 2 ** 256 - 1 (bound)

Account == User \cup Contract
Uint    == 0 .. MaxUint

ASSUME StablecoinAssumption ==
    /\ IsFiniteSet(User) /\ IsFiniteSet(Contract)
    /\ User \cap Contract = {}
    /\ Zero \notin Account
    /\ Amount \subseteq Nat
    /\ MaxUint \in Nat

VARIABLES
    balance,      \* _balances, per token and account
    totalSupply,  \* _totalSupply, per token
    paused,       \* the tokens that are paused
    frozen,       \* ERC20Compliance._frozen: per token, a set of addresses
    loan          \* the open flash loan and the books it was taken on

bookVars       == <<balance, totalSupply>>
complianceVars == <<paused, frozen>>

\* Sound books: each token's supply is what its holders have, and fits.  The
\* addition to a balance is unchecked: it may not wrap.
SupplyIsHeld(held, supply) ==
    /\ held \in [Token -> [Account -> Uint]]
    /\ supply \in [Token -> Uint]
    /\ \A t \in Token : supply[t] = Total(held[t], Account)

Loans == [token : Token, borrower : User, amount : Nat,
          balance : [Token -> [Account -> Uint]], totalSupply : [Token -> Uint]]

ASSUME LoanAssumption == NoLoan \notin Loans

StablecoinTypeOK ==
    /\ SupplyIsHeld(balance, totalSupply)
    /\ paused \subseteq Token
    /\ frozen \in [Token -> SUBSET (Account \cup {Zero})]
    /\ loan # NoLoan => loan \in Loans /\ SupplyIsHeld(loan.balance, loan.totalSupply)

InitStablecoin ==
    /\ balance = [t \in Token |-> [a \in Account |-> 0]]
    /\ totalSupply = [t \in Token |-> 0]
    /\ paused = {}
    /\ frozen = [t \in Token |-> {}]
    /\ loan = NoLoan

-----------------------------------------------------------------------------
(* Every movement passes _beforeTokenTransfer with the account it takes from, *)
(* which for a mint is the zero address.                                      *)

mayMove(t, from) == t \notin paused /\ from \notin frozen[t]

\* A bug the checks must find: a payment skips the hook.
MayPayFrozen(t, from, n) == balance[t][from] >= n

MayMint(t, n) == mayMove(t, Zero) /\ totalSupply[t] + n \in Uint
MayPay(t, from, n) == mayMove(t, from) /\ balance[t][from] >= n

\* A bug the checks must find: both balances are read before either is written.
MovedReadingFirst(t, from, to, n) ==
    [balance[t] EXCEPT ![from] = @ - n, ![to] = balance[t][to] + n]

Minted(t, to, n)   == [balance[t] EXCEPT ![to] = @ + n]
Burned(t, from, n) == [balance[t] EXCEPT ![from] = @ - n]
Moved(t, from, to, n) == [Burned(t, from, n) EXCEPT ![to] = @ + n]

mint(t, to, n) ==
    /\ MayMint(t, n)
    /\ balance' = [balance EXCEPT ![t] = Minted(t, to, n)]
    /\ totalSupply' = [totalSupply EXCEPT ![t] = @ + n]
    /\ UNCHANGED <<complianceVars, loan>>

\* burn, burnFrom with an allowance, and seize: the same hook for all three.
burn(t, from, n) ==
    /\ MayPay(t, from, n)
    /\ balance' = [balance EXCEPT ![t] = Burned(t, from, n)]
    /\ totalSupply' = [totalSupply EXCEPT ![t] = @ - n]
    /\ UNCHANGED <<complianceVars, loan>>

seize(t, account, n) == burn(t, account, n)

transfer(t, from, to, n) ==
    /\ MayPay(t, from, n)
    /\ balance' = [balance EXCEPT ![t] = Moved(t, from, to, n)]
    /\ UNCHANGED <<totalSupply, complianceVars, loan>>

-----------------------------------------------------------------------------
(* Flash loans, free of charge.  The limit, the largest integer less the     *)
(* supply, is the overflow check of the mint.                                *)

flashLoan(t, u, n) ==
    /\ loan = NoLoan
    /\ MayMint(t, n)
    /\ balance' = [balance EXCEPT ![t] = Minted(t, u, n)]
    /\ totalSupply' = [totalSupply EXCEPT ![t] = @ + n]
    /\ loan' = [token |-> t, borrower |-> u, amount |-> n,
                balance |-> balance, totalSupply |-> totalSupply]
    /\ UNCHANGED complianceVars

\* A bug the checks must find: the loan is closed without burning it.
repayUnburned ==
    /\ loan # NoLoan
    /\ MayPay(loan.token, loan.borrower, loan.amount)
    /\ loan' = NoLoan
    /\ UNCHANGED <<bookVars, complianceVars>>

repay ==
    /\ loan # NoLoan
    /\ MayPay(loan.token, loan.borrower, loan.amount)
    /\ balance' = [balance EXCEPT ![loan.token] =
                      Burned(loan.token, loan.borrower, loan.amount)]
    /\ totalSupply' = [totalSupply EXCEPT ![loan.token] = @ - loan.amount]
    /\ loan' = NoLoan
    /\ UNCHANGED complianceVars

revert ==
    /\ loan # NoLoan
    /\ balance' = loan.balance
    /\ totalSupply' = loan.totalSupply
    /\ loan' = NoLoan
    /\ UNCHANGED complianceVars

-----------------------------------------------------------------------------
(* The pauser and the compliance officer, never inside somebody's loan. *)

pause(t) ==
    /\ t \notin paused
    /\ paused' = paused \cup {t}
    /\ UNCHANGED <<bookVars, frozen, loan>>

unpause(t) ==
    /\ t \in paused
    /\ paused' = paused \ {t}
    /\ UNCHANGED <<bookVars, frozen, loan>>

freeze(t, account) ==
    /\ frozen' = [frozen EXCEPT ![t] = @ \cup {account}]
    /\ UNCHANGED <<bookVars, paused, loan>>

unfreeze(t, account) ==
    /\ frozen' = [frozen EXCEPT ![t] = @ \ {account}]
    /\ UNCHANGED <<bookVars, paused, loan>>
=============================================================================
