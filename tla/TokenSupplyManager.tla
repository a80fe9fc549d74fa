-------------------------- MODULE TokenSupplyManager --------------------------
(***************************************************************************)
(* TokenSupplyManager: receipts minted for collateral, one for one in      *)
(* value, and redeemed for it again.  Both tokens are stablecoins and can  *)
(* be paused, frozen, seized and flash-minted under the manager's feet;    *)
(* the receipt may have other minters, and the owner may move the          *)
(* collateral away.                                                        *)
(***************************************************************************)
EXTENDS Stablecoin

CONSTANTS
    Collateral, Receipt,   \* the manager's two tokens
    Manager,               \* its address
    Units                  \* the values 10 ** decimals a token may have

ASSUME ManagerAssumption ==
    /\ Token = {Collateral, Receipt} /\ Collateral # Receipt
    /\ Manager \in Contract
    /\ Units \subseteq Nat \ {0}
    /\ \A m, n \in Units : m <= n => n % m = 0

VARIABLE unit   \* unit[t] = 10 ** decimals, read by the constructor

vars == <<bookVars, complianceVars, loan, unit>>

Init == InitStablecoin /\ unit \in [Token -> Units]

\* A bug the checks must find: a division rounds up.
ConvertedUp(n, from, to) ==
    IF unit[to] >= unit[from] THEN n * (unit[to] \div unit[from])
    ELSE (n + unit[from] \div unit[to] - 1) \div (unit[from] \div unit[to])

\* A bug the checks must find: amounts are only ever divided.
ConvertedDownOnly(n, from, to) ==
    IF unit[to] >= unit[from] THEN n ELSE n \div (unit[from] \div unit[to])

\* _convertAmountBetweenDecimals: multiply or divide by the power of ten
\* between the two.
Converted(n, from, to) ==
    IF unit[to] >= unit[from] THEN n * (unit[to] \div unit[from])
                              ELSE n \div (unit[from] \div unit[to])

issue(sender, to, n) ==
    LET receipts == Converted(n, Collateral, Receipt)
    IN  /\ MayPay(Collateral, sender, n)
        /\ MayMint(Receipt, receipts)
        /\ balance' = [balance EXCEPT ![Collateral] = Moved(Collateral, sender, Manager, n),
                                      ![Receipt] = Minted(Receipt, to, receipts)]
        /\ totalSupply' = [totalSupply EXCEPT ![Receipt] = @ + receipts]
        /\ UNCHANGED <<complianceVars, loan, unit>>

redeem(sender, to, n) ==
    LET amount == Converted(n, Receipt, Collateral)
    IN  /\ MayPay(Receipt, sender, n)
        /\ amount \in Uint
        /\ MayPay(Collateral, Manager, amount)
        /\ balance' = [balance EXCEPT ![Receipt] = Burned(Receipt, sender, n),
                                      ![Collateral] = Moved(Collateral, Manager, to, amount)]
        /\ totalSupply' = [totalSupply EXCEPT ![Receipt] = @ - n]
        /\ UNCHANGED <<complianceVars, loan, unit>>

migrateCollateral(to, n) == transfer(Collateral, Manager, to, n)

-----------------------------------------------------------------------------
(* Who calls.  Inside a flash loan only the borrower does. *)

HolderCalls(u) ==
    /\ loan # NoLoan => loan.borrower = u
    /\ \E n \in Amount :
        \/ \E to \in Account : issue(u, to, n) \/ redeem(u, to, n)
        \/ \E t \in Token : burn(t, u, n) /\ UNCHANGED unit
        \/ \E t \in Token, to \in Account : transfer(t, u, to, n) /\ UNCHANGED unit

LoanCalls ==
    /\ \/ \E t \in Token, u \in User, n \in Amount : flashLoan(t, u, n)
       \/ repay
       \/ revert
    /\ UNCHANGED unit

\* Minters of either token, compliance officers and the manager's owner.
OfficerCalls ==
    /\ loan = NoLoan
    /\ \/ \E t \in Token, a \in Account, n \in Amount :
              mint(t, a, n) \/ seize(t, a, n)
       \/ \E t \in Token : pause(t) \/ unpause(t)
       \/ \E t \in Token, a \in Account \cup {Zero} : freeze(t, a) \/ unfreeze(t, a)
       \/ \E a \in Account, n \in Amount : migrateCollateral(a, n)
    /\ UNCHANGED unit

Next == (\E u \in User : HolderCalls(u)) \/ LoanCalls \/ OfficerCalls

Spec == Init /\ [][Next]_vars

-----------------------------------------------------------------------------
(* Properties *)

\* Stored integers fit, and each token's supply is what its holders have, also
\* on the books a revert restores.
TypeOK == StablecoinTypeOK /\ unit \in [Token -> Units]

\* What is held beyond the receipts in circulation, lent ones left out, in
\* units both tokens' units are multiples of.
Value(collateral, receipts) ==
    collateral * unit[Receipt] + receipts * unit[Collateral]

Lent(t) == IF loan # NoLoan /\ loan.token = t THEN loan.amount ELSE 0

Surplus == Value(balance[Collateral][Manager], Lent(Receipt) - totalSupply[Receipt])

\* No call of a holder, nor a flash loan it wraps them in, uncovers a receipt:
\* only another minter of receipts, a seizure from the manager and the owner's
\* migration do.  (issue, redeem and the tokens' own calls)
Uncovers ==
    \E n \in Amount :
        \/ \E a \in Account : mint(Receipt, a, n) \/ migrateCollateral(a, n)
        \/ seize(Collateral, Manager, n)

HoldersNeverUncover ==
    [][Surplus' < Surplus => IF loan = NoLoan THEN Uncovers ELSE revert]_vars

\* What a conversion keeps of what it is paid is worth less than one unit of
\* the coarser token.  (_convertAmountBetweenDecimals in issue and redeem)
ConversionKeepsUnderAUnit ==
    [][ \A u \in User, to \in Account \ {Manager}, n \in Amount :
          issue(u, to, n) \/ redeem(u, to, n) =>
            \E t \in Token : Surplus' - Surplus < unit[t]
      ]_vars

\* A transaction with a flash loan in it leaves no more collateral, no less
\* surplus and no richer borrower than it found.  (ERC20FlashMint under the
\* manager: lent collateral can be wrapped, lent receipts redeemed)
Wealth(books, u) == Value(books[Collateral][u], books[Receipt][u])

LoanLeavesNoMark ==
    [][ loan # NoLoan /\ loan' = NoLoan =>
          /\ totalSupply'[Collateral] <= loan.totalSupply[Collateral]
          /\ Surplus' >= Value(loan.balance[Collateral][Manager], -loan.totalSupply[Receipt])
          /\ Wealth(balance', loan.borrower) <= Wealth(loan.balance, loan.borrower)
      ]_vars

\* Nothing leaves a frozen account or a paused token, a seizure and a redemption
\* from the frozen manager included, and nothing is minted when the token is
\* paused or the zero address frozen: only undoing a reverted transaction takes
\* back what the account received in it.  (_beforeTokenTransfer)
FrozenOrPausedStays ==
    [][ \/ loan # NoLoan /\ revert
        \/ \A t \in Token :
              /\ totalSupply'[t] > totalSupply[t] => mayMove(t, Zero)
              /\ \A a \in Account : balance'[t][a] < balance[t][a] => mayMove(t, a)
      ]_vars
=============================================================================
