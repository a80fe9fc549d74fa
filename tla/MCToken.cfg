SPECIFICATION Spec
CONSTANTS
    Collateral = c
    Receipt = r
    Token = {c, r}
    User = {u1, u2}
    Contract = {m}
    Manager = m
    Zero = zero
    NoLoan = none
    Units = {1, 2}
    Amount = {1, 2}
    MaxUint = 3
INVARIANT TypeOK
PROPERTIES HoldersNeverUncover ConversionKeepsUnderAUnit LoanLeavesNoMark FrozenOrPausedStays
CHECK_DEADLOCK FALSE
SYMMETRY Holders
CONSTRAINT FewOrders
