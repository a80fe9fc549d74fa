SPECIFICATION Spec
CONSTANTS
    Vault = vault
    Outsider = outsider
    Recipient = {vault}
    Amount = {1}
    MaxTokenId = 3
    MaxLiquidity = 2
INVARIANTS TypeOK TrackedOnce RecordedIsHeld
PROPERTY HoldingsKept
CHECK_DEADLOCK FALSE
