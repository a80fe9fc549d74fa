SPECIFICATION AloneSpec
CONSTANTS
    Vault = vault
    Outsider = outsider
    Recipient = {vault}
    Amount = {1, 2}
    MaxTokenId = 2
    MaxLiquidity = 3
INVARIANT BurnAsksForAllLiquidity
CHECK_DEADLOCK FALSE
