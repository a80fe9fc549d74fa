CONSTANTS
    Network = {"local", "testnet", "mainnet"}
    Retries = 1
    Faults = 1
SPECIFICATION Spec
INVARIANTS TypeOK PointedAtFeed ProxiesSaved MigratedMeansDone GivesUpWhereKnown
           HandedOverConfigured RiskAdminIsTemporary
PROPERTY Settles
CHECK_DEADLOCK FALSE
