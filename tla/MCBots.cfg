CONSTANTS
  Bot = {"odos", "curve", "uniswapV3"}
  User = {1, 2}
  IgnoreDuration <- MCIgnoreDuration
  PageSize = 1
  BatchSize = 2
  MaxDebt = 1
  MaxMoves = 1
  MaxFailures = 1
  MaxCrashes = 1
  BorrowsDusd = {1}
  Unstakes = {2}
  Routes <- MCRoutes
  Configured = {"odos", "curve", "uniswapV3"}
  Deployed <- MCDeployed
  Script = {"odos/run", "curve/run", "uniswapV3/run", "combo/run", "odos/specific", "curve/specific", "uniswapV3/specific"}
  SpecificUsers <- MCSpecificUsers
  MaxOdosFailureCount = 1
  MaxCurveFailureCount = 1

SPECIFICATION Spec
INVARIANTS TypeOK OncePerRun ReportedTruly
PROPERTIES IgnoredStayIgnored Rescued
