CONSTANTS
  User = {u1, u2}
  HealthFactor = {9000, 9500, 10000}
  MaxMoves = 2
  MaxFailures = 1
  MaxLost = 1

SPECIFICATION ReporterSpec
INVARIANT ReporterTypeOK
PROPERTIES QuietWhileUnchanged Alerted
