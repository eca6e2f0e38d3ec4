SPECIFICATION MCSpec
CONSTANTS
  MaxInteger = 12
  MAX_DEPTH = 5
  Values <- Resumes
  Torrents <- Creations
  Downloads <- Fetched
  NewPaths <- Paths
  Alphabet <- Damaging
  Machines <- AnyMachine
  MaxDamage = 1
INVARIANTS AcceptedIsCanonical ReadsAsMeant TornIsRefused PreflightSuffices
PROPERTIES AdviceWorks
CHECK_DEADLOCK FALSE
