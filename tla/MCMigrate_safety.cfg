SPECIFICATION MigrateSpec
CONSTANTS
  Segments <- Names
  Hashes = {1, 2}
  Files = {"f"}
  Libraries <- TwoLibraries
  EditedPairs <- Edits
  Dest <- Here
  Budgets = {4}
  ByteCaps = {{}}
  TorrentCaps = {{}, {1}}
  MaxFaults = 1
  Migrations <- MainMigrations
  Orders <- Both
  StopCancelsHash = {TRUE, FALSE}
INVARIANTS MigrateTypeOK GateHolds CompleteMeansHandedOver SavedWhereItLies
