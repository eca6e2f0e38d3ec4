SPECIFICATION MigrateSpec
CONSTANTS
  Segments <- Names
  Hashes = {1, 2}
  Files = {"f"}
  Libraries <- OneLibrary
  EditedPairs <- Edits
  Dest <- Here
  Budgets = {4}
  ByteCaps = {{}}
  TorrentCaps = {{}}
  MaxFaults = 1
  Migrations <- FullOnly
  Orders <- Both
  StopCancelsHash = {FALSE}
INVARIANTS FailuresHalt
