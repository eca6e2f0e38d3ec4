SPECIFICATION Spec
CONSTANTS
  Segments <- Names
  Hashes = {1, 2, 3}
  Files = {"f", "g"}
  Libraries <- AllLibraries
  EditedPairs <- Edits
  Dest <- Here
  Budgets = {3}
  ByteCaps = {{}, {3}}
  TorrentCaps = {{}, {1}}
  MaxFaults = 1
INVARIANTS TypeOK PlanIsSound CapTakesTheSmallest NoSilentCollision LandsWhereStaged
PROPERTIES RerunIsSafe
