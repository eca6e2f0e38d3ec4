SPECIFICATION Spec
CONSTANTS
  Hashes = {1, 2, 3, 4}
  Items <- MCItems
  SaveRoot <- MCRoot
  Partials = {"skip", "complete-files", "all"}
  TorrentCaps <- MCCaps
  Remotes <- MCRemotes
  MaxFaults = 1
INVARIANTS CopiesOnlyComplete
