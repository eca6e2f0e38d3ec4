\* Two torrents in every pair of states, most invocations, one fault; a client
\* that shows a recheck at once or late, and may start what it has hashed.
SPECIFICATION FairSpec
CONSTANTS
  h1 = h1
  h2 = h2
  Hashes <- TwoHashes
  Caps <- CapsHere
  Modes <- MostModes
  DestStates = {"absent", "stoppedDL", "stoppedUP", "checkingDL", "stalledDL", "stalledUP", "missingFiles", "moving"}
  LateRecheck = {TRUE, FALSE}
  StopCancelsHash = {TRUE, FALSE}
  AutoStart = {TRUE, FALSE}
  MaxFaults = 1
INVARIANTS TypeOK ReadyMeansProven FailsForAReason
PROPERTIES WaitEnds EventuallyProven
