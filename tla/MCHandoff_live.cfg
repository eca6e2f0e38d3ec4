\* Two torrents, --source-url given every time, three faults, run again and again.
SPECIFICATION FairSpec
CONSTANTS
  h1 = h1
  h2 = h2
  Hashes <- TwoHashes
  Caps <- WholeSet
  Modes <- AutoMode
  Interference = {}
  SourceStates = {"stalledUP", "stoppedUP", "checkingUP", "missingFiles"}
  DestStates = {"stoppedUP", "checkingUP"}
  UserLimit = 0
  MaxFaults = 3
PROPERTIES EventuallyHanded
