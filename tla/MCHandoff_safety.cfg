\* Two torrents in every pair of states, every invocation, two faults.
SPECIFICATION Spec
CONSTANTS
  h1 = h1
  h2 = h2
  Hashes <- TwoHashes
  Caps <- AnySubset
  Modes <- MainModes
  Interference = {"loseFiles", "rollback"}
  SourceStates = {"stalledUP", "stoppedUP", "checkingUP"}
  DestStates = {"absent", "stoppedUP", "stalledUP", "checkingUP"}
  UserLimit = 0
  MaxFaults = 2
INVARIANTS TypeOK NoDualSeed CompleteMeansHanded
PROPERTIES SilencedOnlyWhenProven ThrottledStart ImplementsCustody
SYMMETRY Symmetric
