\* Two torrents, every invocation, a client that starts what it has hashed.
SPECIFICATION Spec
CONSTANTS
  h1 = h1
  h2 = h2
  Hashes <- TwoHashes
  Caps <- AnySubset
  Modes <- MainModes
  StopCancelsHash = {TRUE, FALSE}
  AutoStart = {TRUE, FALSE}
  UserLimit = 0
  MaxFaults = 2
INVARIANTS TypeOK TendedStayQuiet CompleteMeansTended DownloadsAreThrottled
SYMMETRY Symmetric
