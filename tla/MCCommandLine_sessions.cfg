SPECIFICATION MCSpec
CONSTANTS
  h1 = h1
  Servers <- TwoServers
  Hashes <- OneHash
  Limits = {0, 1}
  Versions <- SomeVersions
  MaxFaults = 2
  Commands = {"audit", "plan", "fetch", "migrate", "import", "verify", "handoff"}
INVARIANTS TypeOK LiveSessionSpeaks
PROPERTIES ImplementsClient StopsInTheEnd
