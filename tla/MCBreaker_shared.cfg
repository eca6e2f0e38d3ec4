\* Two terminals and the user, at any time, three limits, four faults.
SPECIFICATION Spec
CONSTANTS
  r1 = r1
  r2 = r2
  Runs <- TwoRuns
  UserLimits = {0, 5, 9}
  MaxFaults = 4
INVARIANTS HeldMeansThrottled RestoredAfterwards
SYMMETRY Symmetric
