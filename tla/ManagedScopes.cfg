\* Two trace ids and two directories, two crashes or reboots, one fault.
CONSTANTS
  MaxTrace = 2
  MaxDir = 2
  MaxCrashes = 2
  MaxFaults = 1
SPECIFICATION Spec
INVARIANTS BarrierMeansSettled FinalizedIsEmpty
PROPERTIES CompletedBeforeRemoval VerdictIsFinal DirectoriesReclaimed ScopesSettle
