CONSTANTS
  Ranks = {r1, r2}
  UseCritic = TRUE
  EpochLength = 2
  TotalEpochs = 2
  Overrides = {0, 3, 5}
  SaveFreq = 3
  KeepChoices = {1, 2}
  MaxCrashes = 2
  Missing = Missing
  Torn = Torn
SPECIFICATION FairSpec
INVARIANTS TrackerWhole InOrder SavedInTime RotationBounded
PROPERTY EndsUnlessTorn
