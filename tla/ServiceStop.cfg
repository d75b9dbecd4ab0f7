SPECIFICATION FairSpec
CONSTANTS
  Mounts = {m1, m2}
  NoMount = noMount
  MaxAdds = 1
  MaxDying = 1
INVARIANTS TypeOK AbortHasCause StopLeavesNoChild
PROPERTY StopEnds
