SPECIFICATION FairSpec
CONSTANTS
  Apps = {a1, a2}
  None = none
  QueueBound = 2
INVARIANTS RequestOnTheWay OneRequestSwallowed SilenceHasCause
PROPERTIES SaveIsLoaded AppConnects
