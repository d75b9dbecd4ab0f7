SPECIFICATION FairSpec
CONSTANTS
  Procs = {p1, p2}
  Values = {v1, v2}
  Empty = v1
  Torn = Torn
  NoProc = NoProc
  Nothing = Nothing
INVARIANTS TypeOK TornHasCause
PROPERTIES OrderedRestartKeeps ImplementsChild CloseEnds ChangeReachesDisk NoMountEnds
