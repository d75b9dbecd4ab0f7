SPECIFICATION Spec
CONSTANTS
  Paths <- Mixed
  Dirs <- MixedDirs
  Ids = {i1, i2}
  Threads = {t1, t2}
  Parts = {dacl}
  Values = {0, 1}
  DefaultSD <- Default
  Nobody = Nobody
  NoNode = NoNode
  NoChange = NoChange
SYMMETRY Symmetry
INVARIANTS TypeOK ReadIsFresh
PROPERTIES KeepsList KnownSecurityIsStable
