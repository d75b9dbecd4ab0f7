SPECIFICATION Spec
SYMMETRY Symmetry
CONSTANTS
  Threads = {t1, t2}
  Opens = {o1, o2}
  Cached = {o1}
  Handles = {h1}
  Null = null
  Start = start
  FlushAt = 1
  Modulus = 2
  MaxWrites = 3
INVARIANTS FlushIsTimely 
PROPERTY WriteReachesItsPlace
