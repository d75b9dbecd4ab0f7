SPECIFICATION FairSpec
CONSTANTS
  a = a
  Uuids = {a}
  Targets = {t1, t2}
  Tunings = {g1}
  SettingsLists <- Fields
  Procs = {p1, p2}
  Jobs = {j1, j2}
  NoEntry = NoEntry
  StartMayFail = FALSE
  MaxSaves = 1
  Commanded = {}
PROPERTIES KeepAliveRestarts StatusConverges
