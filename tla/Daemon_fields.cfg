SPECIFICATION Spec
CONSTANTS
  a = a
  Uuids = {a}
  Targets = {t1}
  Tunings = {g1, g2}
  SettingsLists <- Fields
  Procs = {p1, p2}
  Jobs = {j1}
  NoEntry = NoEntry
  StartMayFail = FALSE
  MaxSaves = 1
  Commanded = {}
INVARIANT ReloadAppliesEveryField
