SPECIFICATION FairSpec
CONSTANTS
  a = a
  Uuids = {a}
  Targets = {t1}
  Tunings = {g1}
  SettingsLists <- Present
  Procs = {p1}
  Jobs = {j1, j2}
  NoEntry = NoEntry
  StartMayFail = FALSE
  MaxSaves = 1
  Commanded = {}
PROPERTIES BlockedJobResumes ReloadIsServed StopCompletes
