SPECIFICATION Spec
CONSTANTS
  a = a
  Uuids = {a}
  Targets = {t1}
  Tunings = {g1}
  SettingsLists <- OneMount
  Procs = {p1, p2, p3}
  Jobs = {j1, j2}
  NoEntry = NoEntry
  StartMayFail = TRUE
  MaxSaves = 2
  Commanded = {a}
SYMMETRY Symmetry
INVARIANTS TypeOK OneEntryPerProcess NoOrphanChild FlagHasOwner
PROPERTIES StartIsJustified KeepsChildProtocol KeepsTable
