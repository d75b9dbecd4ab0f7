SPECIFICATION Spec
CONSTANTS
  Apps = {a1, a2}
  Uuids = {u1, u2}
  Fields = {f1}
  Default = f1
  NoEditor = noEditor
INVARIANTS TypeOK UniqueUuids FileIsShown EditorIsShown
PROPERTY WritesAreEdits
