\* Two requests of the source instance, syncs and undos, and an owner on each side.
CONSTANTS
  Workers = {w1, w2}
  Values = {unset, old, new}
  Unset = unset
  Categories = {c1, c2}
  Default = c1
  NoProject = NoProject
  NoCategory = NoCategory
  EditedKeys = {"task_presenter", "ext_config"}
  MaxRequests = 3
  MaxEdits = 2
  Modes = {FALSE, TRUE}
SYMMETRY Symmetry
SPECIFICATION Spec
INVARIANTS TypeOK SettingsAreItsOwn
PROPERTIES UndoRestores BornInCategory
