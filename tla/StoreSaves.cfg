SPECIFICATION Spec
CONSTANTS
  Value = {v, bad}
  Invalid = {bad}
  Keeps = {0, 2}
  Saver = {s1, s2}
  Inode = {i1, i2, i3, i4, i5}
  None = none
  Empty = empty
  Garbled = garbled
  Ops = {"save", "settings", "restore", "snapshot", "delete"}
  Events = {"crash", "disk"}
VIEW MCView
INVARIANTS
  NeverInvalid
  SaveAtomic
  HistoryTrue
CHECK_DEADLOCK FALSE
