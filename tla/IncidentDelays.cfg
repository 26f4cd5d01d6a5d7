\* Two consoles, every command, requests that time out and are applied later.
SPECIFICATION Spec
CONSTANTS
  c1 = c1
  c2 = c2
  Free = Free
  Consoles = {c1, c2}
  Menu <- Everything
  MaxEdits = 0
  Delays = TRUE
INVARIANTS
  OneAtATime
PROPERTIES
  SnapshotKept
