\* One console installs while the other provisions (see the findings).
SPECIFICATION Spec
CONSTANTS
  c1 = c1
  c2 = c2
  Free = Free
  Consoles = {c1, c2}
  Menu <- Race
  MaxEdits = 0
  Delays = FALSE
INVARIANTS
  NoOverlap
