\* Two consoles install and remove; two edits in the portal; any failure or kill.
SPECIFICATION Spec
CONSTANTS
  c1 = c1
  c2 = c2
  Free = Free
  Consoles = {c1, c2}
  Menu <- Operators
  MaxEdits = 2
  Delays = FALSE
INVARIANTS
  TypeOK
  NoOverlap
  NothingLeftBehind
  ActiveMeansRouted
PROPERTIES
  EditsKept
