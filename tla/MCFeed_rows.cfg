SPECIFICATION Spec
CONSTANTS
  NumFeels = 1
  Settings <- Rows
INVARIANTS
  OpenSectionHasReactCell
