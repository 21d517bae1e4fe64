CONSTANT
  LabelFirst = TRUE
SPECIFICATION Spec
INVARIANTS
  NoCircularWait
CHECK_DEADLOCK TRUE
