SPECIFICATION Spec
CONSTANTS
  MaxChars = 3
  MaxEntities = 3
INVARIANTS
  MarksItsText
  RendersNested
CHECK_DEADLOCK FALSE
