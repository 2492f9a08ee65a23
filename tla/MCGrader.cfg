CONSTANTS
  Questions = 2
  Results <- MCCells
  Shapes <- MCShapes
  Refs <- AllRefs
  Effects <- AllEffects
  Above <- MCAbove
  Repr <- MCRepr
SPECIFICATION MCSpec
\* The run ends with its last question.
CHECK_DEADLOCK FALSE
INVARIANTS
  GoldOnSnapshot
  VerdictsSound
