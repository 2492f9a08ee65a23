CONSTANTS
  Questions = 1
  Results <- MCFloats
  Shapes <- OrderedOrNot
  Refs <- AllRefs
  Effects <- AllEffects
  Above <- MCAbove
  Repr <- MCRepr
SPECIFICATION Spec
\* The run ends with its only question.
CHECK_DEADLOCK FALSE
INVARIANTS
  FloatsWithinTolerance
