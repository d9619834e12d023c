CONSTANTS
  Child = {a, b, c}
  Walker = {w}
  NoSpan = NoSpan

SPECIFICATION Spec
INVARIANT TypeOK
INVARIANT ListsLinked
INVARIANT CascadeReachesQueued
INVARIANT WalkSeesLinked
INVARIANT RetentionBounded
SYMMETRY Symmetry
CHECK_DEADLOCK FALSE
