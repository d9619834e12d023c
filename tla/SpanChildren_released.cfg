CONSTANTS
  Child = {a, b, c}
  Walker = {w}
  NoSpan = NoSpan

SPECIFICATION Spec
INVARIANT SentSpansReleased
CHECK_DEADLOCK FALSE
