CONSTANTS
  Span = {root, a}
  Root = root
  Thread = {t1, t2}
  NoSpan = NoSpan
  NoThread = NoThread
  MaxFields = 1
  MaxRollups = 2
  MaxAdds = 1

SPECIFICATION Spec
INVARIANT SampledIsSent
INVARIANT FieldsReachParents
INVARIANT RollupCovers
SYMMETRY Symmetry
