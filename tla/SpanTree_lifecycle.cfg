CONSTANTS
  Span = {root, a, b}
  Root = root
  Thread = {t1, t2, t3}
  NoSpan = NoSpan
  NoThread = NoThread
  MaxFields = 0
  MaxRollups = 0
  MaxAdds = 0

SPECIFICATION Spec
INVARIANT TypeOK
INVARIANT SentOnce
INVARIANT SyncChildrenGoFirst
INVARIANT AsyncOutlivesParent
INVARIANT LinkedUntilSent
INVARIANT LocksGoDown
INVARIANT LeafHasNoOpenChild
SYMMETRY Symmetry
