CONSTANTS
  Span = {root, a, b}
  Root = root
  Thread = {t1, t2}
  NoSpan = NoSpan
  NoThread = NoThread
  MaxFields = 0
  MaxRollups = 0
  MaxAdds = 0

SPECIFICATION FairSpec
PROPERTY SendReturns
PROPERTY ImplementsLifecycle
PROPERTY ImplementsFairLifecycle
