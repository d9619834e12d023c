CONSTANTS
  f1 = f1
  t0 = t0
  t1 = t1
  t2 = t2
  t3 = t3
  t4 = t4
  s1 = s1
  s2 = s2
  s3 = s3
  s4 = s4
  Hex32 = {t0, t1, t2, t3, t4}
  Hex16 = {f1, s1, s2, s3, s4}
  Other = {o1}
  Zero32 = Zero32
  Zero16 = Zero16
  NoId = NoId
  Padded <- MCPadded
  Dataset = {}
  NoDataset = NoDataset
  FieldName = {"handler_error"}
  Key = {}
  Value = {}
  Gap = Gap
  Malformed = Malformed
  maxListMembers = 1
  ForeignRequest <- MCForeignRequest
  ForeignSpan = {f1}
  NewTraceID <- MCNewTraceID
  Code = {"200", "500"}
  MaxHandlers = 3
  MaxOps = 2

SPECIFICATION Spec
INVARIANT ParentInTrace
INVARIANT ChildOfCaller
INVARIANT EventsComplete
INVARIANT StatusAgrees
PROPERTY SpansEnd
CHECK_DEADLOCK FALSE
