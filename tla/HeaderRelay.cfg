CONSTANTS
  t1 = t1
  p1 = p1
  s1 = s1
  s2 = s2
  o1 = o1
  v1 = v1
  d1 = d1
  Hex32 = {t1, p1}
  Hex16 = {s1, s2}
  Other = {o1}
  Zero32 = Zero32
  Zero16 = Zero16
  NoId = NoId
  Padded <- MCPadded
  Dataset = {d1}
  NoDataset = NoDataset
  FieldName = {"user", "root", "self"}
  Key = {k1, k2, k3}
  Value = {v1}
  Gap = Gap
  Malformed = Malformed
  maxListMembers = 2
  NoHeader = NoHeader
  ForeignHeader <- MCForeignHeader
  MaxForeignState = 3
  MaxHops = 3

SPECIFICATION Spec
INVARIANT ReadsConform
INVARIANT StateWhole
INVARIANT OneTrace
INVARIANT ParentIsSender
INVARIANT SamplingKept
INVARIANT FieldsKept
SYMMETRY Symmetry
CHECK_DEADLOCK FALSE
