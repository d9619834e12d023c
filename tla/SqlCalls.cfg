CONSTANTS
  Handle = {db, h1, h2, h3}
  DB = db
  NoHandle = NoHandle
  Query = {q1, q2}
  NoQuery = NoQuery
  Thread = {t1, t2}

SPECIFICATION Spec
INVARIANT TypeOK
INVARIANT ReportNamesHandles
INVARIANT ReportNamesQuery
SYMMETRY Symmetry
