SPECIFICATION Spec
CONSTANTS
  q1 = q1
  q2 = q2
  q3 = q3
  any = any
  Request = {q1, q2, q3}
  MaxRecords = 1
  MaxTime = 2
  MaxRestarts = 1
  BatchLimit = 2
  BucketMs = 2
  Dim = {any}
  DimOf <- MCDimOf
SYMMETRY Responses
INVARIANT
  NoneLeftBehind
