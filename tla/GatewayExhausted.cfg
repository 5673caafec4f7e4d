SPECIFICATION GatewaySpec
CONSTANTS
  r1 = r1
  r2 = r2
  r3 = r3
  r4 = r4
  k1 = k1
  q1 = q1
  q2 = q2
  None = None
  Route <- MCRoute
  Status <- MCStatus
  ResponsesMode <- MCMode
  BadURL <- MCBadURL
  Request <- MCRequest
  Policy <- MCPolicy
  Relayed <- MCRelayed
  Key <- MCKey
  Quota <- MCQuota
  MaxCost = 2
  MaxRecords = 1
  MaxTime = 0
  MaxRestarts = 1
INVARIANT
  ExhaustionAnswered
