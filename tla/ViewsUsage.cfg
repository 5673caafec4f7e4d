SPECIFICATION MCSpec
CONSTANTS
  Part = {"stats", "requests"}
  Filter = {"all", "route"}
  None = None
  MaxLoads = 2
  MaxVersion = 1
  PAGE_SIZE = 2
  SortKey = {"created_at", "tokens"}
  CreatedAt = "created_at"
  MaxTotal = 4
  MaxRowLoads = 3
  MaxChanges = 1
  Request = {r1, r2}
  MaxDetailLoads = 3
  Tab = {t1, t2}
  Password = {p, q}
  Page = {"monitor", "providers"}
  Polling = {"monitor"}
  MaxOps = 2
  MaxFailures = 1
  MaxRestarts = 1
  MaxThemeOps = 4
  Answer <- MCAnswer
  Tariff <- MCTariff
  MaxAnswers = 2
  Channel = {p, q}
  TypeOf <- MCTypeOf
  Outcome <- MCOutcome
  MaxRequests = 2
  MaxTime = 2
  p = p
  q = q
CHECK_DEADLOCK FALSE
INVARIANTS
  CachedPromptsPriced
