CONSTANTS
  Tool = {t1, t2}
  Token = {k1, k2}
  NoToken = NoToken
  MaxRuns = 3
  Requests <- MCRequests
  UserRoutes <- MCRoutes
  DefaultRoutes = TRUE
  Statuses = {200, 401, 405}
  MaxHeader = 1
  MaxFragments = 2
SYMMETRY Symmetry
SPECIFICATION HttpSpec
INVARIANTS
  NeverTorn
  AckedInEffect
  TokensTakeEffect
  OneAnswer
  RoutesAnswer
CHECK_DEADLOCK FALSE
