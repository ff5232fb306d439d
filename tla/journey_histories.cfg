SPECIFICATION MCSpec
CONSTANTS
  t1 = t1  t2 = t2  t3 = t3  u1 = u1  u2 = u2  u3 = u3   f1 = f1
  NoToken = NoToken
  RouteTokens = {t1, t2, t3}
  RunTokens = {u1, u2, u3}
  FormalTokens = {f1}
  Reviews <- ApprovedReviews
SYMMETRY TokenSymmetry
CHECK_DEADLOCK FALSE
INVARIANTS DirectionsSound HistorySound RunsInOneLine NoBlindRouteChange
PROPERTIES HistoryKept
