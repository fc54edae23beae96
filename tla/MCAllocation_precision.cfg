CONSTANTS
  p1 = p1 p2 = p2 c1 = c1 c2 = c2 c3 = c3
  cost = cost tokens = tokens usd = usd eur = eur count = count
  Threads = {t1}
  Parents = {p1}
  Children = {c1, c2, c3}
  Dimensions = {cost}
  Units = {usd}
  LimitsOf <- LargeLimits
  Batches <- LargeBatches
  Digits = 1
  None = None
SPECIFICATION Spec
INVARIANTS
  Conserved
