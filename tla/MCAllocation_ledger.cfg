CONSTANTS
  p1 = p1 p2 = p2 c1 = c1 c2 = c2 c3 = c3
  cost = cost tokens = tokens usd = usd eur = eur count = count
  Threads = {t1, t2}
  Parents = {p1, p2}
  Children = {c1, c2, c3}
  Dimensions = {cost, tokens}
  Units = {usd, eur, count}
  LimitsOf <- SmallLimits
  Batches <- SmallBatches
  Digits = 1
  None = None
SPECIFICATION Spec
INVARIANTS
  AllocationInv
  Conserved
PROPERTIES
  FittingIsNotRefused
  KeepsBudget
