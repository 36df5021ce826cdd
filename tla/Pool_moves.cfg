SPECIFICATION Spec
CONSTANTS
  h = h
  c1 = c1
  c2 = c2
  q1 = q1
  q2 = q2
  Junk = Junk
  Nowhere = Nowhere
  Host = h
  Clients = {c1, c2}
  Pools = {q1, q2}
  PoolOf <- MCPoolOf
  MaxSlots <- MCMaxSlots
  Counts <- MCCounts
  Moves = TRUE
PROPERTY
  ResolvedByPreviousId
CHECK_DEADLOCK FALSE
