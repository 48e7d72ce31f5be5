SPECIFICATION Spec
CONSTANTS
  p1 = p1
  p2 = p2
  k1 = k1
  m1 = m1
  m2 = m2
  Processes = {p1, p2}
  Children = {k1}
  Descriptions = {1, 2, 3}
  Mutations = {m1, m2}
  CommitBound = 3
  PowerBound = 1
SYMMETRY Symmetry
INVARIANTS OneOwner NoAckLost OwnerIsCurrent
CHECK_DEADLOCK FALSE
