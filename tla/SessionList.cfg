SPECIFICATION Spec
CONSTANTS
  t1 = t1
  t2 = t2
  t3 = t3
  t4 = t4
  n1 = n1
  n2 = n2
  n3 = n3
  n4 = n4
  NULL = NULL
  Tunnel <- MCTunnel
  Node <- MCNode
SYMMETRY MCSymmetry
INVARIANTS
  NoLeakNoDangling
  DeletionInPlace
PROPERTIES
  ImplementsWalk
