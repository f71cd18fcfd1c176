SPECIFICATION FairSpec
CONSTANTS
  t1 = t1
  t2 = t2
  s1 = s1
  s2 = s2
  n1 = n1
  n2 = n2
  NULL = NULL
  Tunnel <- MCTunnel
  Session <- MCSession
  Node <- MCNode
  Sides <- MCBoth
INVARIANTS
  ListSound
  TreeIntact
PROPERTIES
  SessionsExpire
