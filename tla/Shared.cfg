SPECIFICATION FairSpec
CONSTANTS
  a = a
  b = b
  c = c
  e = e
  tunnel1 = tunnel1
  tunnel2 = tunnel2
  tunnel3 = tunnel3
  NoAddr = NoAddr
  NoRoute = NoRoute
  Router <- MCRouter
  Tunnel <- MCTunnel
  Lsp <- MCLsp
  NextHop <- MCNextHop
  LABEL_MIN = 16
  LABEL_MAX = 19
  INTERVAL = 1
  TIMEOUT = 2
  MayStop <- MCHeads
  MaxFaults = 0
INVARIANTS
  PathStateExpires
PROPERTIES
  RemovalConfined
  TunnelEstablished
  StateOfGoneHeadRemoved
  TailReservesAgain
