SPECIFICATION RestartFairSpec
CONSTANTS
  a = a
  b = b
  c = c
  e = e
  tunnel1 = tunnel1
  tunnel2 = tunnel2
  NoAddr = NoAddr
  NoRoute = NoRoute
  Router <- MCRouter
  Tunnel <- MCTunnel
  Lsp <- MCLsp
  NextHop <- MCNextHop
  LABEL_MIN = 16
  LABEL_MAX = 19
  INTERVAL = 1
  TIMEOUT = 3
  MayStop <- MCStop
  MaxFaults = 0
  MaxRestarts = 2
INVARIANTS
  RouteInv

  
