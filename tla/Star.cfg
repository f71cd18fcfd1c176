SPECIFICATION Spec
CONSTANTS
  a = a
  b = b
  c = c
  t = t
  tunnel1 = tunnel1
  tunnel2 = tunnel2
  tunnel3 = tunnel3
  NoAddr = NoAddr
  NoRoute = NoRoute
  Router <- MCRouter
  Tunnel <- MCTunnel
  Lsp <- MCLsp
  NextHop <- MCNextHop
  LABEL_MIN = 16
  LABEL_MAX = 19
  INTERVAL = 1
  TIMEOUT = 2
  MayStop <- MCHead
  MaxFaults = 0
PROPERTIES
  RemovalJustified
