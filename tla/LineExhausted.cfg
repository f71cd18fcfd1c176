SPECIFICATION Spec
CONSTANTS
  a = a
  b = b
  c = c
  tunnel1 = tunnel1
  NoAddr = NoAddr
  NoRoute = NoRoute
  Router <- MCRouter
  Tunnel <- MCTunnel
  Lsp <- MCLsp
  NextHop <- MCNextHop
  LABEL_MIN = 16
  LABEL_MAX = 16
  INTERVAL = 1
  TIMEOUT = 2
  MayStop <- MCNone
  MaxFaults = 4
INVARIANTS
  AdvertisedLabelValid
