\* One client and two servers; the client is stopped, exits and starts again.
CONSTANTS
  c1 = c1
  c2 = c2
  s1 = s1
  s2 = s2
  Client = {c1}
  Server = {s1, s2}
  NoProc = NoProc
  Conn = {1, 2}
  NoConn = 0
  NodeNum = 2
  BlockNum = 2
  BlockChainLen = 2
  TempNum = 2
  WireNum = 1
  Up = 2
  Down = 0
  Faults = 0
  Refusals = 0
  Stops = 1
  Stoppers = {c1}
  MaxSent <- MCMaxSent
  MaxLeft <- MCMaxLeft
SPECIFICATION Spec
INVARIANTS
  OneCopy
PROPERTIES
  LossMeansFull
