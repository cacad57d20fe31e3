\* The server is stopped and started again; nothing else happens.
CONSTANTS
  c1 = c1
  c2 = c2
  s1 = s1
  s2 = s2
  Client = {c1}
  Server = {s1}
  NoProc = NoProc
  Conn = {1, 2}
  NoConn = 0
  NodeNum = 2
  BlockNum = 2
  BlockChainLen = 1
  TempNum = 1
  WireNum = 1
  Up = 0
  Down = 0
  Faults = 0
  Refusals = 0
  Stops = 1
  Stoppers = {s1}
  MaxSent <- MCMaxSent
  MaxLeft <- MCMaxLeft
SPECIFICATION Spec
INVARIANTS
  StopIsCurrent
