\* Two clients whose nodes come and go while the server writes to both.
CONSTANTS
  c1 = c1
  c2 = c2
  s1 = s1
  s2 = s2
  Client = {c1, c2}
  Server = {s1}
  NoProc = NoProc
  Conn = {1, 2}
  NoConn = 0
  NodeNum = 2
  BlockNum = 2
  BlockChainLen = 1
  TempNum = 1
  WireNum = 1
  Up = 0
  Down = 2
  Faults = 1
  Refusals = 0
  Stops = 0
  Stoppers = {}
  MaxSent <- MCMaxSent
  MaxLeft <- MCMaxLeft
SPECIFICATION Spec
INVARIANTS
  OnlyToAddressee
