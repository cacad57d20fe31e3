\* One fault.  A client chain cannot fill the pool: BlockChainLen < BlockNum.
CONSTANTS
  c1 = c1
  c2 = c2
  s1 = s1
  s2 = s2
  Client = {c1}
  Server = {s1}
  NoProc = NoProc
  Conn = {1, 2}
  NoConn = 0
  NodeNum = 2
  BlockNum = 2
  BlockChainLen = 1
  TempNum = 2
  WireNum = 2
  Up = 2
  Down = 1
  Faults = 1
  Refusals = 0
  Stops = 0
  Stoppers = {}
  MaxSent <- MCMaxSent
  MaxLeft <- MCMaxLeft
SPECIFICATION LoopSpec
PROPERTIES
  LinksRecover
  MessagesHandled
