\* One client, one server, one fault, one refused message and one stop.
CONSTANTS
  c1 = c1
  c2 = c2
  s1 = s1
  s2 = s2
  Client = {c1}
  Server = {s1}
  NoProc = NoProc
  Conn = {1, 2}
  NoConn = 0
  NodeNum = 2
  BlockNum = 2
  BlockChainLen = 1
  TempNum = 1
  WireNum = 1
  Up = 2
  Down = 1
  Faults = 1
  Refusals = 1
  Stops = 1
  Stoppers = {c1, s1}
  MaxSent <- MCMaxSent
  MaxLeft <- MCMaxLeft
SPECIFICATION Spec
INVARIANTS
  TypeOK
  RegistryConsistent
  ConnectedIsRegistered
  InOrderOnce
  NothingLost
