\* Three blocks of three bytes for two chains: a send chain is limited to two
\* blocks, the receive chain only by the pool.
CONSTANTS
  BlockNum = 3
  BlockSize = 3
  BlockChainLen = 2
  HeadSize = 1
  Procs = {p1}
  Recv = Recv
  small = small
  full = full
  large = large
  Pkg = {small, full, large}
  NoPkg = NoPkg
  PkgLen <- MCPkgLen
SPECIFICATION Spec
INVARIANTS
  TypeOK
  ChainsShareOutThePool
  MemCheckPasses
  HeadPackageWhole
  ReadBufStaysValid
PROPERTIES
  AcceptedIsQueued
  ImplementsChains
