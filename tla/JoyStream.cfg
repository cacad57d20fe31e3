\* Temporary buffers of five bytes, and packages of two (a Stop) to five bytes, of
\* which the last is too large to be sent.
CONSTANTS
  HeadSize = 2
  TempBufSize = 5
  WireSize = 2
  BlockSizes = {3, 6}
  ChainNum = 2
  stop = stop
  short = short
  long = long
  over = over
  Pkg = {stop, short, long, over}
  PkgLen <- MCPkgLen
  MaxSent = 3
  MaxFaults = 1
SPECIFICATION Spec
INVARIANTS
  TypeOK
  StreamWhole
PROPERTIES
  ImplementsStream
  NoPackageStuck
