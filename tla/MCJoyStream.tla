----------------------------- MODULE MCJoyStream -----------------------------
(* JoyStream with packages of chosen lengths. *)
EXTENDS JoyStream

CONSTANTS stop, short, long, over

MCPkgLen ==
  [pkg \in Pkg |->
     CASE pkg = stop -> HeadSize
       [] pkg = short -> HeadSize + 1
       [] pkg = long -> TempBufSize - 1
       [] pkg = over -> TempBufSize]

=============================================================================
