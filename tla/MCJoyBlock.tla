----------------------------- MODULE MCJoyBlock -----------------------------
(* JoyBlock on a small pool. *)
EXTENDS JoyBlock

CONSTANTS small, full, large

\* Three of the first fill a block, the second fills one alone,
\* and the third fits in no block.
MCPkgLen == [pkg \in Pkg |-> CASE pkg = small -> 1 [] pkg = full -> 3 [] pkg = large -> 4]

=============================================================================
