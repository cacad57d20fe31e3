----------------------------- MODULE ChainSpec -----------------------------
(***************************************************************************)
(* What joyblock.c promises the layer above it: every chain is a queue of  *)
(* whole packages.  A package that was accepted is read back once, whole,  *)
(* and in the order of acceptance, whatever happens to the other chains.   *)
(***************************************************************************)
EXTENDS Sequences

CONSTANTS
  Chain,   \* the send chain of every procid, and the one receive chain
  Pkg      \* packages

VARIABLE queue   \* queue[c]: the packages chain c holds, oldest first

Init == queue = [c \in Chain |-> <<>>]

\* The chains other than c keep their packages.
Only(c, before, after) == \A d \in Chain \ {c} : after[d] = before[d]

Write(c, before, after) ==
  \E pkg \in Pkg : after[c] = Append(before[c], pkg)

Release(c, before, after) ==
  /\ before[c] # <<>>
  /\ after[c] = Tail(before[c])

\* Stated on the two values of queue, so that a refinement computes each once.
Next ==
  \E before \in {queue}, after \in {queue'} : \E c \in Chain :
    /\ Only(c, before, after)
    /\ Write(c, before, after) \/ Release(c, before, after)

Spec == Init /\ [][Next]_queue

=============================================================================
