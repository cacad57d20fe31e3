---------------------------- MODULE MCJoySystem ----------------------------
(* JoySystem with a few processes that send the same number of messages. *)
EXTENDS JoySystem

CONSTANTS
  c1, c2, s1, s2,           \* processes
  Up, Down,                 \* how many messages each client and each server sends
  Faults, Refusals, Stops   \* how often something goes wrong or a process is stopped

MCMaxSent == [p \in Proc |-> IF p \in Client THEN Up ELSE Down]

MCMaxLeft == [faults |-> Faults, refusals |-> Refusals, stops |-> Stops]

=============================================================================
