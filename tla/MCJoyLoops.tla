----------------------------- MODULE MCJoyLoops -----------------------------
(* JoyLoops for the processes and bounds of MCJoySystem. *)
EXTENDS JoyLoops, MCJoySystem

=============================================================================
