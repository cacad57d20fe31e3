----------------------------- MODULE StreamSpec -----------------------------
(***************************************************************************)
(* What the packages from one process to another may count on, whatever    *)
(* the buffers in between do.  Packages that the sender accepted leave in  *)
(* order; one that is too large is dropped on leaving; what is on its way  *)
(* arrives whole, once and in order, and only a loss of the link takes     *)
(* anything from it, from the end.                                         *)
(***************************************************************************)
EXTENDS Integers, Sequences, SequencesExt

CONSTANTS Package, Oversize

VARIABLES
  waiting,   \* accepted, not sent yet
  flight,    \* on their way
  arrived,   \* all that ever arrived
  whole      \* the link works

vars == <<waiting, flight, arrived, whole>>

Init ==
  /\ waiting = <<>> /\ flight = <<>> /\ arrived = <<>>
  /\ whole = TRUE

\* What is left on its way of s: all of it, as long as the link works.
Kept(s) == IF whole THEN {s} ELSE Prefixes(s)

Accept(pkg) ==
  /\ waiting' = Append(waiting, pkg)
  /\ UNCHANGED <<flight, arrived, whole>>

\* All of the packages that leave go on their way, or all but the last of them.
Depart ==
  \E n \in 1..Len(waiting), kept \in 0..Len(waiting) :
    /\ kept \in {n - 1, n}
    /\ \A i \in 1..n : waiting[i] \in Oversize <=> i > kept
    /\ waiting' = SubSeq(waiting, n + 1, Len(waiting))
    /\ flight' \in Kept(flight \o SubSeq(waiting, 1, kept))
    /\ UNCHANGED <<arrived, whole>>

Arrive ==
  \E n \in 1..Len(flight) :
    /\ arrived' = arrived \o SubSeq(flight, 1, n)
    /\ flight' \in Kept(SubSeq(flight, n + 1, Len(flight)))
    /\ UNCHANGED <<waiting, whole>>

Break ==
  /\ whole' = FALSE
  /\ flight' \in Prefixes(flight)
  /\ UNCHANGED <<waiting, arrived>>

Mend ==
  /\ ~whole /\ flight = <<>>
  /\ whole' = TRUE
  /\ UNCHANGED <<waiting, flight, arrived>>

Next == (\E pkg \in Package : Accept(pkg)) \/ Depart \/ Arrive \/ Break \/ Mend

Spec == Init /\ [][Next]_vars

=============================================================================
