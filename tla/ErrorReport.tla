----------------------------- MODULE ErrorReport -----------------------------
(***************************************************************************)
(* What the error list of a conversion promises its caller, whatever the   *)
(* engine does in between: failures are appended and never rewritten, and  *)
(* once the limit is met the list is closed until the next conversion.     *)
(***************************************************************************)
EXTENDS Naturals, Sequences

VARIABLES
  list,    \* the failures reported so far
  closed,  \* the limit was met
  limit,   \* 0 for none
  running  \* whether a conversion is under way

rvars == <<list, closed, limit, running>>

Full(n) == limit > 0 /\ n >= limit

Init == list = << >> /\ closed = FALSE /\ limit \in Nat /\ running = FALSE

\* A new failure, after the ones already there; it closes the list when it is
\* the last one allowed.
Report ==
  /\ running /\ ~closed
  /\ Len(list') = Len(list) + 1
  /\ \A n \in 1 .. Len(list) : list'[n] = list[n]
  /\ closed' = Full(Len(list) + 1)
  /\ limit' = limit

\* The conversion ends; what it reported is the caller's to read.
Finish == running /\ running' = FALSE /\ UNCHANGED <<list, closed, limit>>

\* Only the next conversion starts over, with an empty, open list.
Start ==
  /\ ~running /\ running' = TRUE
  /\ list' = << >> /\ closed' = FALSE /\ limit' = limit

Next == Report \/ Finish \/ Start

Spec == Init /\ [][Next]_rvars

=============================================================================
