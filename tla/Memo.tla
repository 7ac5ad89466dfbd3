--------------------------------- MODULE Memo ---------------------------------
(***************************************************************************)
(* What a codec's cache promises the goroutines that share it: a question  *)
(* asked by anyone, any number of times, has one answer for ever, whoever  *)
(* worked it out first.  An asker may give up and ask again.               *)
(***************************************************************************)
CONSTANTS
  Askers,
  Questions,
  Answers,   \* question -> the answers working it out may come to
  None

VARIABLES
  memo,   \* the settled answers
  asking, \* what an asker wants to know, or None
  told    \* the last answer an asker got, or None

mvars == <<memo, asking, told>>

Init ==
  /\ memo = [q \in Questions |-> None]
  /\ asking = [a \in Askers |-> None]
  /\ told = [a \in Askers |-> None]

Ask(a, q) ==
  /\ asking[a] = None
  /\ asking' = [asking EXCEPT ![a] = q]
  /\ told' = [told EXCEPT ![a] = None]
  /\ UNCHANGED memo

\* The answer is the settled one, or becomes it.
Answer(a, q, v) ==
  /\ asking[a] = q
  /\ memo[q] \in {None, v}
  /\ memo' = [memo EXCEPT ![q] = v]
  /\ told' = [told EXCEPT ![a] = v]
  /\ asking' = [asking EXCEPT ![a] = None]

GiveUp(a) ==
  /\ asking[a] # None
  /\ asking' = [asking EXCEPT ![a] = None]
  /\ UNCHANGED <<memo, told>>

Next ==
  \E a \in Askers :
    \/ \E q \in Questions : Ask(a, q) \/ \E v \in Answers[q] : Answer(a, q, v)
    \/ GiveUp(a)

Spec == Init /\ [][Next]_mvars

=============================================================================
