-------------------------------- MODULE Words --------------------------------
(***************************************************************************)
(* splitWords (keyfunc.go), one rune after the other.  A text is a         *)
(* sequence of classes of runes: "upper", "lower", "digit", "caseless" (a  *)
(* letter without case), "variant" (a lowercase letter whose capital has   *)
(* another lowercase letter, such as the micro sign), "dash" ('-', '_' or  *)
(* ' ') and "dot".  A word is the positions from .. to - 1 of the text.    *)
(***************************************************************************)
EXTENDS Naturals, Sequences

CONSTANT Inputs  \* the texts that are split

Classes == {"upper", "lower", "digit", "caseless", "variant", "dash", "dot"}

ASSUME InputsAssumption == Inputs \subseteq Seq(Classes)

VARIABLES
  text,
  i,      \* the position looked at, Len(text) + 2 once the words are returned
  start,  \* where the open word starts, 0 if none is open
  words

vars == <<text, i, start, words>>

IsSeparator(p) == text[p] \in {"dash", "dot"}
IsUpper(p)     == text[p] = "upper"
IsLower(p)     == text[p] \in {"lower", "variant"}
IsDigit(p)     == text[p] = "digit"

-----------------------------------------------------------------------------

Begun(t) == text = t /\ i = 1 /\ start = 0 /\ words = << >>
Init     == \E t \in Inputs : Begun(t)

Flush == IF start = 0 THEN words ELSE Append(words, [from |-> start, to |-> i])

\* Mutant: only the runes of words are counted off.
SeparatorStuck ==
  /\ i <= Len(text) /\ IsSeparator(i)
  /\ words' = Flush /\ start' = 0
  /\ UNCHANGED <<text, i>>

Separator ==
  /\ i <= Len(text) /\ IsSeparator(i)
  /\ words' = Flush /\ start' = 0
  /\ i' = i + 1 /\ UNCHANGED text

Begin ==
  /\ i <= Len(text) /\ ~IsSeparator(i) /\ start = 0
  /\ start' = i
  /\ i' = i + 1 /\ UNCHANGED <<text, words>>

\* Mutant: an acronym keeps its last capital.
StartsLate == \/ IsUpper(i) /\ ~IsUpper(i - 1)
              \/ IsDigit(i) # IsDigit(i - 1)

Starts == \/ IsUpper(i) /\ ~IsUpper(i - 1)
          \/ IsUpper(i) /\ IsUpper(i - 1) /\ i < Len(text) /\ IsLower(i + 1)
          \/ IsDigit(i) # IsDigit(i - 1)

Break ==
  /\ i <= Len(text) /\ ~IsSeparator(i) /\ start # 0 /\ Starts
  /\ words' = Flush /\ start' = i
  /\ i' = i + 1 /\ UNCHANGED text

Extend ==
  /\ i <= Len(text) /\ ~IsSeparator(i) /\ start # 0 /\ ~Starts
  /\ i' = i + 1 /\ UNCHANGED <<text, start, words>>

\* Mutant: the word still open at the end is dropped.
ReturnEarly ==
  /\ i = Len(text) + 1
  /\ start' = 0
  /\ i' = i + 1 /\ UNCHANGED <<text, words>>

Return ==
  /\ i = Len(text) + 1
  /\ words' = Flush /\ start' = 0
  /\ i' = i + 1 /\ UNCHANGED text

Next == Separator \/ Begin \/ Break \/ Extend \/ Return
Spec == Init /\ [][Next]_vars /\ WF_vars(Next)

-----------------------------------------------------------------------------
(* Properties.                                                             *)

\* splitWords never looks or cuts outside the text.
TypeOK ==
  /\ text \in Seq(Classes)
  /\ i \in 1 .. Len(text) + 2
  /\ start \in 0 .. Len(text)
  /\ words \in Seq([from : 1 .. Len(text), to : 2 .. Len(text) + 1])

Within(p, w) == w.from <= p /\ p < w.to

\* splitWords drops the separators and nothing else: each other rune it has
\* passed is in one word or the open one, in the order of the text, and no word
\* is empty or holds a separator.
Partition ==
  /\ start # 0 => start < i
  /\ \A n \in DOMAIN words :
       /\ words[n].from < words[n].to /\ words[n].to <= (IF start = 0 THEN i ELSE start)
       /\ \A p \in words[n].from .. words[n].to - 1 : ~IsSeparator(p)
       /\ \A m \in 1 .. n - 1 : words[m].to <= words[n].from
  /\ \A p \in 1 .. Len(text) :
       p < i /\ ~IsSeparator(p) =>
         \/ start # 0 /\ start <= p
         \/ \E n \in DOMAIN words : Within(p, words[n])

\* Digits only, or none; no capital but at the front; and of several capitals
\* the last is not one that a lowercase letter follows.
IsWord(from, to) ==
  /\ \A p, q \in from .. to - 1 : IsDigit(p) = IsDigit(q)
  /\ \A p \in from + 1 .. to - 1 :
       IsUpper(p) => IsUpper(p - 1) /\ (p < Len(text) => ~IsLower(p + 1))

\* What keyfunc.go:128 says of splitWords: "HTTPServer" is two words, "sha256Sum"
\* three.  Each word is one, and no two that touch could have been one.
WordsAreWords ==
  \A n \in DOMAIN words :
    /\ IsWord(words[n].from, words[n].to)
    /\ n > 1 /\ words[n - 1].to = words[n].from => ~IsWord(words[n - 1].from, words[n].to)

=============================================================================
