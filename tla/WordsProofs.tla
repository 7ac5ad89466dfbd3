----------------------------- MODULE WordsProofs -----------------------------
(***************************************************************************)
(* splitWords, for every text: its words are all of the text but the       *)
(* separators, each is one word, and no two that touch could have been.    *)
(* What holds of the words holds of the open one too; that is the          *)
(* invariant the proofs are about.                                         *)
(*                                                                         *)
(* Then the key functions. What LooseKey reads in a text is what it reads  *)
(* in its words, and no style changes what it reads in a word, so a key is *)
(* found under the text it was made of. And a text can be cut into words   *)
(* in one way, so a style that marks where its words begin keeps them.     *)
(***************************************************************************)
EXTENDS Keys, SequenceTheorems, WellFoundedInduction, TLAPS

\* The open word is one so far, and no continuation of the word it touches.
Open ==
  /\ start = 0 => \A n \in DOMAIN words : words[n].to < i
  /\ start # 0 => IsWord(start, i) /\ \A p \in start .. i - 1 : ~IsSeparator(p)
  /\ start # 0 /\ words # << >> /\ words[Len(words)].to = start =>
       ~IsWord(words[Len(words)].from, start + 1)

Inv == TypeOK /\ Partition /\ Open /\ WordsAreWords

\* The words are spans of the text.
LEMMA WordsTyped ==
  ASSUME TypeOK
  PROVE  /\ DOMAIN words = 1 .. Len(words) /\ Len(words) \in Nat
         /\ \A n \in DOMAIN words : words[n].from \in 1 .. Len(text) /\ words[n].to \in 2 .. Len(text) + 1
         /\ Len(text) \in Nat
<1> DEFINE W == [from : 1 .. Len(text), to : 2 .. Len(text) + 1]
<1>1. words \in Seq(W) /\ text \in Seq(Classes)
  BY DEF TypeOK
<1> HIDE DEF W
<1>2. \A n \in 1 .. Len(words) : words[n] \in W
  BY <1>1, ElementOfSeq
<1>3. Len(words) \in Nat /\ DOMAIN words = 1 .. Len(words) /\ Len(text) \in Nat
  BY <1>1
<1> QED BY <1>2, <1>3 DEF W

\* What is one word is one as far as any of its runes.
LEMMA Shorter ==
  ASSUME NEW a \in Nat, NEW b \in Nat, NEW c \in Nat, b <= c, IsWord(a, c)
  PROVE  IsWord(a, b)
BY SMT DEF IsWord

\* Where splitWords starts a word it had to: the one before would not be one
\* with the rune it starts at.
LEMMA StartsApart ==
  ASSUME TypeOK, NEW a \in Nat \ {0}, a < i, i <= Len(text), Starts
  PROVE  ~IsWord(a, i + 1)
<1>1. i \in a + 1 .. (i + 1) - 1 /\ i - 1 \in a .. (i + 1) - 1 /\ i \in a .. (i + 1) - 1
  BY DEF TypeOK
<1> QED BY <1>1 DEF Starts, IsWord

\* Where it starts none, the open word is one with that rune.
LEMMA ExtendsWord ==
  ASSUME TypeOK, start # 0, start < i, i <= Len(text), ~Starts, IsWord(start, i)
  PROVE  IsWord(start, i + 1)
<1> USE DEF TypeOK
<1>1. IsDigit(i) = IsDigit(i - 1)
  BY DEF Starts, IsDigit
<1>2. \A p, q \in start .. (i + 1) - 1 : IsDigit(p) = IsDigit(q)
  <2> SUFFICES ASSUME NEW p \in start .. (i + 1) - 1 PROVE IsDigit(p) = IsDigit(i - 1)
    BY DEF IsDigit
  <2>1. CASE p = i
    BY <2>1, <1>1
  <2>2. CASE p # i
    <3>1. p \in start .. i - 1 /\ i - 1 \in start .. i - 1
      BY <2>2
    <3> QED BY <3>1 DEF IsWord
  <2> QED BY <2>1, <2>2
<1>3. ASSUME NEW p \in start + 1 .. (i + 1) - 1, IsUpper(p)
      PROVE  IsUpper(p - 1) /\ (p < Len(text) => ~IsLower(p + 1))
  <2>1. CASE p = i
    BY <2>1, <1>3 DEF Starts
  <2>2. CASE p # i
    <3>1. p \in start + 1 .. i - 1
      BY <2>2
    <3> QED BY <3>1, <1>3 DEF IsWord
  <2> QED BY <2>1, <2>2
<1> QED BY <1>2, <1>3 DEF IsWord

\* A single rune is a word.
LEMMA OneRune ==
  ASSUME NEW a \in Nat
  PROVE  IsWord(a, a + 1)
BY DEF IsWord, IsDigit

-----------------------------------------------------------------------------
(* Flush: the open word, if there is one, is added to the words.           *)

\* The open word ends where the scan stands.
LEMMA Flushed ==
  ASSUME Inv, start # 0, NEW ws, ws = Flush, i <= Len(text) + 1
  PROVE  /\ ws = Append(words, [from |-> start, to |-> i])
         /\ ws \in Seq([from : 1 .. Len(text), to : 2 .. Len(text) + 1])
         /\ Len(ws) = Len(words) + 1
         /\ \A n \in DOMAIN words : n \in DOMAIN ws /\ ws[n] = words[n]
         /\ \A n \in DOMAIN ws : n \in DOMAIN words \/ n = Len(ws)
         /\ Len(ws) \in DOMAIN ws
         /\ ws[Len(ws)] = [from |-> start, to |-> i]
<1>1. start < i /\ start \in 1 .. Len(text) /\ i \in 2 .. Len(text) + 1
  BY DEF Inv, TypeOK, Partition
<1>2. ws = Append(words, [from |-> start, to |-> i])
  BY DEF Flush
<1> DEFINE W == [from : 1 .. Len(text), to : 2 .. Len(text) + 1]
           w == [from |-> start, to |-> i]
<1>3. w \in W
  BY <1>1
<1>4. words \in Seq(W)
  BY DEF Inv, TypeOK
<1> HIDE DEF W, w
<1>5. ws = Append(words, w)
  BY <1>2 DEF w
<1>6. /\ ws \in Seq(W) /\ Len(ws) = Len(words) + 1
      /\ ws[Len(words) + 1] = w
      /\ \A n \in 1 .. Len(words) : ws[n] = words[n]
  BY <1>3, <1>4, <1>5, AppendProperties
<1>7. Len(words) \in Nat /\ DOMAIN words = 1 .. Len(words) /\ DOMAIN ws = 1 .. Len(ws)
  BY <1>4, <1>6
<1> QED BY <1>2, <1>6, <1>7 DEF W, w

\* In order, none empty and none with a separator, each one word and none that
\* could have been one with the word it touches; holding every rune passed.
Filled(ws) ==
  /\ ws \in Seq([from : 1 .. Len(text), to : 2 .. Len(text) + 1])
  /\ \A n \in DOMAIN ws :
       /\ ws[n].from \in Nat \ {0} /\ ws[n].to \in Nat
       /\ ws[n].from < ws[n].to /\ ws[n].to <= i
       /\ start = 0 => ws[n].to < i
       /\ \A p \in ws[n].from .. ws[n].to - 1 : ~IsSeparator(p)
       /\ \A m \in 1 .. n - 1 : ws[m].to <= ws[n].from
       /\ IsWord(ws[n].from, ws[n].to)
       /\ n > 1 /\ ws[n - 1].to = ws[n].from => ~IsWord(ws[n - 1].from, ws[n].to)
  /\ \A p \in 1 .. Len(text) :
       p < i /\ ~IsSeparator(p) => \E n \in DOMAIN ws : Within(p, ws[n])

\* So are the words once the open one is added.
LEMMA FlushFills ==
  ASSUME Inv, i <= Len(text) + 1
  PROVE  Filled(Flush)
<1> DEFINE ws == Flush
<1> SUFFICES Filled(ws)
  OBVIOUS
<1>0. ws = Flush
  OBVIOUS
<1> HIDE DEF ws
<1>1. CASE start = 0
  <2>1. ws = words
    BY <1>0, <1>1 DEF Flush
  <2>2. \A n \in DOMAIN words : words[n].to < i
    BY <1>1 DEF Inv, Open
  <2>3. \A n \in DOMAIN words : words[n].from \in Nat \ {0} /\ words[n].to \in Nat
    BY WordsTyped DEF Inv
  <2> QED BY <1>1, <2>1, <2>2, <2>3 DEF Inv, TypeOK, Partition, WordsAreWords, Filled
<1>2. CASE start # 0
  <2> USE <1>2
  <2>1. /\ ws = Append(words, [from |-> start, to |-> i])
        /\ ws \in Seq([from : 1 .. Len(text), to : 2 .. Len(text) + 1])
        /\ Len(ws) = Len(words) + 1
        /\ \A n \in DOMAIN words : n \in DOMAIN ws /\ ws[n] = words[n]
        /\ \A n \in DOMAIN ws : n \in DOMAIN words \/ n = Len(ws)
        /\ Len(ws) \in DOMAIN ws
        /\ ws[Len(ws)] = [from |-> start, to |-> i]
    BY <1>0, Flushed
  <2>2. start < i /\ start \in Nat \ {0} /\ i \in Nat
    BY DEF Inv, TypeOK, Partition
  <2>3. ASSUME NEW n \in DOMAIN words
        PROVE  /\ ws[n].from \in Nat \ {0} /\ ws[n].to \in Nat
               /\ ws[n].from < ws[n].to /\ ws[n].to <= i
               /\ \A p \in ws[n].from .. ws[n].to - 1 : ~IsSeparator(p)
               /\ \A m \in 1 .. n - 1 : ws[m].to <= ws[n].from
               /\ IsWord(ws[n].from, ws[n].to)
               /\ n > 1 /\ ws[n - 1].to = ws[n].from => ~IsWord(ws[n - 1].from, ws[n].to)
    <3>1. ws[n] = words[n] /\ \A m \in 1 .. n - 1 : m \in DOMAIN words /\ ws[m] = words[m]
      <4>1. \A m \in 1 .. n - 1 : m \in DOMAIN words
        BY WordsTyped DEF Inv
      <4> QED BY <2>1, <4>1
    <3>2. n > 1 => n - 1 \in 1 .. n - 1
      BY WordsTyped DEF Inv
    <3>3. words[n].to \in Nat /\ words[n].from \in Nat \ {0}
      BY WordsTyped DEF Inv
    <3> QED BY <2>2, <3>1, <3>2, <3>3 DEF Inv, Partition, WordsAreWords
  <2>4. ASSUME NEW n \in DOMAIN ws, n = Len(ws)
        PROVE  /\ ws[n].from \in Nat \ {0} /\ ws[n].to \in Nat
               /\ ws[n].from < ws[n].to /\ ws[n].to <= i
               /\ \A p \in ws[n].from .. ws[n].to - 1 : ~IsSeparator(p)
               /\ \A m \in 1 .. n - 1 : ws[m].to <= ws[n].from
               /\ IsWord(ws[n].from, ws[n].to)
               /\ n > 1 /\ ws[n - 1].to = ws[n].from => ~IsWord(ws[n - 1].from, ws[n].to)
    <3>1. ws[n].from = start /\ ws[n].to = i
      BY <2>1, <2>4
    <3>2. \A p \in start .. i - 1 : ~IsSeparator(p)
      BY DEF Inv, Open
    <3>3. \A m \in 1 .. n - 1 : ws[m].to <= start
      BY <2>1, <2>4 DEF Inv, TypeOK, Partition
    <3>4. IsWord(start, i)
      BY DEF Inv, Open
    <3>5. ASSUME n > 1, ws[n - 1].to = start
          PROVE  ~IsWord(ws[n - 1].from, i)
      <4>1. n - 1 = Len(words) /\ words # << >> /\ n - 1 \in DOMAIN words
        BY <2>1, <2>4, <3>5 DEF Inv, TypeOK
      <4>2. ws[n - 1] = words[Len(words)]
        BY <2>1, <4>1
      <4>3. ~IsWord(words[Len(words)].from, start + 1)
        BY <3>5, <4>1, <4>2 DEF Inv, Open
      <4>4. words[Len(words)].from \in Nat
        BY <4>1, WordsTyped DEF Inv
      <4> QED BY <2>2, <4>2, <4>3, <4>4, Shorter
    <3> QED BY <2>2, <3>1, <3>2, <3>3, <3>4, <3>5
  <2>5. ASSUME NEW p \in 1 .. Len(text), p < i, ~IsSeparator(p)
        PROVE  \E n \in DOMAIN ws : Within(p, ws[n])
    <3>1. CASE start <= p
      <4>1. Within(p, ws[Len(ws)])
        BY <2>1, <2>5, <3>1 DEF Within
      <4> QED BY <2>1, <4>1
    <3>2. CASE ~(start <= p)
      <4>1. PICK n \in DOMAIN words : Within(p, words[n])
        BY <2>5, <3>2 DEF Inv, Partition
      <4> QED BY <2>1, <4>1 DEF Within
    <3> QED BY <3>1, <3>2
  <2> QED BY <2>1, <2>3, <2>4, <2>5 DEF Filled
<1> QED BY <1>1, <1>2

-----------------------------------------------------------------------------
(* The actions.                                                            *)

\* The scan starts with no word and nothing open.
LEMMA Initially == Init => Inv
<1> SUFFICES ASSUME NEW t \in Inputs, Begun(t) PROVE Inv
  BY DEF Init
<1>1. text \in Seq(Classes) /\ Len(text) \in Nat /\ i = 1 /\ start = 0 /\ words = << >>
  BY InputsAssumption DEF Begun
<1>2. TypeOK
  BY <1>1 DEF TypeOK
<1> QED BY <1>1, <1>2 DEF Inv, Partition, Open, WordsAreWords

\* Every action but Extend flushes, and then opens the next word or none.
LEMMA FlushedAnew ==
  ASSUME Inv, i <= Len(text) + 1,
         text' = text, i' = i + 1, words' = Flush,
         \/ start' = 0 /\ (i <= Len(text) => IsSeparator(i))
         \/ start' = i /\ i <= Len(text) /\ ~IsSeparator(i) /\ (start # 0 => Starts)
  PROVE  Inv'
<1>1. Filled(words')
  BY FlushFills
<1>2. i \in Nat \ {0} /\ Len(text) \in Nat
  BY WordsTyped DEF Inv, TypeOK
<1>3. TypeOK'
  BY <1>1, <1>2 DEF Inv, TypeOK, Filled
<1>4. Partition'
  <2>1. ASSUME NEW p \in 1 .. Len(text), p < i + 1, ~IsSeparator(p)
        PROVE  (start' # 0 /\ start' <= p) \/ \E n \in DOMAIN words' : Within(p, words'[n])
    <3>1. CASE p = i
      BY <2>1, <3>1, <1>2
    <3>2. CASE p # i
      <4>1. p < i
        BY <2>1, <3>2, <1>2
      <4>2. \A q \in 1 .. Len(text) :
              q < i /\ ~IsSeparator(q) => \E n \in DOMAIN words' : Within(q, words'[n])
        BY <1>1 DEF Filled
      <4> QED BY <2>1, <4>1, <4>2
    <3> QED BY <3>1, <3>2
  <2>2. \A n \in DOMAIN words' : words'[n].to <= (IF start' = 0 THEN i + 1 ELSE start')
    BY <1>1, <1>2 DEF Filled
  <2> QED BY <1>1, <1>2, <2>1, <2>2 DEF Partition, Filled, IsSeparator, Within
<1>5. \A a, b : IsWord(a, b)' <=> IsWord(a, b)
  BY DEF IsWord, IsDigit, IsUpper, IsLower
<1>6. Open'
  <2>1. CASE start' = 0
    BY <1>1, <1>2, <2>1 DEF Open, Filled
  <2>2. CASE start' = i /\ i <= Len(text) /\ ~IsSeparator(i) /\ (start # 0 => Starts)
    <3>1. IsWord(i, i + 1)
      BY <1>2, OneRune
    <3>2. ASSUME words' # << >>, words'[Len(words')].to = i
          PROVE  ~IsWord(words'[Len(words')].from, i + 1)
      <4>1. Len(words') \in DOMAIN words'
        BY <1>1, <3>2 DEF Filled
      <4>2. words'[Len(words')].from \in Nat \ {0} /\ words'[Len(words')].from < i
        BY <1>1, <4>1, <3>2 DEF Filled
      <4>3. start # 0
        BY <1>1, <1>2, <3>2, <4>1 DEF Filled
      <4> QED BY <2>2, <4>2, <4>3, StartsApart DEF Inv
    <3>3. \A p \in i .. (i + 1) - 1 : ~IsSeparator(p)'
      BY <1>2, <2>2 DEF IsSeparator
    <3> QED BY <1>2, <1>5, <2>2, <3>1, <3>2, <3>3 DEF Open
  <2> QED BY <2>1, <2>2
<1>7. WordsAreWords'
  BY <1>1, <1>5 DEF WordsAreWords, Filled
<1> QED BY <1>3, <1>4, <1>6, <1>7 DEF Inv

\* A character that extends the open word keeps the invariant.
LEMMA ExtendKeeps == Inv /\ Extend => Inv'
<1> SUFFICES ASSUME Inv, Extend PROVE Inv'
  OBVIOUS
<1>1. /\ i <= Len(text) /\ ~IsSeparator(i) /\ start # 0 /\ ~Starts
      /\ i' = i + 1 /\ text' = text /\ start' = start /\ words' = words
  BY DEF Extend
<1>2. i \in Nat \ {0} /\ Len(text) \in Nat /\ start \in Nat /\ start < i
  BY <1>1, WordsTyped DEF Inv, TypeOK, Partition
<1>3. TypeOK'
  BY <1>1, <1>2 DEF Inv, TypeOK
<1>4. Partition'
  BY <1>1, <1>2 DEF Inv, Partition, IsSeparator, Within
<1>5. \A a, b : IsWord(a, b)' <=> IsWord(a, b)
  BY <1>1 DEF IsWord, IsDigit, IsUpper, IsLower
<1>6. Open'
  <2>1. IsWord(start, i + 1)
    BY <1>1, <1>2, ExtendsWord DEF Inv, Open
  <2>2. \A p \in start .. (i + 1) - 1 : ~IsSeparator(p)'
    <3> SUFFICES ASSUME NEW p \in start .. (i + 1) - 1 PROVE ~IsSeparator(p)
      BY <1>1 DEF IsSeparator
    <3>1. CASE p = i
      BY <3>1, <1>1
    <3>2. CASE p # i
      BY <3>2, <1>1, <1>2 DEF Inv, Open
    <3> QED BY <3>1, <3>2
  <2> QED BY <1>1, <1>2, <1>5, <2>1, <2>2 DEF Inv, Open
<1>7. WordsAreWords'
  BY <1>1, <1>5 DEF Inv, WordsAreWords
<1> QED BY <1>3, <1>4, <1>6, <1>7 DEF Inv

\* So does every step.
LEMMA NextKeeps == Inv /\ [Next]_vars => Inv'
<1> SUFFICES ASSUME Inv, [Next]_vars PROVE Inv'
  OBVIOUS
<1>0. i \in Nat /\ Len(text) \in Nat
  BY WordsTyped DEF Inv, TypeOK
<1>1. CASE Separator
  BY <1>0, <1>1, FlushedAnew DEF Separator
<1>2. CASE Begin
  BY <1>0, <1>2, FlushedAnew DEF Begin, Flush
<1>3. CASE Break
  BY <1>0, <1>3, FlushedAnew DEF Break
<1>4. CASE Extend
  BY <1>4, ExtendKeeps
<1>5. CASE Return
  BY <1>0, <1>5, FlushedAnew DEF Return
<1>6. CASE UNCHANGED vars
  BY <1>6 DEF vars, Inv, TypeOK, Partition, Open, WordsAreWords, IsWord, IsDigit, IsUpper, IsLower,
              IsSeparator, Within
<1> QED BY <1>1, <1>2, <1>3, <1>4, <1>5, <1>6 DEF Next

\* splitWords never looks beyond the text, and its words are runs of it.
THEOREM SplitsInside == Spec => []TypeOK
<1>1. Inv => TypeOK
  BY DEF Inv
<1> QED BY <1>1, Initially, NextKeeps, PTL DEF Spec

\* Of no text does splitWords lose a rune but the separators, repeat one, or
\* change the order.
THEOREM LosesNoRune == Spec => []Partition
<1>1. Inv => Partition
  BY DEF Inv
<1> QED BY <1>1, Initially, NextKeeps, PTL DEF Spec

\* Of every text, each word splitWords returns is one, and no two that touch
\* could have been.
THEOREM SplitsIntoWords == Spec => []WordsAreWords
<1>1. Inv => WordsAreWords
  BY DEF Inv
<1> QED BY <1>1, Initially, NextKeeps, PTL DEF Spec

-----------------------------------------------------------------------------
(* FlattenSeq, unrolled.  It is defined by recursion over the sequence; no *)
(* induction is at hand, so the facts about it come from a least exception.*)

\* A set of numbers has a first.
LEMMA Least ==
  ASSUME NEW S, S \subseteq Nat, S # {}
  PROVE  \E j \in S : \A k \in S : j <= k
<1>1. PICK j \in S : \A k \in S : ~ (<<k, j>> \in OpToRel(<, Nat))
  BY NatLessThanWellFounded, WFMin
<1>2. \A k \in S : ~ (k < j)
  BY <1>1 DEF OpToRel
<1>3. \A k \in S : j <= k
  BY <1>2
<1> QED BY <1>3

\* What the first m members of s are together, from what one less are.
Together(f, s, m) == IF m = 1 THEN s[m] ELSE f[m - 1] \o s[m]
Flats(f, s, n)    == [m \in 1 .. n |-> Together(f, s, m)]

\* There is such a function.
LEMMA FlatsExist ==
  ASSUME NEW s, NEW n \in Nat
  PROVE  \E f : f = Flats(f, s, n)
<1> DEFINE S == {m \in 0 .. n : ~ \E f : f = Flats(f, s, m)}
<1> SUFFICES ASSUME S # {} PROVE FALSE
  BY DEF S
<1>1. PICK m \in S : \A k \in S : m <= k
  <2>1. S \subseteq Nat
    OBVIOUS
  <2> HIDE DEF S
  <2> QED BY <2>1, Least
<1>2. m \in Nat /\ m <= n /\ ~ \E f : f = Flats(f, s, m)
  BY <1>1
<1>3. m # 0
  <2> SUFFICES ASSUME m = 0 PROVE FALSE
    OBVIOUS
  <2> DEFINE z == [j \in 1 .. 0 |-> j]
  <2>1. z = Flats(z, s, 0)
    BY DEF Flats
  <2> QED BY <1>2, <2>1
<1>4. PICK y : y = Flats(y, s, m - 1)
  <2>1. m - 1 \in 0 .. n /\ ~ (m <= m - 1)
    BY <1>2, <1>3
  <2>2. m - 1 \notin S
    BY <1>1, <2>1
  <2> QED BY <2>1, <2>2
<1> HIDE DEF S
<1> DEFINE t == Together(y, s, m)
           z == [j \in 1 .. m |-> IF j = m THEN t ELSE y[j]]
<1>5. \A j \in 1 .. m - 1 : y[j] = Together(y, s, j)
  BY <1>4 DEF Flats
<1> HIDE DEF t
<1>6. /\ \A j \in 1 .. m - 1 : z[j] = y[j] /\ j # m
      /\ z[m] = t /\ z = [j \in 1 .. m |-> z[j]]
  BY <1>2, <1>3
<1> HIDE DEF z
<1>7. ASSUME NEW j \in 1 .. m PROVE z[j] = Together(z, s, j)
  <2>1. j = 1 \/ j - 1 \in 1 .. m - 1
    BY <1>2
  <2>2. Together(z, s, j) = Together(y, s, j)
    BY <1>6, <2>1 DEF Together
  <2>3. j = m \/ j \in 1 .. m - 1
    BY <1>2
  <2> QED BY <1>5, <1>6, <2>2, <2>3 DEF t
<1>8. z = Flats(z, s, m)
  BY <1>6, <1>7 DEF Flats
<1> QED BY <1>2, <1>8

\* FlattenSeq ends where any such function ends.
Unrolls(f, s) ==
  /\ f[0] = << >>
  /\ \A m \in 1 .. Len(s) : f[m] = f[m - 1] \o s[m]

\* The functions that unroll a sequence agree on what FlattenSeq makes of it.
LEMMA FlattenIs ==
  ASSUME NEW S, NEW s \in Seq(Seq(S)), NEW f, Unrolls(f, s)
  PROVE  FlattenSeq(s) = f[Len(s)] /\ \A m \in 0 .. Len(s) : f[m] \in Seq(S)
<1> DEFINE n == Len(s)
           F == CHOOSE g : g = Flats(g, s, n)
<1>1. n \in Nat /\ \A m \in 1 .. n : s[m] \in Seq(S)
  BY ElementOfSeq
<1>2. F = Flats(F, s, n)
  <2> HIDE DEF n
  <2> QED BY <1>1, FlatsExist
<1>3. FlattenSeq(s) = IF n = 0 THEN s ELSE F[n]
  BY DEF FlattenSeq, Flats, Together
<1> HIDE DEF F, n
<1>4. \A m \in 1 .. n : F[m] = Together(F, s, m)
  BY <1>2 DEF Flats
<1>5. f[0] = << >> /\ \A m \in 1 .. n : f[m] = f[m - 1] \o s[m]
  BY DEF Unrolls, n
<1> DEFINE Good(m) == f[m] \in Seq(S) /\ (m = 0 \/ F[m] = f[m])
           E == {m \in 0 .. n : ~Good(m)}
<1>6. E = {}
  <2> SUFFICES ASSUME E # {} PROVE FALSE
    OBVIOUS
  <2>1. PICK m \in E : \A k \in E : m <= k
    <3>1. E \subseteq Nat
      BY <1>1
    <3> HIDE DEF E
    <3> QED BY <3>1, Least
  <2>2. m \in Nat /\ m \in 0 .. n /\ ~Good(m)
    BY <1>1, <2>1
  <2>3. f[0] \in Seq(S)
    BY <1>5
  <2>4. m # 0
    BY <2>2, <2>3
  <2>5. m - 1 \in 0 .. n /\ ~ (m <= m - 1) /\ m \in 1 .. n
    BY <1>1, <2>2, <2>4
  <2>6. Good(m - 1)
    BY <2>1, <2>5
  <2>7. f[m] = f[m - 1] \o s[m] /\ s[m] \in Seq(S) /\ F[m] = Together(F, s, m)
    BY <1>1, <1>4, <1>5, <2>5
  <2>8. f[m] \in Seq(S)
    BY <2>6, <2>7
  <2>9. F[m] = f[m]
    <3>1. CASE m = 1
      <4>1. f[m] = << >> \o s[m]
        <5>1. f[m - 1] = << >>
          BY <1>5, <3>1
        <5> QED BY <2>7, <5>1
      <4>2. << >> \o s[m] = s[m]
        BY <2>7, ConcatEmptySeq
      <4>3. F[m] = s[m]
        BY <2>7, <3>1 DEF Together
      <4> QED BY <4>1, <4>2, <4>3
    <3>2. CASE m # 1
      <4>1. F[m - 1] = f[m - 1]
        BY <2>2, <2>4, <2>6, <3>2
      <4> QED BY <2>7, <3>2, <4>1 DEF Together
    <3> QED BY <3>1, <3>2
  <2> QED BY <2>2, <2>8, <2>9
<1>7. \A m \in 0 .. n : Good(m)
  BY <1>6
<1>8. FlattenSeq(s) = f[n]
  <2>1. CASE n = 0
    <3>1. s = << >>
      BY <2>1 DEF n
    <3> QED BY <1>3, <1>5, <2>1, <3>1
  <2>2. CASE n # 0
    BY <1>1, <1>3, <1>7, <2>2
  <2> QED BY <2>1, <2>2
<1> QED BY <1>7, <1>8 DEF n

\* And there is one.
LEMMA FlattenUnrolls ==
  ASSUME NEW S, NEW s \in Seq(Seq(S))
  PROVE  \E f : Unrolls(f, s)
<1> DEFINE n == Len(s)
<1>1. n \in Nat /\ \A m \in 1 .. n : s[m] \in Seq(S)
  BY ElementOfSeq
<1> HIDE DEF n
<1>2. PICK F : F = Flats(F, s, n)
  BY <1>1, FlatsExist
<1>3. \A m \in 1 .. n : F[m] = Together(F, s, m)
  BY <1>2 DEF Flats
<1> DEFINE f == [m \in 0 .. n |-> IF m = 0 THEN << >> ELSE F[m]]
<1>4. f[0] = << >> /\ \A m \in 1 .. n : f[m] = F[m] /\ (m # 1 => f[m - 1] = F[m - 1])
  BY <1>1
<1> HIDE DEF f
<1>5. ASSUME NEW m \in 1 .. n PROVE f[m] = f[m - 1] \o s[m]
  <2>1. << >> \o s[m] = s[m]
    BY <1>1, ConcatEmptySeq
  <2>2. CASE m = 1
    <3>1. f[m - 1] = << >> /\ f[m] = F[m] /\ F[m] = s[m]
      BY <1>3, <1>4, <2>2 DEF Together
    <3> QED BY <2>1, <3>1
  <2>3. CASE m # 1
    BY <1>3, <1>4, <2>3 DEF Together
  <2> QED BY <2>2, <2>3
<1> QED BY <1>4, <1>5 DEF Unrolls, n

-----------------------------------------------------------------------------
(* LooseKey, of texts without what it treats otherwise than the styles do. *)

Plain == Classes \ {"dot", "variant"}

\* What LooseKey keeps of a rune.
Kept(c) == IF c = "dash" THEN << >> ELSE <<ToLower(c)>>

Drops(f, t) ==
  /\ f[0] = << >>
  /\ \A m \in 1 .. Len(t) : f[m] = f[m - 1] \o Kept(t[m])

\* It keeps one rune or none.
LEMMA KeptOne == \A c \in Plain : Kept(c) \in Seq(Plain)
<1> SUFFICES ASSUME NEW c \in Plain PROVE Kept(c) \in Seq(Plain)
  OBVIOUS
<1>1. ToLower(c) \in Plain
  BY DEF ToLower, Plain, Classes
<1> HIDE DEF Plain
<1> QED BY <1>1 DEF Kept

\* LooseKey is what any function ends with that goes through the text rune by rune.
LEMMA LooseIs ==
  ASSUME NEW t \in Seq(Plain), NEW f, Drops(f, t)
  PROVE  LooseKey(t) = f[Len(t)] /\ \A m \in 0 .. Len(t) : f[m] \in Seq(Plain)
<1> DEFINE s == [n \in DOMAIN t |-> Kept(t[n])]
<1>1. \A n \in DOMAIN t : t[n] \in Plain
  BY ElementOfSeq
<1>2. DOMAIN t = 1 .. Len(t) /\ Len(t) \in Nat
  OBVIOUS
<1>3. s \in Seq(Seq(Plain)) /\ Len(s) = Len(t) /\ \A m \in 1 .. Len(t) : s[m] = Kept(t[m])
  <2>1. \A n \in 1 .. Len(t) : Kept(t[n]) \in Seq(Plain)
    BY <1>1, <1>2, KeptOne
  <2> QED BY <1>2, <2>1
<1>4. LooseKey(t) = FlattenSeq(s)
  BY DEF LooseKey, Kept
<1> HIDE DEF s
<1>5. Unrolls(f, s)
  BY <1>3 DEF Unrolls, Drops
<1> QED BY <1>3, <1>4, <1>5, FlattenIs

\* There is such a function.
LEMMA LooseDrops ==
  ASSUME NEW t \in Seq(Plain)
  PROVE  \E f : Drops(f, t)
<1> DEFINE s == [n \in DOMAIN t |-> Kept(t[n])]
<1>1. \A n \in DOMAIN t : t[n] \in Plain
  BY ElementOfSeq
<1>2. DOMAIN t = 1 .. Len(t) /\ Len(t) \in Nat
  OBVIOUS
<1>3. s \in Seq(Seq(Plain)) /\ Len(s) = Len(t) /\ \A m \in 1 .. Len(t) : s[m] = Kept(t[m])
  <2>1. \A n \in 1 .. Len(t) : Kept(t[n]) \in Seq(Plain)
    BY <1>1, <1>2, KeptOne
  <2> QED BY <1>2, <2>1
<1> HIDE DEF s
<1>4. PICK f : Unrolls(f, s)
  BY <1>3, FlattenUnrolls
<1>5. Drops(f, t)
  BY <1>3, <1>4 DEF Unrolls, Drops
<1> QED BY <1>5

\* What it makes of two texts in a row it makes of each.
LEMMA LooseConcat ==
  ASSUME NEW t \in Seq(Plain), NEW u \in Seq(Plain)
  PROVE  LooseKey(t \o u) = LooseKey(t) \o LooseKey(u)
<1>1. PICK f : Drops(f, t)
  BY LooseDrops
<1>2. PICK g : Drops(g, u)
  BY LooseDrops
<1>3. /\ LooseKey(t) = f[Len(t)] /\ LooseKey(u) = g[Len(u)]
      /\ \A m \in 0 .. Len(t) : f[m] \in Seq(Plain)
      /\ \A m \in 0 .. Len(u) : g[m] \in Seq(Plain)
  BY <1>1, <1>2, LooseIs
<1> DEFINE a == Len(t)
           b == Len(u)
           w == t \o u
           h == [m \in 0 .. a + b |-> IF m <= a THEN f[m] ELSE f[a] \o g[m - a]]
<1>4. a \in Nat /\ b \in Nat /\ w \in Seq(Plain) /\ Len(w) = a + b
  OBVIOUS
<1>5. /\ \A m \in 1 .. a : w[m] = t[m]
      /\ \A m \in a + 1 .. a + b : w[m] = u[m - a]
  OBVIOUS
<1>6. \A c \in Plain : Kept(c) \in Seq(Plain)
  BY KeptOne
<1>7. \A m \in 1 .. b : u[m] \in Plain
  BY ElementOfSeq
<1>8. /\ \A m \in 1 .. a : f[m] = f[m - 1] \o Kept(t[m])
      /\ \A m \in 1 .. b : g[m] = g[m - 1] \o Kept(u[m])
      /\ f[0] = << >> /\ g[0] = << >>
  BY <1>1, <1>2 DEF Drops
<1> HIDE DEF a, b, w
<1>9. \A m \in 0 .. a + b : h[m] = IF m <= a THEN f[m] ELSE f[a] \o g[m - a]
  OBVIOUS
<1> HIDE DEF h
<1>10. f[a] \in Seq(Plain) /\ f[a] \o g[0] = f[a]
  <2>1. f[a] \in Seq(Plain)
    BY <1>3, <1>4 DEF a
  <2> QED BY <1>8, <2>1, ConcatEmptySeq
<1>11. ASSUME NEW m \in 1 .. a + b PROVE h[m] = h[m - 1] \o Kept(w[m])
  <2>1. CASE m <= a
    <3>1. m \in 1 .. a /\ m \in 0 .. a + b /\ m - 1 \in 0 .. a + b /\ m - 1 <= a
      BY <1>4, <2>1
    <3>2. h[m] = f[m] /\ h[m - 1] = f[m - 1]
      BY <1>9, <2>1, <3>1
    <3> QED BY <1>5, <1>8, <3>1, <3>2
  <2>2. CASE ~(m <= a)
    <3> DEFINE k == m - a
    <3>1. /\ k \in 1 .. b /\ k - 1 \in 0 .. b /\ m \in a + 1 .. a + b /\ m \in 0 .. a + b
          /\ m - 1 \in 0 .. a + b /\ (m - 1) - a = k - 1
      BY <1>4, <2>2
    <3>2. h[m] = f[a] \o g[k]
      BY <1>9, <2>2, <3>1
    <3>3. h[m - 1] = f[a] \o g[k - 1]
      <4>1. CASE m - 1 = a
        <5>1. h[m - 1] = f[m - 1]
          <6>1. m - 1 \in 0 .. a + b /\ m - 1 <= a
            BY <1>4, <3>1, <4>1
          <6> QED BY <1>9, <6>1
        <5>2. k - 1 = 0
          BY <1>4, <4>1
        <5> QED BY <1>10, <4>1, <5>1, <5>2
      <4>2. CASE m - 1 # a
        <5>1. ~(m - 1 <= a)
          BY <1>4, <2>2, <4>2
        <5> QED BY <1>9, <3>1, <5>1
      <4> QED BY <4>1, <4>2
    <3>4. w[m] = u[k] /\ Kept(u[k]) \in Seq(Plain)
      BY <1>5, <1>6, <1>7, <3>1
    <3> HIDE DEF k
    <3>5. g[k] = g[k - 1] \o Kept(u[k]) /\ g[k - 1] \in Seq(Plain)
      BY <1>3, <1>8, <3>1 DEF b
    <3>6. f[a] \o (g[k - 1] \o Kept(u[k])) = (f[a] \o g[k - 1]) \o Kept(u[k])
      <4>1. \A x, y, z \in Seq(Plain) : (x \o y) \o z = x \o (y \o z)
        BY ConcatAssociative
      <4> QED BY <1>10, <3>4, <3>5, <4>1
    <3> QED BY <3>2, <3>3, <3>4, <3>5, <3>6
  <2> QED BY <2>1, <2>2
<1>12. h[0] = << >>
  BY <1>4, <1>8, <1>9
<1>13. LooseKey(w) = h[a + b]
  <2>1. Drops(h, w)
    BY <1>4, <1>11, <1>12 DEF Drops
  <2> QED BY <1>4, <2>1, LooseIs
<1>14. h[a + b] = f[a] \o g[b]
  <2>1. CASE b = 0
    <3>1. a + b \in 0 .. a + b /\ a + b <= a /\ a + b = a
      BY <1>4, <2>1
    <3>2. h[a + b] = f[a]
      BY <1>9, <3>1
    <3> QED BY <1>10, <2>1, <3>2
  <2>2. CASE b # 0
    <3>1. a + b \in 0 .. a + b /\ ~(a + b <= a) /\ (a + b) - a = b
      BY <1>4, <2>2
    <3> QED BY <1>9, <3>1
  <2> QED BY <2>1, <2>2
<1> QED BY <1>3, <1>13, <1>14 DEF a, b, w

\* Nor does it tell apart what it keeps the same of.
LEMMA LooseSame ==
  ASSUME NEW t \in Seq(Plain), NEW u \in Seq(Plain), Len(t) = Len(u),
         \A m \in 1 .. Len(t) : Kept(t[m]) = Kept(u[m])
  PROVE  LooseKey(t) = LooseKey(u)
<1>1. PICK f : Drops(f, t)
  BY LooseDrops
<1>2. Drops(f, u)
  BY <1>1 DEF Drops
<1>3. LooseKey(t) = f[Len(t)]
  BY <1>1, LooseIs
<1>4. LooseKey(u) = f[Len(u)]
  BY <1>2, LooseIs
<1> QED BY <1>3, <1>4

\* Of separators alone it keeps nothing.
LEMMA LooseNone ==
  ASSUME NEW t \in Seq(Plain), \A m \in 1 .. Len(t) : t[m] = "dash"
  PROVE  LooseKey(t) = << >>
<1> DEFINE f == [m \in 0 .. Len(t) |-> << >>]
<1>1. \A m \in 0 .. Len(t) : f[m] = << >>
  OBVIOUS
<1>2. Len(t) \in Nat /\ << >> \o << >> = << >>
  OBVIOUS
<1> HIDE DEF f
<1>3. Drops(f, t)
  <2>1. ASSUME NEW m \in 1 .. Len(t) PROVE f[m] = f[m - 1] \o Kept(t[m])
    <3>1. f[m] = << >> /\ f[m - 1] = << >> /\ Kept(t[m]) = << >>
      BY <1>1, <1>2 DEF Kept
    <3> QED BY <1>2, <3>1
  <2>2. f[0] = << >>
    BY <1>1, <1>2
  <2> HIDE <1>1, <1>2
  <2> QED BY <2>1, <2>2 DEF Drops
<1> QED BY <1>1, <1>2, <1>3, LooseIs

\* What it makes of many texts in a row it makes of each.
LEMMA LooseFlat ==
  ASSUME NEW p \in Seq(Seq(Plain))
  PROVE  LooseKey(FlattenSeq(p)) = FlattenSeq([m \in DOMAIN p |-> LooseKey(p[m])])
<1> DEFINE n == Len(p)
           q == [m \in DOMAIN p |-> LooseKey(p[m])]
<1>1. PICK f : Unrolls(f, p)
  BY FlattenUnrolls
<1>2. /\ FlattenSeq(p) = f[n] /\ n \in Nat /\ DOMAIN p = 1 .. n
      /\ \A m \in 0 .. n : f[m] \in Seq(Plain)
      /\ \A m \in 1 .. n : p[m] \in Seq(Plain)
  BY <1>1, FlattenIs, ElementOfSeq
<1>3. \A t \in Seq(Plain) : LooseKey(t) \in Seq(Plain)
  <2> SUFFICES ASSUME NEW t \in Seq(Plain) PROVE LooseKey(t) \in Seq(Plain)
    OBVIOUS
  <2>1. Len(t) \in 0 .. Len(t)
    OBVIOUS
  <2> QED BY <2>1, LooseDrops, LooseIs
<1>4. q \in Seq(Seq(Plain)) /\ Len(q) = n /\ \A m \in 1 .. n : q[m] = LooseKey(p[m])
  <2> HIDE DEF n
  <2>1. \A m \in 1 .. n : LooseKey(p[m]) \in Seq(Plain)
    BY <1>2, <1>3
  <2> QED BY <1>2, <2>1
<1> DEFINE g == [m \in 0 .. n |-> LooseKey(f[m])]
<1>5. \A m \in 0 .. n : g[m] = LooseKey(f[m])
  OBVIOUS
<1>6. f[0] = << >> /\ \A m \in 1 .. n : f[m] = f[m - 1] \o p[m]
  BY <1>1 DEF Unrolls
<1> HIDE DEF n, q, g
<1>7. g[0] = << >>
  <2>1. << >> \in Seq(Plain) /\ \A m \in 1 .. Len(<< >>) : << >>[m] = "dash"
    OBVIOUS
  <2>2. LooseKey(<< >>) = << >>
    BY <2>1, LooseNone
  <2> QED BY <1>2, <1>5, <1>6, <2>2
<1>8. ASSUME NEW m \in 1 .. n PROVE g[m] = g[m - 1] \o q[m]
  <2>1. m \in 0 .. n /\ m - 1 \in 0 .. n
    BY <1>2
  <2>2. f[m - 1] \in Seq(Plain) /\ p[m] \in Seq(Plain) /\ f[m] = f[m - 1] \o p[m]
    BY <1>2, <1>6, <2>1
  <2>3. LooseKey(f[m]) = LooseKey(f[m - 1]) \o LooseKey(p[m])
    BY <2>2, LooseConcat
  <2> QED BY <1>4, <1>5, <2>1, <2>3
<1>9. Unrolls(g, q)
  BY <1>4, <1>7, <1>8 DEF Unrolls
<1>10. FlattenSeq(q) = g[n]
  BY <1>4, <1>9, FlattenIs
<1> QED BY <1>2, <1>5, <1>10 DEF q

-----------------------------------------------------------------------------
(* A text that is split: its words and the separators between them.        *)

\* A front of a text is a shorter front and what follows it.
LEMMA Cut ==
  ASSUME NEW S, NEW t \in Seq(S), NEW a \in 0 .. Len(t), NEW b \in a .. Len(t)
  PROVE  /\ SubSeq(t, 1, b) = SubSeq(t, 1, a) \o SubSeq(t, a + 1, b)
         /\ SubSeq(t, 1, a) \in Seq(S) /\ SubSeq(t, a + 1, b) \in Seq(S)
         /\ Len(SubSeq(t, a + 1, b)) = b - a
         /\ \A m \in 1 .. b - a : SubSeq(t, a + 1, b)[m] = t[a + m]
<1>1. Len(t) \in Nat /\ a \in Nat /\ b \in Nat /\ a <= b /\ b <= Len(t)
  OBVIOUS
<1> DEFINE u == SubSeq(t, 1, a)
           v == SubSeq(t, a + 1, b)
           w == SubSeq(t, 1, b)
<1>2. u \in Seq(S) /\ Len(u) = a /\ \A m \in 1 .. a : u[m] = t[m]
  BY <1>1
<1>3. v \in Seq(S) /\ Len(v) = b - a /\ \A m \in 1 .. b - a : v[m] = t[a + m]
  BY <1>1
<1>4. w \in Seq(S) /\ Len(w) = b /\ \A m \in 1 .. b : w[m] = t[m]
  BY <1>1
<1> HIDE DEF u, v, w
<1>5. w = u \o v
  <2>1. u \o v \in Seq(S) /\ Len(u \o v) = b
    <3>1. u \in Seq(S) /\ v \in Seq(S)
      BY <1>2, <1>3
    <3>2. u \o v \in Seq(S) /\ Len(u \o v) = Len(u) + Len(v)
      BY <3>1, ConcatProperties
    <3> QED BY <1>1, <1>2, <1>3, <3>2
  <2>2. ASSUME NEW m \in 1 .. b PROVE w[m] = (u \o v)[m]
    <3>1. CASE m <= a
      BY <1>1, <1>2, <1>3, <1>4, <3>1
    <3>2. CASE ~(m <= a)
      <4>1. m - a \in 1 .. b - a /\ a + (m - a) = m
        BY <1>1, <3>2
      <4>2. (u \o v)[m] = v[m - a]
        BY <1>1, <1>2, <1>3, <3>2
      <4> QED BY <1>3, <1>4, <4>1, <4>2
    <3> QED BY <3>1, <3>2
  <2> HIDE <1>2, <1>3
  <2> QED BY <1>4, <2>1, <2>2, SeqEqual
<1> QED BY <1>2, <1>3, <1>5 DEF u, v, w

\* Where word m ends, and where the next thing starts.
End(m)  == IF m = 0 THEN 0 ELSE words[m].to - 1
Mark(m) == IF m = Len(words) + 1 THEN Len(text) + 1 ELSE words[m].from

Cuts == Inv /\ Split /\ start = 0 /\ text \in Seq(Plain)

\* The words come one behind the other.
LEMMA Placed ==
  ASSUME Cuts
  PROVE  /\ Len(words) \in Nat /\ DOMAIN words = 1 .. Len(words) /\ Len(text) \in Nat
         /\ \A m \in 0 .. Len(words) : End(m) \in 0 .. Len(text)
         /\ \A m \in 1 .. Len(words) :
              /\ words[m].from \in 1 .. Len(text) /\ words[m].to - 1 \in 1 .. Len(text)
              /\ words[m].from <= End(m)
         /\ \A m \in 1 .. Len(words) + 1 : Mark(m) \in Nat /\ Mark(m) - 1 \in End(m - 1) .. Len(text)
<1>1. /\ Len(words) \in Nat /\ DOMAIN words = 1 .. Len(words) /\ Len(text) \in Nat
      /\ \A n \in DOMAIN words : words[n].from \in 1 .. Len(text) /\ words[n].to \in 2 .. Len(text) + 1
  BY WordsTyped DEF Cuts, Inv
<1>2. \A n \in DOMAIN words :
        words[n].from < words[n].to /\ \A m \in 1 .. n - 1 : words[m].to <= words[n].from
  BY DEF Cuts, Inv, Partition
<1>3. \A m \in 0 .. Len(words) : End(m) \in 0 .. Len(text)
  BY <1>1 DEF End
<1>4. ASSUME NEW m \in 1 .. Len(words)
      PROVE  /\ words[m].from \in 1 .. Len(text) /\ words[m].to - 1 \in 1 .. Len(text)
             /\ words[m].from <= End(m)
  BY <1>1, <1>2 DEF End
<1>5. ASSUME NEW m \in 1 .. Len(words) + 1
      PROVE  Mark(m) \in Nat /\ Mark(m) - 1 \in End(m - 1) .. Len(text)
  <2>1. m - 1 \in 0 .. Len(words) /\ End(m - 1) \in 0 .. Len(text)
    BY <1>1, <1>3
  <2>2. CASE m = Len(words) + 1
    BY <1>1, <2>1, <2>2 DEF Mark
  <2>3. CASE m # Len(words) + 1
    <3>1. m \in DOMAIN words /\ Mark(m) = words[m].from /\ words[m].from \in 1 .. Len(text)
      BY <1>1, <2>3 DEF Mark
    <3>2. CASE m = 1
      BY <1>1, <3>1, <3>2 DEF End
    <3>3. CASE m # 1
      <4>1. m - 1 \in 1 .. m - 1 /\ m - 1 # 0 /\ m - 1 \in DOMAIN words
        BY <1>1, <3>1, <3>3
      <4>2. words[m - 1].to <= words[m].from /\ words[m - 1].to \in 2 .. Len(text) + 1
        BY <1>1, <1>2, <3>1, <4>1
      <4>3. End(m - 1) = words[m - 1].to - 1
        BY <4>1 DEF End
      <4> DEFINE x == words[m].from
                 y == words[m - 1].to
                 e == End(m - 1)
                 k == Mark(m)
                 l == Len(text)
      <4>4. l \in Nat /\ k = x /\ x \in 1 .. l /\ y <= x /\ y \in 2 .. l + 1 /\ e = y - 1
        BY <1>1, <3>1, <4>2, <4>3
      <4> HIDE DEF x, y, e, k, l
      <4>5. k \in Nat /\ k - 1 \in e .. l
        BY <4>4
      <4> QED BY <4>5 DEF e, k, l
    <3> QED BY <3>2, <3>3
  <2> QED BY <2>2, <2>3
<1> QED BY <1>1, <1>3, <1>4, <1>5

\* Between two words are separators only.
LEMMA Between ==
  ASSUME Cuts, NEW m \in 1 .. Len(words) + 1, NEW p \in End(m - 1) + 1 .. Mark(m) - 1
  PROVE  text[p] = "dash"
<1>1. /\ Len(words) \in Nat /\ DOMAIN words = 1 .. Len(words) /\ Len(text) \in Nat
      /\ Mark(m) - 1 \in End(m - 1) .. Len(text) /\ Mark(m) \in Nat
      /\ m - 1 \in 0 .. Len(words) /\ End(m - 1) \in 0 .. Len(text)
      /\ \A n \in DOMAIN words : words[n].from \in Nat /\ words[n].to \in Nat
  <2>1. /\ Len(words) \in Nat /\ DOMAIN words = 1 .. Len(words) /\ Len(text) \in Nat
        /\ Mark(m) - 1 \in End(m - 1) .. Len(text) /\ Mark(m) \in Nat
    BY Placed
  <2>2. m - 1 \in 0 .. Len(words)
    BY <2>1
  <2>3. End(m - 1) \in 0 .. Len(text)
    BY <2>2, Placed
  <2>4. \A n \in DOMAIN words : words[n].from \in 1 .. Len(text) /\ words[n].to \in 2 .. Len(text) + 1
    BY WordsTyped DEF Cuts, Inv
  <2>5. \A n \in DOMAIN words : words[n].from \in Nat /\ words[n].to \in Nat
    BY <2>4
  <2> QED BY <2>1, <2>2, <2>3, <2>5
<1>2. p \in 1 .. Len(text) /\ p < i /\ text[p] \in Plain
  <2>1. p \in 1 .. Len(text)
    BY <1>1
  <2> QED BY <1>1, <2>1, ElementOfSeq DEF Cuts, Split
<1>3. ASSUME ~IsSeparator(p) PROVE FALSE
  <2>1. PICK n \in DOMAIN words : Within(p, words[n])
    BY <1>2, <1>3 DEF Cuts, Inv, Partition
  <2>2. words[n].from <= p /\ p < words[n].to
    BY <2>1 DEF Within
  <2>3. n \in Nat /\ words[n].from \in Nat /\ words[n].to \in Nat /\ \A k \in 1 .. n - 1 : words[k].to <= words[n].from
    BY <1>1 DEF Cuts, Inv, Partition
  <2>4. CASE n < m
    <3>1. m - 1 \in DOMAIN words /\ End(m - 1) = words[m - 1].to - 1
      BY <1>1, <2>3, <2>4 DEF End
    <3>2. words[n].to <= words[m - 1].to
      <4>1. CASE n = m - 1
        BY <1>1, <4>1
      <4>2. CASE n # m - 1
        <5>1. n \in 1 .. (m - 1) - 1
          BY <1>1, <2>3, <2>4, <4>2
        <5>2. words[n].to <= words[m - 1].from /\ words[m - 1].from < words[m - 1].to
          BY <3>1, <5>1 DEF Cuts, Inv, Partition
        <5>3. words[n].to \in Nat /\ words[m - 1].from \in Nat /\ words[m - 1].to \in Nat
          BY <1>1, <3>1
        <5> QED BY <5>2, <5>3
      <4> QED BY <4>1, <4>2
    <3> DEFINE x == words[n].to
               y == words[m - 1].to
               e == End(m - 1)
               k == Mark(m)
    <3>3. /\ x \in Nat /\ y \in Nat /\ e \in Nat /\ k \in Nat /\ p \in Nat
          /\ p < x /\ x <= y /\ e = y - 1 /\ p > e
      <4>1. x \in Nat /\ p < x
        BY <2>2, <2>3
      <4>2. y \in Nat /\ e = y - 1 /\ x <= y
        BY <1>1, <3>1, <3>2
      <4>3. e \in Nat /\ k \in Nat
        BY <1>1
      <4>4. p \in Nat /\ p > e
        BY <1>1, <1>2
      <4> QED BY <4>1, <4>2, <4>3, <4>4
    <3> HIDE DEF x, y, e, k
    <3> QED BY <3>3
  <2>5. CASE ~(n < m)
    <3>0. m \in DOMAIN words /\ m # Len(words) + 1
      BY <1>1, <2>3, <2>5
    <3>1. m \in DOMAIN words /\ Mark(m) = words[m].from /\ words[m].from < words[m].to
      BY <3>0 DEF Mark, Cuts, Inv, Partition
    <3>2. words[m].from <= words[n].from
      <4>1. CASE n = m
        BY <2>3, <4>1
      <4>2. CASE n # m
        <5>1. m \in 1 .. n - 1
          BY <1>1, <2>3, <2>5, <4>2
        <5>2. words[m].to <= words[n].from
          BY <2>3, <5>1
        <5>3. words[m].from \in Nat /\ words[m].to \in Nat
          BY <1>1, <3>1
        <5> QED BY <2>3, <3>1, <5>2, <5>3
      <4> QED BY <4>1, <4>2
    <3> DEFINE x == words[n].from
               y == words[m].from
               k == Mark(m)
    <3>3. x \in Nat /\ y \in Nat /\ p \in Nat /\ x <= p /\ y <= x /\ k = y /\ p < k
      BY <1>1, <1>2, <2>2, <2>3, <3>1, <3>2
    <3> HIDE DEF x, y, k
    <3> QED BY <3>3
  <2> QED BY <2>4, <2>5
<1>4. text[p] \in {"dash", "dot"}
  BY <1>3 DEF IsSeparator
<1> QED BY <1>2, <1>4 DEF Plain

\* The words are texts themselves.
LEMMA PartsTyped ==
  ASSUME Inv, NEW S, text \in Seq(S)
  PROVE  /\ Parts \in Seq(Seq(S)) /\ Len(Parts) = Len(words)
         /\ \A m \in 1 .. Len(words) : Parts[m] = SubSeq(text, words[m].from, words[m].to - 1)
<1>1. Len(words) \in Nat /\ DOMAIN words = 1 .. Len(words) /\ Len(text) \in Nat
  BY WordsTyped DEF Inv
<1>2. ASSUME NEW m \in 1 .. Len(words) PROVE SubSeq(text, words[m].from, words[m].to - 1) \in Seq(S)
  <2>1. words[m].from \in 1 .. Len(text) /\ words[m].to - 1 \in 1 .. Len(text)
    BY <1>1, WordsTyped DEF Inv
  <2> QED BY <2>1, SubSeqProperties
<1> DEFINE n == Len(words)
           g == [m \in 1 .. n |-> SubSeq(text, words[m].from, words[m].to - 1)]
<1>3. Parts = g
  BY <1>1 DEF Parts
<1>4. \A m \in 1 .. n : g[m] = SubSeq(text, words[m].from, words[m].to - 1)
  OBVIOUS
<1>5. n \in Nat /\ g \in [1 .. n -> Seq(S)]
  BY <1>1, <1>2
<1> HIDE DEF g, n
<1>6. g \in Seq(Seq(S)) /\ Len(g) = n
  BY <1>5
<1> QED BY <1>3, <1>4, <1>6 DEF n

\* To LooseKey a text is its words.
LEMMA TextIs ==
  ASSUME Cuts
  PROVE  LooseKey(text) = FlattenSeq([m \in DOMAIN Parts |-> LooseKey(Parts[m])])
<1> DEFINE n == Len(words)
           q == [m \in DOMAIN Parts |-> LooseKey(Parts[m])]
           g == [m \in 0 .. n |-> LooseKey(SubSeq(text, 1, End(m)))]
<1>1. /\ n \in Nat /\ Len(text) \in Nat /\ text \in Seq(Plain)
      /\ \A m \in 0 .. n : End(m) \in 0 .. Len(text)
      /\ Parts \in Seq(Seq(Plain)) /\ Len(Parts) = n
      /\ \A m \in 1 .. n : Parts[m] = SubSeq(text, words[m].from, words[m].to - 1)
  BY Placed, PartsTyped DEF Cuts
<1>2. \A t \in Seq(Plain) : LooseKey(t) \in Seq(Plain)
  <2> SUFFICES ASSUME NEW t \in Seq(Plain) PROVE LooseKey(t) \in Seq(Plain)
    OBVIOUS
  <2>1. Len(t) \in 0 .. Len(t)
    OBVIOUS
  <2> QED BY <2>1, LooseDrops, LooseIs
<1>3. \A m \in 0 .. n : g[m] = LooseKey(SubSeq(text, 1, End(m)))
  OBVIOUS
<1>4. q \in Seq(Seq(Plain)) /\ Len(q) = n /\ \A m \in 1 .. n : q[m] = LooseKey(Parts[m])
  <2>1. DOMAIN Parts = 1 .. n /\ \A m \in 1 .. n : Parts[m] \in Seq(Plain)
    BY <1>1, ElementOfSeq
  <2> HIDE DEF n
  <2>2. \A m \in 1 .. n : LooseKey(Parts[m]) \in Seq(Plain)
    BY <1>2, <2>1
  <2> QED BY <1>1, <2>1, <2>2
<1> HIDE DEF g, q
<1>5. \A m \in 1 .. n + 1 : \A b \in Mark(m) - 1 .. Len(text) :
        b = Mark(m) - 1 => LooseKey(SubSeq(text, 1, b)) = LooseKey(SubSeq(text, 1, End(m - 1)))
  <2> SUFFICES ASSUME NEW m \in 1 .. n + 1, NEW b, b = Mark(m) - 1
               PROVE  LooseKey(SubSeq(text, 1, b)) = LooseKey(SubSeq(text, 1, End(m - 1)))
    OBVIOUS
  <2>0. b = Mark(m) - 1
    OBVIOUS
  <2> DEFINE a == End(m - 1)
             u == SubSeq(text, 1, a)
             v == SubSeq(text, a + 1, b)
  <2>1. a \in 0 .. Len(text) /\ b \in a .. Len(text)
    <3>1. m - 1 \in 0 .. n
      BY <1>1
    <3>2. Mark(m) - 1 \in End(m - 1) .. Len(text)
      BY Placed
    <3> QED BY <1>1, <2>0, <3>1, <3>2
  <2>2. /\ SubSeq(text, 1, b) = u \o v /\ u \in Seq(Plain) /\ v \in Seq(Plain) /\ Len(v) = b - a
        /\ \A k \in 1 .. b - a : v[k] = text[a + k]
    <3>1. \A t \in Seq(Plain) : \A x \in 0 .. Len(t) : \A y \in x .. Len(t) :
            /\ SubSeq(t, 1, y) = SubSeq(t, 1, x) \o SubSeq(t, x + 1, y)
            /\ SubSeq(t, 1, x) \in Seq(Plain) /\ SubSeq(t, x + 1, y) \in Seq(Plain)
            /\ Len(SubSeq(t, x + 1, y)) = y - x
            /\ \A k \in 1 .. y - x : SubSeq(t, x + 1, y)[k] = t[x + k]
      BY Cut
    <3> HIDE DEF a
    <3> QED BY <1>1, <2>1, <3>1
  <2>3. \A k \in 1 .. Len(v) : v[k] = "dash"
    <3> SUFFICES ASSUME NEW k \in 1 .. b - a PROVE text[a + k] = "dash"
      BY <2>2
    <3>1. a + k \in End(m - 1) + 1 .. Mark(m) - 1
      BY <1>1, <2>1, <2>0
    <3> QED BY <3>1, Between
  <2> HIDE DEF a, u, v
  <2>4. LooseKey(v) = << >>
    BY <2>2, <2>3, LooseNone
  <2>5. LooseKey(u \o v) = LooseKey(u) \o << >> /\ LooseKey(u) \in Seq(Plain)
    BY <1>2, <2>2, <2>4, LooseConcat
  <2> QED BY <2>2, <2>5, ConcatEmptySeq DEF a, u
<1>6. g[0] = << >>
  <2>1. End(0) = 0 /\ 0 \in 0 .. n
    BY <1>1 DEF End
  <2>2. SubSeq(text, 1, 0) = << >>
    BY <1>1, SubSeqEmpty
  <2>3. << >> \in Seq(Plain) /\ \A m \in 1 .. Len(<< >>) : << >>[m] = "dash"
    OBVIOUS
  <2>4. LooseKey(<< >>) = << >>
    BY <2>3, LooseNone
  <2> QED BY <1>3, <2>1, <2>2, <2>4
<1>7. ASSUME NEW m \in 1 .. n PROVE g[m] = g[m - 1] \o q[m]
  <2> DEFINE a == words[m].from - 1
             b == End(m)
  <2>1. /\ m \in 0 .. n /\ m - 1 \in 0 .. n /\ m \in 1 .. n + 1 /\ m # n + 1 /\ m # 0
        /\ words[m].from \in 1 .. Len(text) /\ words[m].from <= End(m) /\ End(m) \in 0 .. Len(text)
    BY <1>1, Placed
  <2>2. Mark(m) - 1 = a /\ b = words[m].to - 1
    BY <2>1 DEF Mark, End
  <2>3. a \in 0 .. Len(text) /\ b \in a .. Len(text) /\ a + 1 = words[m].from
    BY <1>1, <2>1
  <2>4. Mark(m) - 1 .. Len(text) = a .. Len(text) /\ a \in a .. Len(text)
    BY <1>1, <2>2, <2>3
  <2>5. LooseKey(SubSeq(text, 1, a)) = LooseKey(SubSeq(text, 1, End(m - 1)))
    BY <1>5, <2>1, <2>2, <2>4
  <2> HIDE DEF a, b
  <2>6. /\ SubSeq(text, 1, b) = SubSeq(text, 1, a) \o SubSeq(text, a + 1, b)
        /\ SubSeq(text, 1, a) \in Seq(Plain) /\ SubSeq(text, a + 1, b) \in Seq(Plain)
    <3>1. text \in Seq(Plain) /\ a \in 0 .. Len(text) /\ b \in a .. Len(text)
      BY <1>1, <2>3
    <3> QED BY <3>1, Cut
  <2>7. SubSeq(text, a + 1, b) = Parts[m]
    BY <1>1, <2>2, <2>3
  <2>8. LooseKey(SubSeq(text, 1, b)) = LooseKey(SubSeq(text, 1, a)) \o LooseKey(Parts[m])
    BY <2>6, <2>7, LooseConcat
  <2> QED BY <1>3, <1>4, <2>1, <2>5, <2>8 DEF b
<1>8. FlattenSeq(q) = g[n]
  <2>1. Unrolls(g, q)
    BY <1>4, <1>6, <1>7 DEF Unrolls
  <2> QED BY <1>4, <2>1, FlattenIs
<1>9. LooseKey(text) = g[n]
  <2>1. Mark(n + 1) - 1 = Len(text) /\ (n + 1) - 1 = n /\ n + 1 \in 1 .. n + 1 /\ n \in 0 .. n
    BY <1>1 DEF Mark
  <2>2. Len(text) \in Mark(n + 1) - 1 .. Len(text)
    BY <1>1, <2>1
  <2>3. LooseKey(SubSeq(text, 1, Len(text))) = LooseKey(SubSeq(text, 1, End(n)))
    BY <1>5, <2>1, <2>2
  <2> QED BY <1>1, <1>3, <2>1, <2>3, SubSeqFull
<1> QED BY <1>8, <1>9 DEF q

-----------------------------------------------------------------------------
(* The styles.                                                             *)

\* What a style that writes the words makes of one.
Piece(style, parts, m) ==
  CASE style = "joined" -> (IF m > 1 THEN <<"dash">> ELSE << >>) \o Lowered(parts[m])
    [] style = "pascal" -> Title(parts[m])
    [] style = "camel"  -> IF m = 1 THEN Lowered(parts[m]) ELSE Title(parts[m])

Pieces(style, parts) == [m \in DOMAIN parts |-> Piece(style, parts, m)]

\* Changing case leaves a text a text, and LooseKey does not see it.
LEMMA Recased ==
  ASSUME NEW S \in {Classes, Plain}, NEW t \in Seq(S)
  PROVE  /\ Lowered(t) \in Seq(S) /\ Title(t) \in Seq(S)
         /\ Len(Lowered(t)) = Len(t) /\ Len(Title(t)) = Len(t)
         /\ \A m \in 1 .. Len(t) : Lowered(t)[m] = ToLower(t[m])
         /\ S = Plain => LooseKey(Lowered(t)) = LooseKey(t) /\ LooseKey(Title(t)) = LooseKey(t)
<1>1. \A c \in S : ToLower(c) \in S /\ ToUpper(c) \in S
  BY DEF Classes, Plain, ToLower, ToUpper
<1>2. \A c \in Plain : Kept(ToLower(c)) = Kept(c) /\ Kept(ToUpper(c)) = Kept(c)
  BY DEF Classes, Plain, ToLower, ToUpper, Kept
<1>3. DOMAIN t = 1 .. Len(t) /\ Len(t) \in Nat /\ \A m \in 1 .. Len(t) : t[m] \in S
  BY ElementOfSeq
<1>4. /\ Lowered(t) \in Seq(S) /\ Len(Lowered(t)) = Len(t)
      /\ \A m \in 1 .. Len(t) : Lowered(t)[m] = ToLower(t[m])
  <2>1. Lowered(t) = [m \in 1 .. Len(t) |-> ToLower(t[m])]
    BY <1>3 DEF Lowered
  <2> QED BY <1>1, <1>3, <2>1
<1>5. /\ Title(t) \in Seq(S) /\ Len(Title(t)) = Len(t)
      /\ \A m \in 1 .. Len(t) : Title(t)[m] \in {ToUpper(t[m]), ToLower(t[m])}
  <2>1. Title(t) = [m \in 1 .. Len(t) |-> IF m = 1 THEN ToUpper(t[m]) ELSE ToLower(t[m])]
    BY <1>3 DEF Title
  <2> QED BY <1>1, <1>3, <2>1
<1>6. ASSUME S = Plain
      PROVE  LooseKey(Lowered(t)) = LooseKey(t) /\ LooseKey(Title(t)) = LooseKey(t)
  <2>1. \A m \in 1 .. Len(t) : Kept(Lowered(t)[m]) = Kept(t[m]) /\ Kept(Title(t)[m]) = Kept(t[m])
    BY <1>2, <1>3, <1>4, <1>5, <1>6
  <2>2. Lowered(t) \in Seq(Plain) /\ Title(t) \in Seq(Plain) /\ t \in Seq(Plain)
    BY <1>4, <1>5, <1>6
  <2>3. LooseKey(t) = LooseKey(Lowered(t))
    BY <1>4, <2>1, <2>2, LooseSame
  <2>4. LooseKey(t) = LooseKey(Title(t))
    BY <1>5, <2>1, <2>2, LooseSame
  <2> QED BY <2>3, <2>4
<1> QED BY <1>4, <1>5, <1>6

\* A piece is a text, and to LooseKey it is the word.
LEMMA PieceIs ==
  ASSUME NEW S \in {Classes, Plain}, NEW parts \in Seq(Seq(S)),
         NEW style \in Styles \ {"lower"}, NEW m \in DOMAIN parts
  PROVE  /\ Piece(style, parts, m) \in Seq(S)
         /\ S = Plain => LooseKey(Piece(style, parts, m)) = LooseKey(parts[m])
<1>1. parts[m] \in Seq(S)
  BY ElementOfSeq
<1> DEFINE t == parts[m]
<1>2. /\ Lowered(t) \in Seq(S) /\ Title(t) \in Seq(S)
      /\ S = Plain => LooseKey(Lowered(t)) = LooseKey(t) /\ LooseKey(Title(t)) = LooseKey(t)
  BY <1>1, Recased
<1> DEFINE d == IF m > 1 THEN <<"dash">> ELSE << >>
<1>3. d \in Seq(S) /\ d \in Seq(Plain) /\ \A k \in 1 .. Len(d) : d[k] = "dash"
  <2>1. "dash" \in S /\ "dash" \in Plain
    BY DEF Classes, Plain
  <2> HIDE DEF Plain
  <2> QED BY <2>1
<1>4. LooseKey(d) = << >>
  BY <1>3, LooseNone
<1> DEFINE l == Lowered(t)
<1> HIDE DEF d
<1>5. d \o l \in Seq(S)
  BY <1>2, <1>3
<1>6. S = Plain => LooseKey(d \o l) = LooseKey(t)
  <2> SUFFICES ASSUME S = Plain PROVE LooseKey(d \o l) = LooseKey(t)
    OBVIOUS
  <2>1. l \in Seq(Plain) /\ LooseKey(l) = LooseKey(t)
    BY <1>2
  <2> HIDE DEF l
  <2>2. LooseKey(d \o l) = LooseKey(d) \o LooseKey(l)
    BY <1>3, <2>1, LooseConcat
  <2>3. LooseKey(l) \in Seq(Plain)
    <3>1. Len(l) \in 0 .. Len(l)
      BY <2>1
    <3> QED BY <2>1, <3>1, LooseDrops, LooseIs
  <2> QED BY <1>4, <2>1, <2>2, <2>3, ConcatEmptySeq
<1>7. Piece(style, parts, m) \in {d \o l, l, Title(t)}
  <2>1. CASE style = "joined"
    BY <2>1 DEF Piece, d
  <2>2. CASE style = "pascal"
    BY <2>2 DEF Piece
  <2>3. CASE style = "camel"
    BY <2>3 DEF Piece
  <2> QED BY <2>1, <2>2, <2>3 DEF Styles
<1> HIDE DEF l, t
<1> QED BY <1>2, <1>5, <1>6, <1>7 DEF l, t

\* A style writes its pieces one behind the other.
LEMMA WritesPieces ==
  ASSUME NEW t, NEW parts, NEW style \in Styles \ {"lower"}
  PROVE  Written(style, t, parts) = FlattenSeq(Pieces(style, parts))
<1>1. CASE style = "joined"
  <2>1. \A m \in DOMAIN parts :
          Piece(style, parts, m) = (IF m > 1 THEN <<"dash">> ELSE << >>) \o Lowered(parts[m])
    BY <1>1 DEF Piece
  <2>2. Pieces(style, parts) =
          [m \in DOMAIN parts |-> (IF m > 1 THEN <<"dash">> ELSE << >>) \o Lowered(parts[m])]
    BY <2>1 DEF Pieces
  <2> QED BY <1>1, <2>2 DEF Written, Joined
<1>2. CASE style = "pascal"
  <2>1. \A m \in DOMAIN parts : Piece(style, parts, m) = Title(parts[m])
    BY <1>2 DEF Piece
  <2>2. Pieces(style, parts) = [m \in DOMAIN parts |-> Title(parts[m])]
    BY <2>1 DEF Pieces
  <2> QED BY <1>2, <2>2 DEF Written, PascalCase
<1>3. CASE style = "camel"
  <2>1. \A m \in DOMAIN parts :
          Piece(style, parts, m) = IF m = 1 THEN Lowered(parts[m]) ELSE Title(parts[m])
    BY <1>3 DEF Piece
  <2>2. Pieces(style, parts) = [m \in DOMAIN parts |-> IF m = 1 THEN Lowered(parts[m]) ELSE Title(parts[m])]
    BY <2>1 DEF Pieces
  <2> QED BY <1>3, <2>2 DEF Written, CamelCase
<1> QED BY <1>1, <1>2, <1>3 DEF Styles

\* The pieces are texts, as many as the words.
LEMMA PiecesTyped ==
  ASSUME NEW S \in {Classes, Plain}, NEW parts \in Seq(Seq(S)), NEW style \in Styles \ {"lower"}
  PROVE  /\ Pieces(style, parts) \in Seq(Seq(S)) /\ Len(Pieces(style, parts)) = Len(parts)
         /\ \A m \in 1 .. Len(parts) : Pieces(style, parts)[m] = Piece(style, parts, m)
<1>1. DOMAIN parts = 1 .. Len(parts) /\ Len(parts) \in Nat
  OBVIOUS
<1>2. \A m \in 1 .. Len(parts) : Piece(style, parts, m) \in Seq(S)
  BY <1>1, PieceIs
<1>3. Pieces(style, parts) = [m \in 1 .. Len(parts) |-> Piece(style, parts, m)]
  BY <1>1 DEF Pieces
<1> QED BY <1>1, <1>2, <1>3

\* What a style writes is a text.
LEMMA WrittenTyped ==
  ASSUME NEW S \in {Classes, Plain}, NEW t \in Seq(S), NEW parts \in Seq(Seq(S)), NEW style \in Styles
  PROVE  Written(style, t, parts) \in Seq(S)
<1>1. CASE style = "lower"
  <2>1. Written(style, t, parts) = Lowered(t)
    BY <1>1 DEF Written
  <2> QED BY <2>1, Recased
<1>2. CASE style # "lower"
  <2> DEFINE p == Pieces(style, parts)
  <2>1. p \in Seq(Seq(S)) /\ Written(style, t, parts) = FlattenSeq(p)
    BY <1>2, PiecesTyped, WritesPieces
  <2> HIDE DEF p
  <2>2. PICK f : Unrolls(f, p)
    BY <2>1, FlattenUnrolls
  <2>3. FlattenSeq(p) = f[Len(p)] /\ Len(p) \in 0 .. Len(p) /\ \A m \in 0 .. Len(p) : f[m] \in Seq(S)
    BY <2>1, <2>2, FlattenIs
  <2> QED BY <2>1, <2>3
<1> QED BY <1>1, <1>2

\* LooseKey knows a text by whatever a style makes of it.
LEMMA StyleKeeps ==
  ASSUME Cuts, NEW style \in Styles
  PROVE  LooseKey(Written(style, text, Parts)) = LooseKey(text)
<1>0. text \in Seq(Plain) /\ Parts \in Seq(Seq(Plain)) /\ Inv
  BY PartsTyped DEF Cuts
<1>1. CASE style = "lower"
  <2>1. Written(style, text, Parts) = Lowered(text)
    BY <1>1 DEF Written
  <2> QED BY <1>0, <2>1, Recased
<1>2. CASE style # "lower"
  <2> DEFINE p == Pieces(style, Parts)
             n == Len(Parts)
  <2>1. /\ p \in Seq(Seq(Plain)) /\ Len(p) = n /\ Written(style, text, Parts) = FlattenSeq(p)
        /\ \A m \in 1 .. n : p[m] = Piece(style, Parts, m)
    BY <1>0, <1>2, PiecesTyped, WritesPieces
  <2>2. n \in Nat /\ DOMAIN Parts = 1 .. n
    BY <1>0
  <2>3. \A m \in 1 .. n : LooseKey(Piece(style, Parts, m)) = LooseKey(Parts[m])
    BY <1>0, <1>2, <2>2, PieceIs
  <2> HIDE DEF p, n
  <2>4. DOMAIN p = 1 .. n
    BY <2>1
  <2>5. \A m \in 1 .. n : LooseKey(p[m]) = LooseKey(Parts[m])
    BY <2>1, <2>3
  <2>6. [m \in DOMAIN p |-> LooseKey(p[m])] = [m \in DOMAIN Parts |-> LooseKey(Parts[m])]
    BY <2>2, <2>4, <2>5
  <2>7. LooseKey(FlattenSeq(p)) = FlattenSeq([m \in DOMAIN p |-> LooseKey(p[m])])
    BY <2>1, LooseFlat
  <2> QED BY <2>1, <2>6, <2>7, TextIs
<1> QED BY <1>1, <1>2

-----------------------------------------------------------------------------
(* A name split and written, again and again.                              *)

Entry == [text : Seq(Classes), parts : Seq(Seq(Classes)), style : Styles]

\* The key made last is to LooseKey the name it all began with.
Derived ==
  past # << >> /\ past[1].text \in Seq(Plain) =>
    text \in Seq(Plain) /\ LooseKey(text) = LooseKey(past[1].text)

KeysInv == Inv /\ (Split => start = 0) /\ past \in Seq(Entry) /\ Derived

\* A text taken up afresh is as good as one from outside.
LEMMA Afresh == text \in Seq(Classes) /\ i = 1 /\ start = 0 /\ words = << >> => Inv
<1> SUFFICES ASSUME text \in Seq(Classes), i = 1, start = 0, words = << >> PROVE Inv
  OBVIOUS
<1>1. Len(text) \in Nat
  OBVIOUS
<1>2. TypeOK
  BY <1>1 DEF TypeOK
<1> QED BY <1>1, <1>2 DEF Inv, Partition, Open, WordsAreWords

\* At first there is the name alone.
LEMMA KeysInitially == KeysInit => KeysInv
<1> SUFFICES ASSUME KeysInit PROVE KeysInv
  OBVIOUS
<1>1. Inv /\ start = 0 /\ past = << >>
  BY Initially DEF KeysInit, Init, Begun
<1>2. past \in Seq(Entry)
  BY <1>1
<1> QED BY <1>1, <1>2 DEF KeysInv, Derived

\* Splitting on keeps the invariant.
LEMMA SplittingKeeps == KeysInv /\ [Next]_vars /\ UNCHANGED past => KeysInv'
<1> SUFFICES ASSUME KeysInv, [Next]_vars, past' = past PROVE KeysInv'
  OBVIOUS
<1>1. Inv'
  BY NextKeeps DEF KeysInv
<1>2. text' = text
  BY DEF Next, Separator, Begin, Break, Extend, Return, vars
<1>3. (Split => start = 0)'
  <2>1. i \in Nat /\ Len(text) \in Nat
    BY WordsTyped DEF KeysInv, Inv, TypeOK
  <2> QED BY <1>2, <2>1 DEF KeysInv, Split, Next, Separator, Begin, Break, Extend, Return, vars
<1>4. (past \in Seq(Entry))' /\ Derived'
  BY <1>2 DEF KeysInv, Derived
<1> QED BY <1>1, <1>3, <1>4 DEF KeysInv

\* What a step writes down is the text and its words.
LEMMA EntryTyped ==
  ASSUME KeysInv, NEW style \in Styles
  PROVE  [text |-> text, parts |-> Parts, style |-> style] \in Entry
<1>1. text \in Seq(Classes) /\ Inv
  BY DEF KeysInv, Inv, TypeOK
<1>2. Parts \in Seq(Seq(Classes))
  BY <1>1, PartsTyped
<1> QED BY <1>1, <1>2 DEF Entry

\* So does writing the words down.
LEMMA RenderKeeps == \A style \in Styles : KeysInv /\ Render(style) => KeysInv'
<1> SUFFICES ASSUME NEW style \in Styles, KeysInv, Render(style) PROVE KeysInv'
  OBVIOUS
<1> DEFINE e == [text |-> text, parts |-> Parts, style |-> style]
<1>1. /\ Split /\ past' = Append(past, e) /\ text' = Written(style, text, Parts)
      /\ i' = 1 /\ start' = 0 /\ words' = << >>
  BY DEF Render
<1>2. text \in Seq(Classes) /\ Inv /\ start = 0 /\ past \in Seq(Entry) /\ Derived
  BY <1>1 DEF KeysInv, Inv, TypeOK
<1>3. text' \in Seq(Classes)
  BY <1>1, <1>2, PartsTyped, WrittenTyped
<1>4. Inv'
  <2>1. (text \in Seq(Classes) /\ i = 1 /\ start = 0 /\ words = << >>)'
    BY <1>1, <1>3
  <2> QED BY <2>1, Afresh, PTL
<1>5. e \in Entry
  BY EntryTyped
<1>6. e.text = text
  OBVIOUS
<1> HIDE DEF e
<1>7. past' \in Seq(Entry) /\ past' # << >> /\ past'[1].text = IF past = << >> THEN text ELSE past[1].text
  BY <1>1, <1>2, <1>5, <1>6
<1>8. ASSUME past'[1].text \in Seq(Plain)
      PROVE  text' \in Seq(Plain) /\ LooseKey(text') = LooseKey(past'[1].text)
  <2>1. text \in Seq(Plain) /\ LooseKey(text) = LooseKey(past'[1].text)
    <3>1. CASE past = << >>
      BY <1>7, <1>8, <3>1
    <3>2. CASE past # << >>
      BY <1>2, <1>7, <1>8, <3>2 DEF Derived
    <3> QED BY <3>1, <3>2
  <2>2. Cuts
    BY <1>1, <1>2, <2>1 DEF Cuts
  <2>3. text' \in Seq(Plain)
    <3>1. Parts \in Seq(Seq(Plain)) /\ Plain \in {Classes, Plain}
      BY <1>2, <2>1, PartsTyped
    <3> QED BY <1>1, <2>1, <3>1, WrittenTyped
  <2>4. LooseKey(text') = LooseKey(text)
    BY <1>1, <2>2, StyleKeeps
  <2> QED BY <2>1, <2>3, <2>4
<1> QED BY <1>1, <1>2, <1>4, <1>7, <1>8 DEF KeysInv, Derived

\* So does every step.
LEMMA KeysNextKeeps == KeysInv /\ [KeysNext]_keyVars => KeysInv'
<1>1. KeysInv /\ UNCHANGED keyVars => KeysInv'
  BY SplittingKeeps DEF keyVars
<1> QED BY <1>1, SplittingKeeps, RenderKeeps DEF KeysNext

\* Of every name without a dot and a letter that loses itself as a capital,
\* LooseKey is that of any key made of it by any styles one after the other.
THEOREM KeyAlwaysFound == KeysSpec => []LooseMatches
<1>1. KeysInv => LooseMatches
  <2> SUFFICES ASSUME KeysInv, past # << >>, ~Has(past[1].text, "dot"), ~Has(past[1].text, "variant")
               PROVE  LooseKey(text) = LooseKey(past[1].text)
    BY DEF LooseMatches
  <2> DEFINE t == past[1].text
  <2>1. past[1] \in Entry
    BY DEF KeysInv
  <2>2. t \in Seq(Classes)
    BY <2>1 DEF Entry
  <2> HIDE DEF t
  <2>3. \A m \in 1 .. Len(t) : t[m] \in Plain
    <3>1. \A m \in 1 .. Len(t) : t[m] \in Classes /\ t[m] # "dot" /\ t[m] # "variant"
      BY <2>2, ElementOfSeq DEF Has, t
    <3> QED BY <3>1 DEF Plain
  <2>4. t \in Seq(Plain)
    BY <2>2, <2>3
  <2> QED BY <2>4 DEF KeysInv, Derived, t
<1> QED BY <1>1, KeysInitially, KeysNextKeeps, PTL DEF KeysSpec

\* Keys made of keys are split as names are: nothing is lost of them, and their
\* words are words.
THEOREM KeysSplitToo == KeysSpec => [](Partition /\ WordsAreWords)
<1>1. KeysInv => Partition /\ WordsAreWords
  BY DEF KeysInv, Inv
<1> QED BY <1>1, KeysInitially, KeysNextKeeps, PTL DEF KeysSpec

-----------------------------------------------------------------------------
(* A text can be cut into words in one way.                                *)

\* The spans a[m] .. b[m] - 1 are words, all of the text but its separators,
\* and no two that touch could be one.
Cutting(a, b, N) ==
  /\ N \in Nat
  /\ \A m \in 1 .. N : a[m] \in 1 .. Len(text) /\ b[m] \in 2 .. Len(text) + 1 /\ a[m] < b[m]
  /\ \A m \in 1 .. N : IsWord(a[m], b[m]) /\ \A p \in a[m] .. b[m] - 1 : ~IsSeparator(p)
  /\ \A m, n \in 1 .. N : m < n => b[m] <= a[n]
  /\ \A m \in 2 .. N : b[m - 1] = a[m] => ~IsWord(a[m - 1], b[m])
  /\ \A p \in 1 .. Len(text) : ~IsSeparator(p) => \E m \in 1 .. N : a[m] <= p /\ p < b[m]

\* Two words that touch and are not one are not for the rune between them.
LEMMA ApartAt ==
  ASSUME NEW x \in Nat \ {0}, NEW t \in Nat, NEW y \in Nat, x < t, t < y,
         IsWord(x, t), IsWord(t, y), ~IsWord(x, y)
  PROVE  ~IsWord(x, t + 1)
<1> SUFFICES ASSUME IsWord(x, t + 1) PROVE IsWord(x, y)
  OBVIOUS
<1>1. ASSUME NEW p \in x .. y - 1 PROVE IsDigit(p) = IsDigit(t)
  <2>1. t \in x .. (t + 1) - 1 /\ t \in t .. y - 1
    OBVIOUS
  <2>2. CASE p <= t
    <3>1. p \in x .. (t + 1) - 1
      BY <2>2
    <3> QED BY <2>1, <3>1 DEF IsWord
  <2>3. CASE ~(p <= t)
    <3>1. p \in t .. y - 1
      BY <2>3
    <3> QED BY <2>1, <3>1 DEF IsWord
  <2> QED BY <2>2, <2>3
<1>2. ASSUME NEW p \in x + 1 .. y - 1
      PROVE  IsUpper(p) => IsUpper(p - 1) /\ (p < Len(text) => ~IsLower(p + 1))
  <2>1. CASE p <= t
    <3>1. p \in x + 1 .. (t + 1) - 1
      BY <2>1
    <3> QED BY <3>1 DEF IsWord
  <2>2. CASE ~(p <= t)
    <3>1. p \in t + 1 .. y - 1
      BY <2>2
    <3> QED BY <3>1 DEF IsWord
  <2> QED BY <2>1, <2>2
<1>3. \A p, q \in x .. y - 1 : IsDigit(p) = IsDigit(q)
  BY <1>1
<1> QED BY <1>2, <1>3 DEF IsWord

\* Of two words that start together none ends first.
LEMMA NotShorter ==
  ASSUME NEW a, NEW b, NEW N, NEW c, NEW d, NEW M, Len(text) \in Nat,
         Cutting(a, b, N), Cutting(c, d, M), NEW m \in 1 .. N, m \in 1 .. M, a[m] = c[m]
  PROVE  ~(b[m] < d[m])
<1> SUFFICES ASSUME b[m] < d[m] PROVE FALSE
  OBVIOUS
<1>1. /\ N \in Nat /\ M \in Nat /\ m \in Nat
      /\ \A k \in 1 .. N : a[k] \in 1 .. Len(text) /\ b[k] \in 2 .. Len(text) + 1 /\ a[k] < b[k]
      /\ c[m] \in Nat \ {0} /\ d[m] \in 2 .. Len(text) + 1
  BY DEF Cutting
<1> DEFINE t == b[m]
<1>2. t \in 1 .. Len(text) /\ t \in c[m] .. d[m] - 1
  BY <1>1
<1>3. ~IsSeparator(t)
  BY <1>2 DEF Cutting
<1>4. PICK k \in 1 .. N : a[k] <= t /\ t < b[k]
  BY <1>2, <1>3 DEF Cutting
<1>5. \A j, l \in 1 .. N : j < l => b[j] <= a[l]
  BY DEF Cutting
<1>6. m < k
  <2>1. CASE k < m
    <3>1. b[k] <= a[m]
      BY <1>5, <2>1
    <3> QED BY <1>1, <1>4, <3>1
  <2>2. CASE k = m
    BY <1>1, <1>4, <2>2
  <2> QED BY <1>1, <2>1, <2>2
<1>7. a[k] = t
  <2>1. b[m] <= a[k]
    BY <1>5, <1>6
  <2> QED BY <1>1, <1>4, <2>1
<1>8. k = m + 1
  <2> SUFFICES ASSUME k # m + 1 PROVE FALSE
    OBVIOUS
  <2>1. m + 1 \in 1 .. N /\ m < m + 1 /\ m + 1 < k
    BY <1>1, <1>6
  <2>2. b[m] <= a[m + 1] /\ b[m + 1] <= a[k] /\ a[m + 1] < b[m + 1]
    BY <1>1, <1>5, <2>1
  <2>3. /\ a[m + 1] \in Nat /\ b[m + 1] \in Nat /\ a[k] \in Nat /\ b[m] \in Nat
    BY <1>1, <2>1
  <2> QED BY <1>7, <2>2, <2>3
<1>9. ~IsWord(a[m], b[k])
  <2>1. k \in 2 .. N /\ k - 1 = m
    BY <1>1, <1>8
  <2>2. b[k - 1] = a[k] => ~IsWord(a[k - 1], b[k])
    BY <2>1 DEF Cutting
  <2> QED BY <1>7, <2>1, <2>2
<1>10. IsWord(a[m], t) /\ IsWord(t, b[k])
  BY <1>7 DEF Cutting
<1>11. /\ a[m] \in Nat \ {0} /\ t \in Nat /\ b[k] \in Nat /\ a[m] < t
  BY <1>1
<1>12. ~IsWord(a[m], t + 1)
  BY <1>4, <1>9, <1>10, <1>11, ApartAt
<1>13. IsWord(c[m], d[m]) /\ c[m] = a[m]
  BY DEF Cutting
<1>14. t + 1 \in Nat /\ t + 1 <= d[m] /\ d[m] \in Nat
  BY <1>1
<1> QED BY <1>11, <1>12, <1>13, <1>14, Shorter

\* The words of the one cutting are words of the other.
LEMMA SameWords ==
  ASSUME NEW a, NEW b, NEW N, NEW c, NEW d, NEW M, Len(text) \in Nat,
         Cutting(a, b, N), Cutting(c, d, M)
  PROVE  N <= M /\ \A m \in 1 .. N : a[m] = c[m] /\ b[m] = d[m]
<1>1. /\ N \in Nat /\ M \in Nat
      /\ \A k \in 1 .. N : a[k] \in 1 .. Len(text) /\ b[k] \in 2 .. Len(text) + 1 /\ a[k] < b[k]
      /\ \A k \in 1 .. M : c[k] \in 1 .. Len(text) /\ d[k] \in 2 .. Len(text) + 1 /\ c[k] < d[k]
      /\ \A j, l \in 1 .. N : j < l => b[j] <= a[l]
      /\ \A j, l \in 1 .. M : j < l => d[j] <= c[l]
  BY DEF Cutting
<1> DEFINE Same(m) == m <= M /\ a[m] = c[m] /\ b[m] = d[m]
           E == {m \in 1 .. N : ~Same(m)}
<1>2. E = {}
  <2> SUFFICES ASSUME E # {} PROVE FALSE
    OBVIOUS
  <2>1. PICK m \in E : \A k \in E : m <= k
    <3>1. E \subseteq Nat
      BY <1>1
    <3> HIDE DEF E
    <3> QED BY <3>1, Least
  <2>2. m \in 1 .. N /\ m \in Nat /\ ~Same(m)
    BY <1>1, <2>1
  <2>3. \A k \in 1 .. N : k < m => k \in 1 .. M /\ a[k] = c[k] /\ b[k] = d[k]
    <3> SUFFICES ASSUME NEW k \in 1 .. N, k < m PROVE k \in 1 .. M /\ a[k] = c[k] /\ b[k] = d[k]
      OBVIOUS
    <3>1. k \notin E
      BY <1>1, <2>1, <2>2
    <3> QED BY <1>1, <3>1
  <2> HIDE DEF E
  <2>4. a[m] \in 1 .. Len(text) /\ ~IsSeparator(a[m])
    <3>1. a[m] \in 1 .. Len(text) /\ a[m] \in a[m] .. b[m] - 1
      BY <1>1, <2>2
    <3> QED BY <2>2, <3>1 DEF Cutting
  <2>5. PICK n \in 1 .. M : c[n] <= a[m] /\ a[m] < d[n]
    BY <2>4 DEF Cutting
  <2>6. ~(n < m)
    <3> SUFFICES ASSUME n < m PROVE FALSE
      OBVIOUS
    <3>1. n \in 1 .. N
      BY <1>1, <2>2
    <3>2. b[n] = d[n] /\ b[n] <= a[m]
      BY <1>1, <2>2, <2>3, <3>1
    <3>3. b[n] \in Nat /\ a[m] \in Nat
      BY <1>1, <2>2, <3>1
    <3> QED BY <2>5, <3>2, <3>3
  <2>7. m \in 1 .. M
    BY <1>1, <2>2, <2>6
  <2>8. c[m] <= a[m]
    <3>1. CASE n = m
      BY <2>5, <3>1
    <3>2. CASE n # m
      <4>1. m < n
        BY <1>1, <2>2, <2>6, <3>2
      <4>2. d[m] <= c[n] /\ c[m] < d[m]
        BY <1>1, <2>7, <4>1
      <4>3. c[m] \in Nat /\ d[m] \in Nat /\ c[n] \in Nat /\ a[m] \in Nat
        BY <1>1, <2>2, <2>7
      <4> QED BY <2>5, <4>2, <4>3
    <3> QED BY <3>1, <3>2
  <2>9. a[m] <= c[m]
    <3>1. c[m] \in 1 .. Len(text) /\ ~IsSeparator(c[m])
      <4>1. c[m] \in 1 .. Len(text) /\ c[m] \in c[m] .. d[m] - 1
        BY <1>1, <2>7
      <4> QED BY <2>7, <4>1 DEF Cutting
    <3>2. PICK j \in 1 .. N : a[j] <= c[m] /\ c[m] < b[j]
      BY <3>1 DEF Cutting
    <3>3. ~(j < m)
      <4> SUFFICES ASSUME j < m PROVE FALSE
        OBVIOUS
      <4>1. j \in 1 .. M /\ b[j] = d[j]
        BY <2>3
      <4>2. d[j] <= c[m]
        BY <1>1, <2>7, <4>1
      <4>3. d[j] \in Nat /\ c[m] \in Nat
        BY <1>1, <2>7, <4>1
      <4> QED BY <3>2, <4>1, <4>2, <4>3
    <3>4. CASE j = m
      BY <3>2, <3>4
    <3>5. CASE j # m
      <4>1. m < j
        BY <1>1, <2>2, <3>3, <3>5
      <4>2. b[m] <= a[j] /\ a[m] < b[m]
        BY <1>1, <2>2, <4>1
      <4>3. a[m] \in Nat /\ b[m] \in Nat /\ a[j] \in Nat /\ c[m] \in Nat
        BY <1>1, <2>2, <2>7
      <4> QED BY <3>2, <4>2, <4>3
    <3> QED BY <3>4, <3>5
  <2>10. a[m] = c[m]
    BY <1>1, <2>2, <2>7, <2>8, <2>9
  <2>11. ~(b[m] < d[m])
    BY <2>2, <2>7, <2>10, NotShorter
  <2>12. ~(d[m] < b[m])
    BY <2>2, <2>7, <2>10, NotShorter
  <2>13. b[m] = d[m]
    BY <1>1, <2>2, <2>7, <2>11, <2>12
  <2> QED BY <1>1, <2>2, <2>7, <2>10, <2>13
<1>3. \A m \in 1 .. N : Same(m)
  BY <1>2
<1>4. N <= M
  <2>1. CASE N = 0
    BY <1>1, <2>1
  <2>2. CASE N # 0
    <3>1. N \in 1 .. N
      BY <1>1, <2>2
    <3> QED BY <1>3, <3>1
  <2> QED BY <2>1, <2>2
<1> QED BY <1>3, <1>4

\* A text can be cut into words in one way only: whatever is words, leaves out
\* nothing but separators, and separates no more than it has to, is what
\* splitWords finds.
THEOREM OneCutting ==
  ASSUME text \in Seq(Classes), NEW a, NEW b, NEW N, NEW c, NEW d, NEW M,
         Cutting(a, b, N), Cutting(c, d, M)
  PROVE  N = M /\ \A m \in 1 .. N : a[m] = c[m] /\ b[m] = d[m]
<1>1. Len(text) \in Nat /\ N \in Nat /\ M \in Nat
  BY DEF Cutting
<1>2. N <= M /\ \A m \in 1 .. N : a[m] = c[m] /\ b[m] = d[m]
  BY <1>1, SameWords
<1>3. M <= N
  BY <1>1, SameWords
<1> QED BY <1>1, <1>2, <1>3

\* splitWords returns one.
LEMMA WordsCut ==
  ASSUME Inv, Split, start = 0
  PROVE  Cutting([m \in 1 .. Len(words) |-> words[m].from], [m \in 1 .. Len(words) |-> words[m].to], Len(words))
<1> DEFINE N == Len(words)
           a == [m \in 1 .. Len(words) |-> words[m].from]
           b == [m \in 1 .. Len(words) |-> words[m].to]
<1>1. /\ N \in Nat /\ DOMAIN words = 1 .. N /\ Len(text) \in Nat
      /\ \A m \in 1 .. N : words[m].from \in 1 .. Len(text) /\ words[m].to \in 2 .. Len(text) + 1
  BY WordsTyped DEF Inv
<1>2. \A m \in 1 .. N : a[m] = words[m].from /\ b[m] = words[m].to
  OBVIOUS
<1> HIDE DEF N, a, b
<1>3. \A m \in 1 .. N : /\ words[m].from < words[m].to
                        /\ \A p \in words[m].from .. words[m].to - 1 : ~IsSeparator(p)
                        /\ IsWord(words[m].from, words[m].to)
  BY <1>1 DEF Inv, Partition, WordsAreWords
<1>4. \A m, n \in 1 .. N : m < n => words[m].to <= words[n].from
  <2> SUFFICES ASSUME NEW m \in 1 .. N, NEW n \in 1 .. N, m < n PROVE words[m].to <= words[n].from
    OBVIOUS
  <2>1. m \in 1 .. n - 1
    BY <1>1
  <2> QED BY <1>1, <2>1 DEF Inv, Partition
<1>5. \A m \in 2 .. N : words[m - 1].to = words[m].from => ~IsWord(words[m - 1].from, words[m].to)
  BY <1>1 DEF Inv, WordsAreWords
<1>6. ASSUME NEW p \in 1 .. Len(text), ~IsSeparator(p)
      PROVE  \E m \in 1 .. N : words[m].from <= p /\ p < words[m].to
  <2>1. p < i
    BY <1>1 DEF Split
  <2> QED BY <1>1, <1>6, <2>1 DEF Inv, Partition, Within
<1>7. \A m \in 2 .. N : m - 1 \in 1 .. N /\ m \in 1 .. N
  BY <1>1
<1>8. \A m \in 1 .. N : a[m] \in 1 .. Len(text) /\ b[m] \in 2 .. Len(text) + 1 /\ a[m] < b[m]
  BY <1>1, <1>2, <1>3
<1>9. \A m \in 1 .. N : IsWord(a[m], b[m]) /\ \A p \in a[m] .. b[m] - 1 : ~IsSeparator(p)
  BY <1>2, <1>3
<1>10. \A m, n \in 1 .. N : m < n => b[m] <= a[n]
  BY <1>2, <1>4
<1>11. \A m \in 2 .. N : b[m - 1] = a[m] => ~IsWord(a[m - 1], b[m])
  BY <1>2, <1>5, <1>7
<1>12. \A p \in 1 .. Len(text) : ~IsSeparator(p) => \E m \in 1 .. N : a[m] <= p /\ p < b[m]
  BY <1>2, <1>6
<1>13. Cutting(a, b, N)
  BY <1>1, <1>8, <1>9, <1>10, <1>11, <1>12 DEF Cutting
<1> QED BY <1>13 DEF a, b, N

-----------------------------------------------------------------------------
(* A style's pieces are the one way to cut what it writes, if it keeps the *)
(* words apart.                                                            *)

\* Each member of s lies in the text f ends with, behind the ones before it.
Behind(f, s, S) ==
  /\ Len(s) \in Nat /\ FlattenSeq(s) = f[Len(s)] /\ Len(f[0]) = 0
  /\ \A m \in 0 .. Len(s) : f[m] \in Seq(S) /\ Len(f[m]) \in Nat
  /\ \A m \in 1 .. Len(s) : s[m] \in Seq(S) /\ Len(f[m]) = Len(f[m - 1]) + Len(s[m])
  /\ \A m \in 1 .. Len(s) : \A n \in m .. Len(s) :
       /\ Len(f[m]) <= Len(f[n])
       /\ \A k \in 1 .. Len(s[m]) : f[n][Len(f[m - 1]) + k] = s[m][k]
  /\ \A n \in 0 .. Len(s) : \A p \in 1 .. Len(f[n]) :
       \E m \in 1 .. n : Len(f[m - 1]) < p /\ p <= Len(f[m])

\* So it is with what a function that unrolls them ends with.
LEMMA FlattenLies ==
  ASSUME NEW S, NEW s \in Seq(Seq(S)), NEW f, Unrolls(f, s)
  PROVE  Behind(f, s, S)
<1> DEFINE N == Len(s)
<1>1. N \in Nat /\ FlattenSeq(s) = f[N] /\ \A m \in 1 .. N : s[m] \in Seq(S)
  BY ElementOfSeq, FlattenIs
<1>2. \A m \in 0 .. N : f[m] \in Seq(S)
  BY FlattenIs
<1> HIDE DEF N
<1>3. f[0] = << >> /\ \A m \in 1 .. N : f[m] = f[m - 1] \o s[m]
  BY DEF Unrolls, N
<1>4. \A m \in 1 .. N : m \in 0 .. N /\ m - 1 \in 0 .. N
  BY <1>1
<1>5. ASSUME NEW m \in 1 .. N
      PROVE  /\ Len(f[m - 1]) \in Nat /\ Len(s[m]) \in Nat /\ Len(f[m]) = Len(f[m - 1]) + Len(s[m])
             /\ \A k \in 1 .. Len(f[m - 1]) : f[m][k] = f[m - 1][k]
             /\ \A k \in 1 .. Len(s[m]) : f[m][Len(f[m - 1]) + k] = s[m][k]
  <2> DEFINE u == f[m - 1]
             v == s[m]
  <2>1. u \in Seq(S) /\ v \in Seq(S)
    BY <1>1, <1>2, <1>4
  <2>2. f[m] = u \o v
    BY <1>3
  <2> HIDE DEF u, v
  <2>3. /\ Len(u) \in Nat /\ Len(v) \in Nat /\ Len(u \o v) = Len(u) + Len(v)
        /\ \A k \in 1 .. Len(u) : (u \o v)[k] = u[k]
        /\ \A k \in 1 .. Len(v) : (u \o v)[Len(u) + k] = v[k]
    BY <2>1
  <2> QED BY <2>2, <2>3 DEF u, v
<1>6. \A m \in 0 .. N : Len(f[m]) \in Nat
  BY <1>2
<1>7. ASSUME NEW m \in 1 .. N, NEW n \in m .. N
      PROVE  /\ Len(f[m]) <= Len(f[n])
             /\ \A k \in 1 .. Len(s[m]) : f[n][Len(f[m - 1]) + k] = s[m][k]
  <2> DEFINE Keeps(l) == /\ Len(f[m]) <= Len(f[l])
                         /\ \A k \in 1 .. Len(s[m]) : f[l][Len(f[m - 1]) + k] = s[m][k]
             E == {l \in m .. N : ~Keeps(l)}
  <2>1. E = {}
    <3> SUFFICES ASSUME E # {} PROVE FALSE
      OBVIOUS
    <3>1. PICK l \in E : \A k \in E : l <= k
      <4>1. E \subseteq Nat
        BY <1>1
      <4> HIDE DEF E
      <4> QED BY <4>1, Least
    <3>2. l \in m .. N /\ l \in 1 .. N /\ ~Keeps(l)
      BY <1>1, <3>1
    <3>3. Len(f[m]) \in Nat /\ Len(f[m - 1]) \in Nat /\ Len(f[l]) \in Nat /\ Len(s[m]) \in Nat
      BY <1>4, <1>5, <1>6, <3>2
    <3>4. l # m
      <4>1. \A k \in 1 .. Len(s[m]) : f[m][Len(f[m - 1]) + k] = s[m][k]
        BY <1>5
      <4>2. Len(f[m]) <= Len(f[m])
        <5> DEFINE x == Len(f[m])
        <5>1. x \in Nat
          BY <3>3
        <5> HIDE DEF x
        <5>2. x <= x
          BY <5>1
        <5> QED BY <5>2 DEF x
      <4> QED BY <3>2, <4>1, <4>2
    <3>5. l - 1 \in m .. N /\ ~(l <= l - 1) /\ l - 1 \in 0 .. N
      BY <1>1, <3>2, <3>4
    <3>6. Keeps(l - 1)
      BY <3>1, <3>5
    <3>7. /\ Len(f[l - 1]) \in Nat /\ Len(s[l]) \in Nat /\ Len(f[l]) = Len(f[l - 1]) + Len(s[l])
          /\ \A k \in 1 .. Len(f[l - 1]) : f[l][k] = f[l - 1][k]
      BY <1>5, <3>2
    <3> HIDE DEF E
    <3>8. Len(f[m]) <= Len(f[l])
      <4> DEFINE x == Len(f[m])
                 y == Len(f[l])
                 z == Len(f[l - 1])
                 w == Len(s[l])
      <4>1. x <= z /\ y = z + w /\ x \in Nat /\ y \in Nat /\ z \in Nat /\ w \in Nat
        BY <3>3, <3>6, <3>7
      <4> HIDE DEF x, y, z, w
      <4>2. x <= y
        BY <4>1
      <4> QED BY <4>2 DEF x, y
    <3>9. ASSUME NEW k \in 1 .. Len(s[m]) PROVE f[l][Len(f[m - 1]) + k] = s[m][k]
      <4>1. Len(f[m]) = Len(f[m - 1]) + Len(s[m])
        BY <1>5
      <4>2. Len(f[m - 1]) + k \in 1 .. Len(f[l - 1])
        <5> DEFINE x == Len(f[m])
                   y == Len(f[m - 1])
                   z == Len(f[l - 1])
                   w == Len(s[m])
        <5>1. x <= z /\ x = y + w /\ x \in Nat /\ y \in Nat /\ z \in Nat /\ w \in Nat /\ k \in 1 .. w
          BY <3>3, <3>6, <3>7, <4>1
        <5> HIDE DEF x, y, z, w
        <5>2. y + k \in 1 .. z
          BY <5>1
        <5> QED BY <5>2 DEF y, z
      <4> QED BY <3>6, <3>7, <4>2
    <3> QED BY <3>2, <3>8, <3>9
  <2> QED BY <2>1
<1>8. ASSUME NEW n \in 0 .. N, NEW p \in 1 .. Len(f[n])
      PROVE  \E m \in 1 .. n : Len(f[m - 1]) < p /\ p <= Len(f[m])
  <2> DEFINE F == {l \in 0 .. n : p <= Len(f[l])}
  <2>1. n \in F
    BY <1>1, <1>6
  <2>2. PICK l \in F : \A k \in F : l <= k
    <3>1. F \subseteq Nat
      BY <1>1
    <3>2. F # {}
      BY <2>1
    <3> HIDE DEF F
    <3> QED BY <3>1, <3>2, Least
  <2>3. l \in 0 .. n /\ p <= Len(f[l])
    BY <2>2
  <2>4. l # 0
    <3> SUFFICES ASSUME l = 0 PROVE FALSE
      OBVIOUS
    <3>1. Len(f[l]) = 0
      BY <1>3
    <3>2. p >= 1
      BY <1>6
    <3> QED BY <2>3, <3>1, <3>2
  <2>5. l \in 1 .. n /\ l - 1 \in 0 .. n /\ l - 1 \in 0 .. N /\ ~(l <= l - 1)
    BY <1>1, <2>3, <2>4
  <2>6. l - 1 \notin F
    BY <2>2, <2>5
  <2>7. ~(p <= Len(f[l - 1]))
    BY <2>5, <2>6
  <2>8. Len(f[l - 1]) < p
    <3>1. Len(f[l - 1]) \in Nat /\ p \in Nat
      BY <1>6, <2>5
    <3> QED BY <2>7, <3>1
  <2> QED BY <2>3, <2>5, <2>8
<1>9. Len(f[0]) = 0
  BY <1>3
<1> QED BY <1>1, <1>2, <1>5, <1>6, <1>7, <1>8, <1>9 DEF N, Behind

\* What a style makes of a word, and whether a dash goes before it.
Body(style, parts, m) ==
  IF style = "joined" \/ (style = "camel" /\ m = 1) THEN Lowered(parts[m]) ELSE Title(parts[m])
Gap(style, m) == IF style = "joined" /\ m > 1 THEN 1 ELSE 0

\* The word's runes keep their places in the piece.
LEMMA PieceLies ==
  ASSUME NEW parts \in Seq(Seq(Classes)), NEW style \in Styles \ {"lower"}, NEW m \in 1 .. Len(parts)
  PROVE  /\ parts[m] \in Seq(Classes) /\ Len(parts[m]) \in Nat
         /\ Body(style, parts, m) \in Seq(Classes) /\ Len(Body(style, parts, m)) = Len(parts[m])
         /\ \A k \in 1 .. Len(parts[m]) :
              /\ Body(style, parts, m)[k] \in {ToLower(parts[m][k]), ToUpper(parts[m][k])}
              /\ k > 1 => Body(style, parts, m)[k] = ToLower(parts[m][k])
         /\ style # "joined" /\ m > 1 /\ Len(parts[m]) > 0 =>
              Body(style, parts, m)[1] = ToUpper(parts[m][1])
         /\ style = "joined" => Body(style, parts, m) = Lowered(parts[m])
         /\ Len(Piece(style, parts, m)) = Gap(style, m) + Len(parts[m])
         /\ \A k \in 1 .. Len(parts[m]) : Piece(style, parts, m)[Gap(style, m) + k] = Body(style, parts, m)[k]
         /\ Gap(style, m) = 1 => Piece(style, parts, m)[1] = "dash"
<1> DEFINE t == parts[m]
           B == Body(style, parts, m)
           P == Piece(style, parts, m)
<1>1. t \in Seq(Classes) /\ DOMAIN t = 1 .. Len(t) /\ Len(t) \in Nat
  BY ElementOfSeq
<1>2. Classes \in {Classes, Plain}
  OBVIOUS
<1>3. /\ Lowered(t) \in Seq(Classes) /\ Title(t) \in Seq(Classes)
      /\ Len(Lowered(t)) = Len(t) /\ Len(Title(t)) = Len(t)
      /\ \A k \in 1 .. Len(t) : Lowered(t)[k] = ToLower(t[k])
  <2> HIDE DEF t
  <2> QED BY <1>1, <1>2, Recased
<1>4. \A k \in 1 .. Len(t) : Title(t)[k] = IF k = 1 THEN ToUpper(t[k]) ELSE ToLower(t[k])
  BY <1>1 DEF Title
<1>5. B = (IF style = "joined" \/ (style = "camel" /\ m = 1) THEN Lowered(t) ELSE Title(t))
  BY DEF Body
<1>6. m \in Nat
  OBVIOUS
<1>7. P = IF style = "joined" THEN (IF m > 1 THEN <<"dash">> ELSE << >>) \o Lowered(t) ELSE B
  <2>1. CASE style = "joined"
    BY <2>1 DEF Piece
  <2>2. CASE style = "pascal"
    BY <1>5, <2>2 DEF Piece
  <2>3. CASE style = "camel"
    BY <1>5, <2>3 DEF Piece
  <2> QED BY <2>1, <2>2, <2>3 DEF Styles
<1> DEFINE l == Lowered(t)
           z == Title(t)
<1>8. /\ l \in Seq(Classes) /\ Len(l) = Len(t) /\ z \in Seq(Classes) /\ Len(z) = Len(t)
      /\ \A k \in 1 .. Len(t) : l[k] = ToLower(t[k])
      /\ \A k \in 1 .. Len(t) : z[k] = IF k = 1 THEN ToUpper(t[k]) ELSE ToLower(t[k])
      /\ B = (IF style = "joined" \/ (style = "camel" /\ m = 1) THEN l ELSE z)
      /\ P = IF style = "joined" THEN (IF m > 1 THEN <<"dash">> ELSE << >>) \o l ELSE B
  BY <1>3, <1>4, <1>5, <1>7
<1> HIDE DEF l, z, B, P, t
<1>9. /\ B \in Seq(Classes) /\ Len(B) = Len(t)
      /\ \A k \in 1 .. Len(t) : B[k] \in {ToLower(t[k]), ToUpper(t[k])} /\ (k > 1 => B[k] = ToLower(t[k]))
  BY <1>1, <1>8
<1>10. style # "joined" /\ m > 1 /\ Len(t) > 0 => B[1] = ToUpper(t[1])
  BY <1>1, <1>6, <1>8
<1>11. style = "joined" => B = Lowered(t)
  BY <1>8 DEF l
<1>12. /\ Len(P) = Gap(style, m) + Len(t)
       /\ \A k \in 1 .. Len(t) : P[Gap(style, m) + k] = B[k]
       /\ Gap(style, m) = 1 => P[1] = "dash"
  <2>1. CASE style = "joined" /\ m > 1
    <3> DEFINE d == <<"dash">>
    <3>1. d \in Seq(Classes) /\ Len(d) = 1 /\ d[1] = "dash"
      BY DEF Classes
    <3>2. P = d \o l /\ B = l /\ Gap(style, m) = 1
      BY <1>8, <2>1 DEF Gap
    <3> HIDE DEF d
    <3>3. /\ Len(d \o l) = Len(d) + Len(l) /\ Len(l) \in Nat
          /\ \A k \in 1 .. Len(d) : (d \o l)[k] = d[k]
          /\ \A k \in 1 .. Len(l) : (d \o l)[Len(d) + k] = l[k]
      <4>1. \A u, v \in Seq(Classes) :
              /\ Len(u \o v) = Len(u) + Len(v) /\ Len(v) \in Nat
              /\ \A k \in 1 .. Len(u) : (u \o v)[k] = u[k]
              /\ \A k \in 1 .. Len(v) : (u \o v)[Len(u) + k] = v[k]
        <5> HIDE DEF Classes
        <5> QED OBVIOUS
      <4>2. l \in Seq(Classes)
        BY <1>8
      <4> QED BY <3>1, <4>1, <4>2
    <3>4. 1 \in 1 .. Len(d) /\ Len(d) = 1
      BY <3>1
    <3> QED BY <1>8, <3>1, <3>2, <3>3, <3>4
  <2>2. CASE style = "joined" /\ ~(m > 1)
    <3>1. P = << >> \o l /\ B = l /\ Gap(style, m) = 0
      BY <1>8, <2>2 DEF Gap
    <3>2. << >> \o l = l
      BY <1>8, ConcatEmptySeq
    <3>3. P = B /\ Gap(style, m) = 0
      BY <3>1, <3>2
    <3> QED BY <1>1, <1>9, <3>3
  <2>3. CASE style # "joined"
    <3>1. P = B /\ Gap(style, m) = 0
      BY <1>8, <2>3 DEF Gap
    <3> QED BY <1>1, <1>9, <3>1
  <2> QED BY <2>1, <2>2, <2>3
<1> QED BY <1>1, <1>9, <1>10, <1>11, <1>12 DEF B, P, t

\* The words lie in what a style writes from a[m] to b[m] - 1.
Lies(a, b, style, parts) ==
  /\ \A m \in 1 .. Len(parts) :
       /\ a[m] \in Nat \ {0} /\ b[m] = a[m] + Len(parts[m]) /\ b[m] <= Len(text) + 1
       /\ \A k \in 1 .. Len(parts[m]) : text[a[m] + k - 1] = Body(style, parts, m)[k]
  /\ \A m \in 2 .. Len(parts) : a[m] = b[m - 1] + Gap(style, m)
  /\ \A m, n \in 1 .. Len(parts) : m < n => b[m] <= a[n]
  /\ \A p \in 1 .. Len(text) : ~IsSeparator(p) => \E m \in 1 .. Len(parts) : a[m] <= p /\ p < b[m]

\* There are such places.
LEMMA WrittenLies ==
  ASSUME NEW t, NEW parts \in Seq(Seq(Classes)), NEW style \in Styles \ {"lower"},
         text = Written(style, t, parts)
  PROVE  \E a, b : Lies(a, b, style, parts)
<1> DEFINE s == Pieces(style, parts)
           N == Len(parts)
<1>1. s \in Seq(Seq(Classes)) /\ Len(s) = N /\ \A m \in 1 .. N : s[m] = Piece(style, parts, m)
  BY PiecesTyped
<1>2. text = FlattenSeq(s) /\ N \in Nat
  BY WritesPieces
<1> HIDE DEF s
<1>3. PICK f : Unrolls(f, s)
  BY <1>1, FlattenUnrolls
<1>4. /\ text = f[N] /\ Len(f[0]) = 0
      /\ \A m \in 0 .. N : Len(f[m]) \in Nat
      /\ \A m \in 1 .. N : Len(f[m]) = Len(f[m - 1]) + Len(s[m])
      /\ \A m \in 1 .. N : \A n \in m .. N :
           /\ Len(f[m]) <= Len(f[n])
           /\ \A k \in 1 .. Len(s[m]) : f[n][Len(f[m - 1]) + k] = s[m][k]
      /\ \A p \in 1 .. Len(f[N]) : \E m \in 1 .. N : Len(f[m - 1]) < p /\ p <= Len(f[m])
  <2>1. Behind(f, s, Classes)
    BY <1>1, <1>3, FlattenLies
  <2>2. N \in 0 .. N
    BY <1>2
  <2> HIDE DEF N
  <2> QED BY <1>1, <1>2, <2>1, <2>2 DEF Behind
<1> DEFINE L == [m \in 0 .. N |-> Len(f[m])]
           a == [m \in 1 .. N |-> L[m - 1] + 1 + Gap(style, m)]
           b == [m \in 1 .. N |-> L[m] + 1]
<1> HIDE DEF N
<1>5. \A m \in 0 .. N : L[m] = Len(f[m]) /\ L[m] \in Nat
  BY <1>4
<1> HIDE DEF L
<1>6. \A m \in 1 .. N : a[m] = L[m - 1] + 1 + Gap(style, m) /\ b[m] = L[m] + 1
  OBVIOUS
<1> HIDE DEF a, b
<1>7. \A m \in 1 .. N : m \in 0 .. N /\ m - 1 \in 0 .. N /\ m \in m .. N /\ N \in m .. N /\ m \in Nat
  BY <1>2
<1>8. \A m \in 1 .. N : Gap(style, m) \in {0, 1} /\ (m = 1 => Gap(style, m) = 0)
  BY <1>2 DEF Gap
<1>9. \A m \in 1 .. N : /\ Len(parts[m]) \in Nat
                        /\ L[m] = L[m - 1] + (Gap(style, m) + Len(parts[m]))
                        /\ L[m] <= Len(text)
  <2> SUFFICES ASSUME NEW m \in 1 .. N
               PROVE  /\ Len(parts[m]) \in Nat
                      /\ L[m] = L[m - 1] + (Gap(style, m) + Len(parts[m]))
                      /\ L[m] <= Len(text)
    OBVIOUS
  <2>1. Len(parts[m]) \in Nat /\ Len(s[m]) = Gap(style, m) + Len(parts[m])
    BY <1>1, PieceLies DEF N
  <2>2. Len(f[m]) = Len(f[m - 1]) + Len(s[m]) /\ Len(f[m]) <= Len(f[N])
    BY <1>4, <1>7
  <2>3. L[m] = Len(f[m]) /\ L[m - 1] = Len(f[m - 1])
    BY <1>5, <1>7
  <2> QED BY <1>4, <2>1, <2>2, <2>3
<1>10. ASSUME NEW m \in 1 .. N
       PROVE  /\ a[m] \in Nat \ {0} /\ b[m] = a[m] + Len(parts[m]) /\ b[m] <= Len(text) + 1
              /\ \A k \in 1 .. Len(parts[m]) : text[a[m] + k - 1] = Body(style, parts, m)[k]
  <2>1. L[m - 1] \in Nat /\ L[m] \in Nat /\ Gap(style, m) \in Nat /\ Len(parts[m]) \in Nat
    <3>1. m \in 0 .. N /\ m - 1 \in 0 .. N
      BY <1>7
    <3>2. L[m - 1] \in Nat /\ L[m] \in Nat
      BY <1>5, <3>1
    <3>3. Gap(style, m) \in Nat
      BY <1>8
    <3> QED BY <1>9, <3>2, <3>3
  <2>2. L[m] = L[m - 1] + (Gap(style, m) + Len(parts[m])) /\ L[m] <= Len(text) /\ Len(text) \in Nat
    BY <1>2, <1>4, <1>9
  <2>3. a[m] = L[m - 1] + 1 + Gap(style, m) /\ b[m] = L[m] + 1
    BY <1>6
  <2>4. a[m] \in Nat \ {0} /\ b[m] = a[m] + Len(parts[m]) /\ b[m] <= Len(text) + 1
    <3> DEFINE x == L[m - 1]
               y == L[m]
               g == Gap(style, m)
               z == Len(parts[m])
    <3>1. /\ x \in Nat /\ y \in Nat /\ g \in Nat /\ z \in Nat /\ y = x + (g + z) /\ y <= Len(text)
          /\ Len(text) \in Nat /\ a[m] = x + 1 + g /\ b[m] = y + 1
      BY <2>1, <2>2, <2>3
    <3> HIDE DEF x, y, g, z
    <3>2. a[m] \in Nat \ {0} /\ b[m] = a[m] + z /\ b[m] <= Len(text) + 1
      BY <3>1
    <3> QED BY <3>2 DEF z
  <2>5. ASSUME NEW k \in 1 .. Len(parts[m]) PROVE text[a[m] + k - 1] = Body(style, parts, m)[k]
    <3> DEFINE j == Gap(style, m) + k
    <3>1. j \in 1 .. Gap(style, m) + Len(parts[m]) /\ a[m] + k - 1 = L[m - 1] + j
      <4> DEFINE x == L[m - 1]
                 g == Gap(style, m)
                 z == Len(parts[m])
      <4>1. /\ x \in Nat /\ g \in Nat /\ z \in Nat /\ a[m] = x + 1 + g /\ k \in 1 .. z /\ j = g + k
        BY <2>1, <2>3
      <4> HIDE DEF j, x, g, z
      <4>2. j \in 1 .. g + z /\ a[m] + k - 1 = x + j
        BY <4>1
      <4> QED BY <4>2 DEF x, g, z
    <3>2. Len(s[m]) = Gap(style, m) + Len(parts[m]) /\ s[m][j] = Body(style, parts, m)[k]
      BY <1>1, PieceLies DEF N
    <3> HIDE DEF j
    <3>3. f[N][Len(f[m - 1]) + j] = s[m][j]
      BY <1>4, <1>7, <3>1, <3>2
    <3>4. L[m - 1] = Len(f[m - 1])
      BY <1>5, <1>7
    <3> QED BY <1>4, <3>1, <3>2, <3>3, <3>4
  <2> QED BY <2>4, <2>5
<1>11. \A m \in 2 .. N : a[m] = b[m - 1] + Gap(style, m)
  <2> SUFFICES ASSUME NEW m \in 2 .. N PROVE a[m] = b[m - 1] + Gap(style, m)
    OBVIOUS
  <2>1. m \in 1 .. N /\ m - 1 \in 1 .. N
    BY <1>2
  <2>2. a[m] = L[m - 1] + 1 + Gap(style, m) /\ b[m - 1] = L[m - 1] + 1
    BY <1>6, <2>1
  <2>3. L[m - 1] \in Nat /\ Gap(style, m) \in Nat
    BY <1>5, <1>7, <1>8, <2>1
  <2> QED BY <2>2, <2>3
<1>12. \A m, n \in 1 .. N : m < n => b[m] <= a[n]
  <2> SUFFICES ASSUME NEW m \in 1 .. N, NEW n \in 1 .. N, m < n PROVE b[m] <= a[n]
    OBVIOUS
  <2>1. n - 1 \in m .. N /\ n - 1 \in 0 .. N
    BY <1>2
  <2>2. Len(f[m]) <= Len(f[n - 1])
    BY <1>4, <2>1
  <2>3. L[m] = Len(f[m]) /\ L[n - 1] = Len(f[n - 1]) /\ L[m] \in Nat /\ L[n - 1] \in Nat
    BY <1>5, <1>7, <2>1
  <2>4. b[m] = L[m] + 1 /\ a[n] = L[n - 1] + 1 + Gap(style, n) /\ Gap(style, n) \in {0, 1}
    BY <1>6, <1>8
  <2> QED BY <2>2, <2>3, <2>4
<1>13. ASSUME NEW p \in 1 .. Len(text), ~IsSeparator(p)
       PROVE  \E m \in 1 .. N : a[m] <= p /\ p < b[m]
  <2>1. PICK m \in 1 .. N : Len(f[m - 1]) < p /\ p <= Len(f[m])
    BY <1>4
  <2>2. /\ L[m - 1] = Len(f[m - 1]) /\ L[m] = Len(f[m]) /\ L[m - 1] \in Nat /\ L[m] \in Nat
        /\ a[m] = L[m - 1] + 1 + Gap(style, m) /\ b[m] = L[m] + 1
    BY <1>5, <1>6, <1>7
  <2>3. L[m - 1] < p /\ p <= L[m] /\ p \in Nat
    BY <2>1, <2>2
  <2>4. p < b[m]
    BY <2>2, <2>3
  <2>5. a[m] <= p
    <3>1. CASE Gap(style, m) = 0
      BY <2>2, <2>3, <3>1
    <3>2. CASE Gap(style, m) = 1
      <4>1. p # L[m - 1] + 1
        <5> SUFFICES ASSUME p = L[m - 1] + 1 PROVE FALSE
          OBVIOUS
        <5>1. s[m][1] = "dash" /\ Len(s[m]) = Gap(style, m) + Len(parts[m]) /\ Len(parts[m]) \in Nat
          <6>1. s[m] = Piece(style, parts, m) /\ m \in 1 .. Len(parts)
            BY <1>1 DEF N
          <6>2. Gap(style, m) = 1 => Piece(style, parts, m)[1] = "dash"
            BY <6>1, PieceLies
          <6>3. Len(Piece(style, parts, m)) = Gap(style, m) + Len(parts[m]) /\ Len(parts[m]) \in Nat
            BY <6>1, PieceLies
          <6> QED BY <3>2, <6>1, <6>2, <6>3
        <5>2. 1 \in 1 .. Len(s[m])
          BY <3>2, <5>1
        <5>3. f[N][Len(f[m - 1]) + 1] = s[m][1]
          BY <1>4, <1>7, <5>2
        <5>4. text[p] = "dash"
          BY <1>4, <2>2, <5>1, <5>3
        <5> QED BY <1>13, <5>4 DEF IsSeparator
      <4> QED BY <2>2, <2>3, <3>2, <4>1
    <3> QED BY <1>8, <3>1, <3>2
  <2> QED BY <2>4, <2>5
<1>14. Lies(a, b, style, parts)
  BY <1>10, <1>11, <1>12, <1>13 DEF Lies, N
<1> QED BY <1>14

\* None is empty, holds a separator, or mixes digits and others.
Worded(parts) ==
  \A m \in 1 .. Len(parts) :
    /\ Len(parts[m]) > 0
    /\ \A k \in 1 .. Len(parts[m]) : parts[m][k] \notin {"dash", "dot"}
    /\ \A k, l \in 1 .. Len(parts[m]) : (parts[m][k] = "digit" <=> parts[m][l] = "digit")

\* Dashes keep the words apart, or capitals and digits do.
Apart(style, parts) ==
  \/ style = "joined"
  \/ /\ \A m \in 1 .. Len(parts) : Marked(parts[m])
     /\ \A m \in 2 .. Len(parts) : ~(parts[m][1] = "digit" /\ parts[m - 1][1] = "digit")

\* The runes of a written word: no separator, digits if the word is of digits,
\* and no capital but the first.
LEMMA RuneOf ==
  ASSUME NEW parts \in Seq(Seq(Classes)), NEW style \in Styles \ {"lower"}, NEW a, NEW b,
         Lies(a, b, style, parts), Worded(parts), NEW m \in 1 .. Len(parts), NEW p \in a[m] .. b[m] - 1
  PROVE  /\ ~IsSeparator(p)
         /\ (IsDigit(p) <=> parts[m][1] = "digit")
         /\ p > a[m] => ~IsUpper(p)
<1> DEFINE k == p - a[m] + 1
           n == Len(parts[m])
           c == parts[m][k]
<1>1. a[m] \in Nat \ {0} /\ b[m] = a[m] + n /\ n \in Nat /\ parts[m] \in Seq(Classes)
  BY PieceLies DEF Lies
<1>2. k \in 1 .. n /\ a[m] + k - 1 = p /\ (p > a[m] => k > 1) /\ 1 \in 1 .. n
  <2> DEFINE x == a[m]
             y == b[m]
  <2>1. x \in Nat \ {0} /\ n \in Nat /\ y = x + n /\ p \in x .. y - 1 /\ k = p - x + 1
    BY <1>1
  <2> HIDE DEF n, k, x, y
  <2>2. k \in 1 .. n /\ x + k - 1 = p /\ (p > x => k > 1) /\ 1 \in 1 .. n
    BY <2>1
  <2> QED BY <2>2 DEF x
<1>3. text[p] = Body(style, parts, m)[k]
  <2> HIDE DEF k, n
  <2>1. text[a[m] + k - 1] = Body(style, parts, m)[k]
    BY <1>2 DEF Lies, n
  <2> QED BY <1>2, <2>1
<1>4. c \in Classes /\ c \notin {"dash", "dot"} /\ (c = "digit" <=> parts[m][1] = "digit")
  <2> HIDE DEF k
  <2>1. c \in Classes
    BY <1>1, <1>2, ElementOfSeq
  <2> QED BY <1>2, <2>1 DEF Worded
<1>5. text[p] \in {ToLower(c), ToUpper(c)} /\ (p > a[m] => text[p] = ToLower(c))
  <2> HIDE DEF k
  <2>1. Body(style, parts, m)[k] \in {ToLower(c), ToUpper(c)} /\ (k > 1 => Body(style, parts, m)[k] = ToLower(c))
    BY <1>2, PieceLies
  <2> QED BY <1>2, <1>3, <2>1
<1> HIDE DEF k, c
<1>6. ~IsSeparator(p)
  BY <1>4, <1>5 DEF IsSeparator, ToLower, ToUpper, Classes
<1>7. IsDigit(p) <=> c = "digit"
  BY <1>4, <1>5 DEF IsDigit, ToLower, ToUpper, Classes
<1>8. p > a[m] => ~IsUpper(p)
  BY <1>4, <1>5 DEF IsUpper, ToLower, Classes
<1>9. (IsDigit(p) <=> parts[m][1] = "digit")
  BY <1>4, <1>7
<1> QED BY <1>6, <1>8, <1>9

\* So the written words cut the text.
LEMMA LiesCuts ==
  ASSUME text \in Seq(Classes), NEW parts \in Seq(Seq(Classes)), NEW style \in Styles \ {"lower"},
         NEW a, NEW b, Lies(a, b, style, parts), Worded(parts), Apart(style, parts)
  PROVE  Cutting(a, b, Len(parts))
<1> DEFINE N == Len(parts)
<1>1. N \in Nat /\ Len(text) \in Nat
  OBVIOUS
<1>2. ASSUME NEW m \in 1 .. N
      PROVE  /\ a[m] \in 1 .. Len(text) /\ b[m] \in 2 .. Len(text) + 1 /\ a[m] < b[m]
             /\ Len(parts[m]) \in Nat /\ Len(parts[m]) > 0 /\ b[m] = a[m] + Len(parts[m])
  <2> DEFINE n == Len(parts[m])
  <2>1. a[m] \in Nat \ {0} /\ b[m] = a[m] + n /\ n \in Nat /\ n > 0 /\ b[m] <= Len(text) + 1
    BY PieceLies DEF Lies, Worded
  <2> HIDE DEF n, N
  <2>2. a[m] \in 1 .. Len(text) /\ b[m] \in 2 .. Len(text) + 1 /\ a[m] < b[m]
    BY <1>1, <2>1
  <2> QED BY <2>1, <2>2 DEF n
<1>3. \A m \in 1 .. N : \A p \in a[m] .. b[m] - 1 :
        /\ ~IsSeparator(p) /\ (IsDigit(p) <=> parts[m][1] = "digit") /\ (p > a[m] => ~IsUpper(p))
  BY RuneOf
<1> HIDE DEF N
<1>4. ASSUME NEW m \in 1 .. N PROVE IsWord(a[m], b[m])
  <2>1. \A p, q \in a[m] .. b[m] - 1 : IsDigit(p) = IsDigit(q)
    <3> SUFFICES ASSUME NEW p \in a[m] .. b[m] - 1, NEW q \in a[m] .. b[m] - 1
                 PROVE  IsDigit(p) = IsDigit(q)
      OBVIOUS
    <3>1. IsDigit(p) <=> IsDigit(q)
      BY <1>3
    <3> QED BY <3>1 DEF IsDigit
  <2>2. \A p \in a[m] + 1 .. b[m] - 1 : ~IsUpper(p)
    <3> SUFFICES ASSUME NEW p \in a[m] + 1 .. b[m] - 1 PROVE ~IsUpper(p)
      OBVIOUS
    <3>1. a[m] \in Nat /\ b[m] \in Nat
      BY <1>1, <1>2
    <3>2. p \in a[m] .. b[m] - 1 /\ p > a[m]
      BY <3>1
    <3> QED BY <1>3, <3>2
  <2> QED BY <2>1, <2>2 DEF IsWord
<1>5. ASSUME NEW m \in 2 .. N, b[m - 1] = a[m] PROVE ~IsWord(a[m - 1], b[m])
  <2>1. m \in 1 .. N /\ m - 1 \in 1 .. N /\ m > 1
    BY <1>1
  <2>2. style # "joined"
    <3> SUFFICES ASSUME style = "joined" PROVE FALSE
      OBVIOUS
    <3>1. a[m] = b[m - 1] + Gap(style, m) /\ Gap(style, m) = 1
      BY <2>1 DEF Lies, Gap, N
    <3>2. b[m - 1] \in Nat
      BY <1>1, <1>2, <2>1
    <3> QED BY <1>5, <3>1, <3>2
  <2>3. Marked(parts[m]) /\ ~(parts[m][1] = "digit" /\ parts[m - 1][1] = "digit")
    BY <2>1, <2>2 DEF Apart, N
  <2> DEFINE t == a[m]
             x == a[m - 1]
             y == b[m]
  <2>4. x \in Nat /\ t \in Nat /\ y \in Nat /\ x < t /\ t < y /\ y <= Len(text) + 1 /\ b[m - 1] = t
    BY <1>1, <1>2, <1>5, <2>1
  <2>5. /\ t \in x .. y - 1 /\ t - 1 \in x .. y - 1 /\ t \in x + 1 .. y - 1
        /\ t \in a[m] .. b[m] - 1 /\ t - 1 \in a[m - 1] .. b[m - 1] - 1
    <3> HIDE DEF x, t, y
    <3>1. t \in x .. y - 1 /\ t - 1 \in x .. y - 1 /\ t \in x + 1 .. y - 1
      BY <2>4
    <3>2. t \in t .. y - 1 /\ t - 1 \in x .. t - 1
      BY <2>4
    <3> QED BY <2>4, <3>1, <3>2 DEF x, t, y
  <2>6. CASE parts[m][1] = "digit"
    <3>1. IsDigit(t) /\ ~IsDigit(t - 1)
      BY <1>3, <2>1, <2>3, <2>5, <2>6
    <3> HIDE DEF x, t, y
    <3>2. ~(IsDigit(t) = IsDigit(t - 1))
      BY <3>1
    <3>3. ~IsWord(x, y)
      BY <2>5, <3>2 DEF IsWord
    <3> QED BY <3>3 DEF x, y
  <2>7. CASE parts[m][1] # "digit"
    <3>1. /\ Len(parts[m]) > 1 /\ parts[m][1] \in {"upper", "lower"}
          /\ parts[m][2] \in {"upper", "lower", "variant"}
      BY <2>3, <2>7 DEF Marked
    <3> DEFINE n == Len(parts[m])
    <3>2. n \in Nat /\ n > 1 /\ b[m] = t + n
      BY <1>2, <2>1, <3>1
    <3>3. 1 \in 1 .. n /\ 2 \in 1 .. n /\ t + 1 - 1 = t /\ t + 2 - 1 = t + 1 /\ t < Len(text)
      <4> HIDE DEF n, t
      <4> QED BY <1>1, <2>4, <3>2 DEF y
    <3>4. Body(style, parts, m)[1] = ToUpper(parts[m][1]) /\ Body(style, parts, m)[2] = ToLower(parts[m][2])
      <4>0. m \in 1 .. Len(parts) /\ Len(parts[m]) > 0 /\ m > 1
        BY <1>2, <2>1 DEF N
      <4>1. style # "joined" /\ m > 1 /\ Len(parts[m]) > 0 => Body(style, parts, m)[1] = ToUpper(parts[m][1])
        BY <4>0, PieceLies
      <4>2. \A k \in 1 .. Len(parts[m]) : k > 1 => Body(style, parts, m)[k] = ToLower(parts[m][k])
        BY <4>0, PieceLies
      <4>3. Body(style, parts, m)[1] = ToUpper(parts[m][1])
        BY <2>2, <4>0, <4>1
      <4>4. Body(style, parts, m)[2] = ToLower(parts[m][2])
        <5>1. 2 \in 1 .. Len(parts[m]) /\ 2 > 1
          BY <3>3
        <5> QED BY <4>2, <5>1
      <4> QED BY <4>3, <4>4
    <3>5. \A k \in 1 .. n : text[t + k - 1] = Body(style, parts, m)[k]
      BY <2>1 DEF Lies, N
    <3> HIDE DEF n, t
    <3>6. text[t] = Body(style, parts, m)[1] /\ text[t + 1] = Body(style, parts, m)[2]
      BY <3>3, <3>5
    <3>7. IsUpper(t) /\ IsLower(t + 1)
      BY <3>1, <3>4, <3>6 DEF IsUpper, IsLower, ToUpper, ToLower
    <3> HIDE DEF x, y
    <3>8. ~IsWord(x, y)
      BY <2>5, <3>3, <3>7 DEF IsWord
    <3> QED BY <3>8 DEF x, y
  <2> QED BY <2>6, <2>7
<1>6. /\ \A m, n \in 1 .. N : m < n => b[m] <= a[n]
      /\ \A p \in 1 .. Len(text) : ~IsSeparator(p) => \E m \in 1 .. N : a[m] <= p /\ p < b[m]
  BY DEF Lies, N
<1> QED BY <1>1, <1>2, <1>3, <1>4, <1>5, <1>6 DEF Cutting, N

\* And splitting what was written gives the words as they were written.
LEMMA ComeBack ==
  ASSUME Inv, Split, start = 0, NEW t, NEW parts \in Seq(Seq(Classes)), NEW style \in Styles \ {"lower"},
         text = Written(style, t, parts), Worded(parts), Apart(style, parts)
  PROVE  Parts = [m \in DOMAIN parts |-> Body(style, parts, m)]
<1> DEFINE N == Len(parts)
           c == [m \in 1 .. Len(words) |-> words[m].from]
           d == [m \in 1 .. Len(words) |-> words[m].to]
<1>1. text \in Seq(Classes) /\ Len(text) \in Nat /\ N \in Nat /\ DOMAIN parts = 1 .. N
  BY WordsTyped DEF Inv, TypeOK
<1>2. PICK a, b : Lies(a, b, style, parts)
  BY WrittenLies
<1>3. Cutting(a, b, N)
  BY <1>1, <1>2, LiesCuts
<1>4. Cutting(c, d, Len(words))
  BY WordsCut
<1>5. \A m \in 1 .. Len(words) : c[m] = words[m].from /\ d[m] = words[m].to
  OBVIOUS
<1> HIDE DEF c, d, N
<1>6. N <= Len(words) /\ \A m \in 1 .. N : a[m] = c[m] /\ b[m] = d[m]
  BY <1>1, <1>3, <1>4, SameWords
<1>7. Len(words) <= N
  BY <1>1, <1>3, <1>4, SameWords
<1>8. Len(words) = N
  <2>1. Len(words) \in Nat
    BY WordsTyped DEF Inv
  <2> QED BY <1>1, <1>6, <1>7, <2>1
<1>9. /\ Parts \in Seq(Seq(Classes)) /\ Len(Parts) = N
      /\ \A m \in 1 .. N : Parts[m] = SubSeq(text, words[m].from, words[m].to - 1)
  BY <1>1, <1>8, PartsTyped
<1>10. ASSUME NEW m \in 1 .. N PROVE Parts[m] = Body(style, parts, m)
  <2> DEFINE x == a[m]
             y == b[m] - 1
             n == Len(parts[m])
             B == Body(style, parts, m)
             u == SubSeq(text, x, y)
  <2>1. Parts[m] = u
    <3>1. words[m].from = a[m] /\ words[m].to = b[m]
      BY <1>5, <1>6, <1>8
    <3> QED BY <1>9, <3>1
  <2>2. B \in Seq(Classes) /\ Len(B) = n /\ n \in Nat
    BY PieceLies DEF N
  <2>3. x \in Nat \ {0} /\ b[m] = x + n /\ b[m] <= Len(text) + 1 /\ \A k \in 1 .. n : text[x + k - 1] = B[k]
    BY <1>2 DEF Lies, N
  <2>4. x \in 1 .. Len(text) /\ y \in 1 .. Len(text) /\ y - x + 1 = n /\ x <= y
    <3>1. x \in 1 .. Len(text) /\ x < b[m]
      BY <1>3 DEF Cutting
    <3> HIDE DEF x, n
    <3> QED BY <1>1, <2>2, <2>3, <3>1
  <2> HIDE DEF B, n, y, x
  <2>5. u \in Seq(Classes) /\ Len(u) = n /\ \A k \in 1 .. n : u[k] = text[x + k - 1]
    BY <1>1, <2>4
  <2> HIDE DEF u
  <2>6. \A k \in 1 .. n : u[k] = B[k]
    BY <2>3, <2>5
  <2>7. u = B
    BY <2>2, <2>5, <2>6, SeqEqual
  <2> QED BY <2>1, <2>7 DEF B
<1>11. Parts = [m \in 1 .. N |-> Parts[m]]
  BY <1>9
<1>12. [m \in 1 .. N |-> Parts[m]] = [m \in 1 .. N |-> Body(style, parts, m)]
  BY <1>10
<1> QED BY <1>1, <1>11, <1>12

\* The words splitWords returns are such words.
LEMMA PartsWorded ==
  ASSUME Inv
  PROVE  Worded(Parts)
<1>1. Len(words) \in Nat /\ DOMAIN words = 1 .. Len(words) /\ Len(text) \in Nat /\ text \in Seq(Classes)
  BY WordsTyped DEF Inv, TypeOK
<1>2. Len(Parts) = Len(words) /\ \A m \in 1 .. Len(words) : Parts[m] = SubSeq(text, words[m].from, words[m].to - 1)
  BY <1>1, PartsTyped
<1> SUFFICES ASSUME NEW m \in 1 .. Len(words)
             PROVE  /\ Len(Parts[m]) > 0
                    /\ \A k \in 1 .. Len(Parts[m]) : Parts[m][k] \notin {"dash", "dot"}
                    /\ \A k, l \in 1 .. Len(Parts[m]) : (Parts[m][k] = "digit" <=> Parts[m][l] = "digit")
  BY <1>2 DEF Worded
<1> DEFINE x == words[m].from
           y == words[m].to
           u == SubSeq(text, x, y - 1)
<1>3. x \in 1 .. Len(text) /\ y \in 2 .. Len(text) + 1 /\ x < y
  BY <1>1, WordsTyped DEF Inv, Partition
<1>4. \A p \in x .. y - 1 : ~IsSeparator(p)
  BY <1>1 DEF Inv, Partition
<1>5. \A p, q \in x .. y - 1 : IsDigit(p) = IsDigit(q)
  BY <1>1 DEF Inv, WordsAreWords, IsWord
<1>6. Parts[m] = u
  BY <1>2
<1> HIDE DEF x, y
<1>7. Len(u) = y - x /\ Len(u) > 0 /\ \A k \in 1 .. Len(u) : u[k] = text[x + k - 1]
  BY <1>1, <1>3
<1> HIDE DEF u
<1>8. \A k \in 1 .. Len(u) : x + k - 1 \in x .. y - 1
  BY <1>3, <1>7
<1>9. \A k \in 1 .. Len(u) : u[k] \notin {"dash", "dot"}
  BY <1>4, <1>7, <1>8 DEF IsSeparator
<1>10. ASSUME NEW k \in 1 .. Len(u), NEW l \in 1 .. Len(u) PROVE (u[k] = "digit" <=> u[l] = "digit")
  <2>1. IsDigit(x + k - 1) = IsDigit(x + l - 1)
    BY <1>5, <1>8
  <2> QED BY <1>7, <2>1 DEF IsDigit
<1> QED BY <1>6, <1>7, <1>9, <1>10

\* The text is what the style made last of the words it was given.
MadeLast ==
  past # << >> =>
    /\ Worded(past[Len(past)].parts)
    /\ text = Written(past[Len(past)].style, past[Len(past)].text, past[Len(past)].parts)

\* It is after any step.
LEMMA LastKeeps == KeysInv /\ MadeLast /\ [KeysNext]_keyVars => MadeLast'
<1>1. ASSUME MadeLast, text' = text, past' = past PROVE MadeLast'
  BY <1>1 DEF MadeLast
<1>2. (Next \/ UNCHANGED vars) => text' = text
  BY DEF Next, Separator, Begin, Break, Extend, Return, vars
<1>3. ASSUME NEW style \in Styles, KeysInv, Render(style) PROVE MadeLast'
  <2> DEFINE e == [text |-> text, parts |-> Parts, style |-> style]
  <2>1. past' = Append(past, e) /\ text' = Written(style, text, Parts)
    BY <1>3 DEF Render
  <2>2. e.text = text /\ e.parts = Parts /\ e.style = style /\ e \in Entry
    BY <1>3, EntryTyped
  <2> HIDE DEF e
  <2>3. past'[Len(past')] = e
    <3>1. past \in Seq(Entry)
      BY <1>3 DEF KeysInv
    <3> QED BY <2>1, <2>2, <3>1
  <2>4. Worded(Parts)
    BY <1>3, PartsWorded DEF KeysInv
  <2>5. Worded(e.parts) /\ text' = Written(e.style, e.text, e.parts)
    BY <2>1, <2>2, <2>4
  <2>6. Worded(past'[Len(past')].parts)
    BY <2>3, <2>5
  <2> QED BY <2>3, <2>5, <2>6 DEF MadeLast
<1> QED BY <1>1, <1>2, <1>3 DEF KeysNext, keyVars

\* Whatever is so of the entry last made holds throughout.
LEMMA LastHolds == KeysSpec => [](KeysInv /\ MadeLast)
<1>1. KeysInit => KeysInv /\ MadeLast
  BY KeysInitially DEF KeysInit, MadeLast
<1>2. KeysInv /\ MadeLast /\ [KeysNext]_keyVars => (KeysInv /\ MadeLast)'
  BY KeysNextKeeps, LastKeeps
<1> QED BY <1>1, <1>2, PTL DEF KeysSpec

\* What the last style made of the words is what splitting finds, if the style
\* keeps them apart.
LEMMA FoundAgain ==
  ASSUME KeysInv, MadeLast, Split, past # << >>, past[Len(past)].style # "lower",
         Apart(past[Len(past)].style, past[Len(past)].parts)
  PROVE  /\ past[Len(past)].parts \in Seq(Seq(Classes)) /\ past[Len(past)].style \in Styles \ {"lower"}
         /\ Parts = [m \in DOMAIN past[Len(past)].parts |->
                       Body(past[Len(past)].style, past[Len(past)].parts, m)]
<1> DEFINE e == past[Len(past)]
<1>1. e \in Entry /\ Inv /\ start = 0
  BY DEF KeysInv
<1>2. text = Written(e.style, e.text, e.parts) /\ Worded(e.parts)
  BY DEF MadeLast
<1> HIDE DEF e
<1>3. e.parts \in Seq(Seq(Classes)) /\ e.style \in Styles
  BY <1>1 DEF Entry
<1>4. e.style # "lower" /\ Apart(e.style, e.parts)
  BY DEF e
<1>5. Parts = [m \in DOMAIN e.parts |-> Body(e.style, e.parts, m)]
  <2> DEFINE q == e.parts
             z == e.style
             t == e.text
  <2>1. q \in Seq(Seq(Classes)) /\ z \in Styles \ {"lower"} /\ text = Written(z, t, q) /\ Worded(q) /\ Apart(z, q)
    BY <1>2, <1>3, <1>4
  <2> HIDE DEF q, z, t
  <2>2. Parts = [m \in DOMAIN q |-> Body(z, q, m)]
    BY <1>1, <2>1, ComeBack
  <2> QED BY <2>2 DEF q, z
<1> QED BY <1>3, <1>4, <1>5 DEF e

\* Of every text: a key of SnakeCase or KebabCase, split, is the words of the
\* name it was made of, lowered; made again, it is the same key.
THEOREM JoinedComesBack == KeysSpec => []JoinedKeepsWords
<1>1. KeysInv /\ MadeLast => JoinedKeepsWords
  <2> SUFFICES ASSUME KeysInv, MadeLast, Split, past # << >>, past[Len(past)].style = "joined"
               PROVE  Parts = [n \in DOMAIN past[Len(past)].parts |-> Lowered(past[Len(past)].parts[n])]
    BY DEF JoinedKeepsWords
  <2> DEFINE e == past[Len(past)]
  <2>1. Parts = [m \in DOMAIN e.parts |-> Body(e.style, e.parts, m)]
    BY FoundAgain DEF Apart
  <2>2. \A m \in DOMAIN e.parts : Body(e.style, e.parts, m) = Lowered(e.parts[m])
    BY DEF Body
  <2> HIDE DEF e
  <2>3. Parts = [m \in DOMAIN e.parts |-> Lowered(e.parts[m])]
    BY <2>1, <2>2
  <2> QED BY <2>3 DEF e
<1> QED BY <1>1, LastHolds, PTL

\* Lowering a word of a name where capitals show it does not depend on the case
\* it was written in.
LEMMA LoweredBody ==
  ASSUME NEW parts \in Seq(Seq(Classes)), NEW style \in Styles \ {"lower"}, NEW m \in 1 .. Len(parts),
         Marked(parts[m])
  PROVE  Lowered(Body(style, parts, m)) = Lowered(Lowered(parts[m]))
<1> DEFINE t == parts[m]
           B == Body(style, parts, m)
           l == Lowered(t)
<1>1. /\ t \in Seq(Classes) /\ Len(t) \in Nat /\ B \in Seq(Classes) /\ Len(B) = Len(t)
      /\ \A k \in 1 .. Len(t) : B[k] \in {ToLower(t[k]), ToUpper(t[k])} /\ (k > 1 => B[k] = ToLower(t[k]))
  BY PieceLies
<1>2. t[1] \in {"upper", "lower", "digit"}
  BY DEF Marked
<1>3. Classes \in {Classes, Plain}
  OBVIOUS
<1> HIDE DEF B, t
<1>4. l \in Seq(Classes) /\ Len(l) = Len(t) /\ \A k \in 1 .. Len(t) : l[k] = ToLower(t[k])
  BY <1>1, <1>3, Recased
<1>5. DOMAIN B = 1 .. Len(t) /\ DOMAIN l = 1 .. Len(t)
  BY <1>1, <1>4
<1>6. ASSUME NEW k \in 1 .. Len(t) PROVE ToLower(B[k]) = ToLower(l[k])
  <2>1. CASE k = 1
    BY <1>1, <1>2, <1>4, <2>1 DEF ToLower, ToUpper
  <2>2. CASE k # 1
    BY <1>1, <1>4, <2>2
  <2> QED BY <2>1, <2>2
<1> HIDE DEF l
<1>7. Lowered(B) = Lowered(l)
  BY <1>5, <1>6 DEF Lowered
<1> QED BY <1>7 DEF B, l, t

\* Of every text whose words each show a capital and do not touch in digits: a
\* key of CamelCase or PascalCase gives the SnakeCase of the name it was made of.
THEOREM CapitalsComeBack == KeysSpec => []CapitalsKeepWords
<1>1. KeysInv /\ MadeLast => CapitalsKeepWords
  <2> DEFINE e == past[Len(past)]
             q == e.parts
  <2> SUFFICES ASSUME KeysInv, MadeLast, Split, past # << >>, e.style \in {"camel", "pascal"},
                      \A n \in DOMAIN q : Marked(q[n]),
                      \A n \in DOMAIN q \ {1} : ~(q[n][1] = "digit" /\ q[n - 1][1] = "digit")
               PROVE  Joined(Parts) = Joined([n \in DOMAIN q |-> Lowered(q[n])])
    BY DEF CapitalsKeepWords
  <2>0. q \in Seq(Seq(Classes))
    <3>1. e \in Entry
      BY DEF KeysInv
    <3> HIDE DEF e
    <3> QED BY <3>1 DEF Entry
  <2>1. Apart(e.style, q)
    <3>1. \A m \in 1 .. Len(q) : Marked(q[m])
      BY <2>0
    <3>2. \A m \in 2 .. Len(q) : m \in DOMAIN q \ {1}
      BY <2>0
    <3> QED BY <3>1, <3>2 DEF Apart
  <2>2. e.style \in Styles \ {"lower"} /\ e.style # "lower"
    BY DEF Styles
  <2>3. Parts = [m \in DOMAIN q |-> Body(e.style, q, m)]
    BY <2>1, <2>2, FoundAgain
  <2> DEFINE r == [n \in DOMAIN q |-> Lowered(q[n])]
             p == Parts
  <2> HIDE DEF e
  <2>4. DOMAIN q = 1 .. Len(q)
    BY <2>0
  <2>5. \A m \in DOMAIN q : Lowered(Body(e.style, q, m)) = Lowered(Lowered(q[m]))
    BY <2>0, <2>2, <2>4, LoweredBody
  <2>6. DOMAIN p = DOMAIN q /\ DOMAIN r = DOMAIN q
    BY <2>3
  <2>7. \A m \in DOMAIN q : Lowered(p[m]) = Lowered(r[m])
    BY <2>3, <2>5
  <2> HIDE DEF p, q, r
  <2>8. Joined(p) = Joined(r)
    <3> DEFINE d(m) == IF m > 1 THEN <<"dash">> ELSE << >>
    <3>1. \A m \in DOMAIN q : d(m) \o Lowered(p[m]) = d(m) \o Lowered(r[m])
      BY <2>7
    <3> HIDE DEF d
    <3>2. [m \in DOMAIN p |-> d(m) \o Lowered(p[m])] = [m \in DOMAIN r |-> d(m) \o Lowered(r[m])]
      BY <2>6, <3>1
    <3> QED BY <3>2 DEF Joined, d
  <2> QED BY <2>8 DEF p, r
<1> QED BY <1>1, LastHolds, PTL

=============================================================================
