--------------------------- MODULE StructInfoProofs ---------------------------
(***************************************************************************)
(* Proofs about the analysis of struct types, for every set of types that  *)
(* inline each other in any way and every configuration.                   *)
(***************************************************************************)
EXTENDS Promotion, SequenceTheorems, FiniteSetTheorems, WellFoundedInduction, TLAPS

-----------------------------------------------------------------------------
(* The type invariant.                                                     *)

\* The fields of a struct are a list.
LEMMA DeclaredIsList ==
  ASSUME NEW w \in Worlds, NEW t \in DOMAIN w.types
  PROVE  Len(w.types[t]) \in Nat /\ DOMAIN w.types[t] = 1 .. Len(w.types[t])
<1>1. w.types[t] \in Seq({w.types[t][n] : n \in DOMAIN w.types[t]})
  BY WorldsAssumption DEF IsSequence
<1> QED BY <1>1

\* What a turn looks at is a declared field of a known type.
LEMMA TurnFacts ==
  ASSUME TypeOK, ~Done, at <= Len(Declared)
  PROVE  /\ Head(level) = level[1] /\ level[1] \in Queued(world)
         /\ Walked \in DOMAIN world.types
         /\ at \in DOMAIN Declared /\ Sf \in Decls(world)
         /\ Index \in Seq(Nat)
<1>1. Head(level) = level[1] /\ level[1] \in Queued(world)
  BY DEF TypeOK, Done
<1>2. Walked \in DOMAIN world.types /\ Head(level).index \in Seq(Nat)
  BY <1>1 DEF Walked, Queued
<1>3. Declared \in Seq({Declared[n] : n \in DOMAIN Declared})
  BY <1>2, WorldsAssumption DEF TypeOK, Declared, IsSequence
<1>4. at \in DOMAIN Declared
  BY <1>3 DEF TypeOK
<1>5. Sf \in Decls(world)
  BY <1>2, <1>4 DEF Sf, Declared, Decls
<1> QED BY <1>1, <1>2, <1>4, <1>5 DEF Index, TypeOK

\* Every step keeps the types.
LEMMA TypeStep == TypeOK /\ [Next]_vars => TypeOK'
<1> SUFFICES ASSUME TypeOK, [Next]_vars PROVE TypeOK'
  OBVIOUS
<1>1. CASE UNCHANGED vars
  BY <1>1 DEF TypeOK, vars
<1>2. CASE SkipField
  BY <1>2 DEF SkipField, Turn, KeepFields, KeepQueue, TypeOK
<1>3. ASSUME NEW kind \in {"tag", "remain"}, Turn, Report(kind), KeepFields, KeepQueue
      PROVE  TypeOK'
  <2>1. <<Walked, at, kind>> \in (DOMAIN world.types) \X Nat \X {"tag", "remain"}
    BY <1>3, TurnFacts DEF Turn, TypeOK
  <2>2. errs' \in Seq((DOMAIN world.types) \X Nat \X {"tag", "remain"})
    BY <1>3, <2>1 DEF Report, TypeOK
  <2> QED BY <1>3, <2>2 DEF Turn, KeepFields, KeepQueue, TypeOK
<1>4. CASE RefuseField
  BY <1>3, <1>4 DEF RefuseField
<1>5. CASE RemainAgain
  BY <1>3, <1>5 DEF RemainAgain
<1>6. CASE InlineAgain
  BY <1>6 DEF InlineAgain, Turn, KeepFields, KeepQueue, TypeOK
<1>7. CASE InlineField
  <2>1. Sf.base \in DOMAIN world.types /\ Index \in Seq(Nat)
    BY <1>7, TurnFacts DEF InlineField, Turn, Inlined, IsStruct
  <2>2. [typ |-> Sf.base, index |-> Index] \in Queued(world)
    BY <2>1 DEF Queued
  <2>3. next' \in Seq(Queued(world))
    BY <1>7, <2>2 DEF InlineField, TypeOK
  <2>4. expanded' \in [DOMAIN expanded' -> Seq(Nat)] /\ DOMAIN expanded' \subseteq DOMAIN world.types
    BY <1>7, <2>1 DEF InlineField, TypeOK
  <2> QED BY <1>7, <2>3, <2>4 DEF InlineField, Turn, KeepFields, TypeOK
<1>8. ASSUME Turn
      PROVE  FieldInfo(world, Sf, Index) \in Infos(world)
  BY <1>8, TurnFacts DEF Turn, FieldInfo, Infos
<1>9. CASE ClaimRemain
  <2>1. fields' \in Seq(Infos(world)) /\ Len(fields') = Len(fields) + 1
    BY <1>8, <1>9 DEF ClaimRemain, TypeOK
  <2>2. byName' \in [DOMAIN byName' -> DOMAIN fields'] /\ byNorm' \in [DOMAIN byNorm' -> DOMAIN fields']
    BY <1>9, <2>1 DEF ClaimRemain, TypeOK
  <2> QED BY <1>9, <2>1, <2>2 DEF ClaimRemain, Turn, KeepQueue, TypeOK
<1>10. CASE AddField
  <2>1. CASE KeepFields
    BY <1>10, <2>1 DEF AddField, Turn, KeepFields, KeepQueue, TypeOK
  <2>2. CASE ~KeepFields
    <3>1. fields' = Append(fields, FieldInfo(world, Sf, Index)) /\ UNCHANGED remain
      BY <1>10, <2>2 DEF AddField
    <3>2. fields' \in Seq(Infos(world)) /\ Len(fields') = Len(fields) + 1
      BY <1>8, <1>10, <3>1 DEF AddField, TypeOK
    <3>3. byName' \in [DOMAIN byName' -> DOMAIN fields']
      BY <1>10, <2>2, <3>2 DEF AddField, TypeOK
    <3>4. byNorm' \in [DOMAIN byNorm' -> DOMAIN fields']
      BY <1>10, <2>2, <3>2 DEF AddField, TypeOK
    <3> QED BY <1>10, <3>1, <3>2, <3>3, <3>4 DEF AddField, Turn, KeepQueue, TypeOK
  <2> QED BY <2>1, <2>2
<1>11. CASE NextStruct
  <2>1. level' \in Seq(Queued(world)) /\ next' \in Seq(Queued(world))
    BY <1>11 DEF NextStruct, TypeOK
  <2> QED BY <1>11, <2>1 DEF NextStruct, KeepFields, TypeOK
<1>12. CASE Rest
  BY <1>12 DEF Rest, TypeOK, vars
<1> QED
  BY <1>1, <1>2, <1>4, <1>5, <1>6, <1>7, <1>9, <1>10, <1>11, <1>12 DEF Next

\* The first state has them.
LEMMA TypeInit == Init => TypeOK
<1> SUFFICES ASSUME Init PROVE TypeOK
  OBVIOUS
<1>1. world \in Worlds /\ world.root \in DOMAIN world.types
  BY WorldsAssumption DEF Init
<1>2. level \in Seq(Queued(world))
  <2>1. [typ |-> world.root, index |-> << >>] \in Queued(world)
    BY <1>1 DEF Queued
  <2> QED BY <2>1 DEF Init
<1> QED BY <1>1, <1>2 DEF Init, TypeOK

\* The analysis stays within the types it was given: its paths are sequences
\* of field numbers, its two indexes lead to fields it kept.
THEOREM TypeCorrect == Spec => []TypeOK
<1> QED BY TypeInit, TypeStep, PTL DEF Spec

-----------------------------------------------------------------------------
(* The order of index paths.                                               *)

\* The order of index paths is transitive.
LEMMA PrecedesTransitive ==
  ASSUME NEW p \in Seq(Nat), NEW q \in Seq(Nat), NEW r \in Seq(Nat),
         Precedes(p, q), Precedes(q, r)
  PROVE  Precedes(p, r)
<1>1. CASE Len(p) < Len(q) \/ Len(q) < Len(r)
  BY <1>1 DEF Precedes
<1>2. CASE Len(p) = Len(q) /\ Len(q) = Len(r)
  <2>1. PICK m \in DOMAIN p : p[m] < q[m] /\ \A k \in 1 .. m - 1 : p[k] = q[k]
    BY <1>2 DEF Precedes
  <2>2. PICK n \in DOMAIN q : q[n] < r[n] /\ \A k \in 1 .. n - 1 : q[k] = r[k]
    BY <1>2 DEF Precedes
  <2>3. m \in 1 .. Len(p) /\ n \in 1 .. Len(p)
    BY <1>2
  <2>4. \A k \in 1 .. Len(p) : p[k] \in Nat /\ q[k] \in Nat /\ r[k] \in Nat
    BY <1>2
  <2>5. CASE m < n
    <3>0. m \in 1 .. n - 1
      BY <2>3, <2>5
    <3>1. p[m] < r[m]
      <4>1. q[m] = r[m] /\ p[m] < q[m]
        BY <2>1, <2>2, <3>0
      <4> QED BY <4>1
    <3>2. \A k \in 1 .. m - 1 : p[k] = r[k]
      BY <2>1, <2>2, <2>3, <2>5
    <3> QED BY <1>2, <3>1, <3>2 DEF Precedes
  <2>6. CASE m = n
    <3>1. p[m] < r[m]
      BY <2>1, <2>2, <2>3, <2>4, <2>6
    <3>2. \A k \in 1 .. m - 1 : p[k] = r[k]
      BY <2>1, <2>2, <2>3, <2>6
    <3> QED BY <1>2, <3>1, <3>2 DEF Precedes
  <2>7. CASE n < m
    <3>0. n \in 1 .. m - 1
      BY <2>3, <2>7
    <3>1. p[n] < r[n]
      <4>1. p[n] = q[n] /\ q[n] < r[n]
        BY <2>1, <2>2, <3>0
      <4> QED BY <4>1
    <3>2. \A k \in 1 .. n - 1 : p[k] = r[k]
      BY <2>1, <2>2, <2>3, <2>7
    <3> QED BY <1>2, <2>3, <3>1, <3>2 DEF Precedes
  <2> QED BY <2>3, <2>5, <2>6, <2>7
<1> QED BY <1>1, <1>2 DEF Precedes

\* A field of an earlier type of a level, and an earlier field of one type.
LEMMA PrecedesBelow ==
  ASSUME NEW p \in Seq(Nat), NEW q \in Seq(Nat), NEW i \in Nat, NEW j \in Nat,
         Len(p) = Len(q), Precedes(p, q)
  PROVE  Precedes(Append(p, i), Append(q, j))
<1>1. PICK n \in DOMAIN p : p[n] < q[n] /\ \A k \in 1 .. n - 1 : p[k] = q[k]
  BY DEF Precedes
<1>2. n \in 1 .. Len(p) /\ n \in DOMAIN Append(p, i) /\ Len(Append(p, i)) = Len(Append(q, j))
  <2>1. n \in 1 .. Len(p) /\ DOMAIN Append(p, i) = 1 .. Len(p) + 1
    OBVIOUS
  <2> QED BY <2>1, AppendProperties
<1>3. \A k \in 1 .. n : Append(p, i)[k] = p[k] /\ Append(q, j)[k] = q[k]
  BY <1>2, AppendProperties
<1>4. Append(p, i)[n] < Append(q, j)[n] /\ \A k \in 1 .. n - 1 : Append(p, i)[k] = Append(q, j)[k]
  BY <1>1, <1>3
<1> QED BY <1>2, <1>4 DEF Precedes

\* Of two fields of one struct the one declared first comes first.
LEMMA PrecedesAt ==
  ASSUME NEW p \in Seq(Nat), NEW i \in Nat, NEW j \in Nat, i < j
  PROVE  Precedes(Append(p, i), Append(p, j))
<1>1. /\ Len(Append(p, i)) = Len(Append(p, j)) /\ Len(p) + 1 \in DOMAIN Append(p, i)
      /\ Append(p, i)[Len(p) + 1] < Append(p, j)[Len(p) + 1]
      /\ \A k \in 1 .. Len(p) : Append(p, i)[k] = Append(p, j)[k]
  OBVIOUS
<1> QED BY <1>1 DEF Precedes


-----------------------------------------------------------------------------
(* The walk goes through the index paths in their order.                   *)

Here == Append(level[1].index, at)

\* What is queued was expanded, at the path it is queued with; a level is of
\* one depth and the next one of the depth below.
QueueInv ==
  /\ level = << >> => next = << >>
  /\ world.root \in DOMAIN expanded
  /\ \A m \in DOMAIN level :
       /\ level[m].typ \in DOMAIN expanded /\ expanded[level[m].typ] = level[m].index
       /\ Len(level[m].index) = Len(level[1].index)
  /\ \A n \in DOMAIN next :
       /\ next[n].typ \in DOMAIN expanded /\ expanded[next[n].typ] = next[n].index
       /\ Len(next[n].index) = Len(level[1].index) + 1

\* Everything found so far comes before the field that is looked at.
Before == /\ \A t \in DOMAIN expanded : Precedes(expanded[t], Here)
          /\ \A n \in DOMAIN fields : Precedes(fields[n].index, Here)

Sorted(queue) == \A m, n \in DOMAIN queue : m < n => Precedes(queue[m].index, queue[n].index)
OrderInv == Sorted(level) /\ Sorted(next) /\ InOrder /\ (level # << >> => Before)

WalkInv == TypeOK /\ QueueInv /\ OrderInv

\* The walk starts with the root in the queue.
LEMMA WalkInit == Init => WalkInv
<1> SUFFICES ASSUME Init PROVE WalkInv
  OBVIOUS
<1>1. TypeOK
  BY TypeInit
<1>2. level[1] = [typ |-> world.root, index |-> << >>] /\ DOMAIN level = {1}
      /\ level # << >> /\ next = << >> /\ fields = << >> /\ DOMAIN next = {} /\ DOMAIN fields = {}
  BY DEF Init
<1>3. DOMAIN expanded = {world.root} /\ expanded[world.root] = << >>
  BY DEF Init
<1>4. QueueInv
  BY <1>2, <1>3 DEF QueueInv
<1>5. Precedes(<< >>, Here)
  <2>1. Here = Append(<< >>, 1)
    BY <1>2 DEF Here, Init
  <2>2. << >> \in Seq(Nat) /\ Len(<< >>) = 0 /\ Len(Append(<< >>, 1)) = 1
    OBVIOUS
  <2> QED BY <2>1, <2>2 DEF Precedes
<1> QED BY <1>1, <1>2, <1>3, <1>4, <1>5 DEF WalkInv, OrderInv, Sorted, Before, InOrder

\* The paths of a state are sequences of numbers.
LEMMA PathsAreSeqs ==
  ASSUME TypeOK
  PROVE  /\ \A t \in DOMAIN expanded : expanded[t] \in Seq(Nat)
         /\ \A n \in DOMAIN fields : fields[n].index \in Seq(Nat)
         /\ \A m \in DOMAIN level : level[m].index \in Seq(Nat)
         /\ \A m \in DOMAIN next : next[m].index \in Seq(Nat)
         /\ level # << >> => level[1].index \in Seq(Nat) /\ 1 \in DOMAIN level /\ Here \in Seq(Nat)
<1>1. \A n \in DOMAIN fields : fields[n] \in Infos(world)
  BY DEF TypeOK
<1>2. \A m \in DOMAIN level : level[m] \in Queued(world)
  BY DEF TypeOK
<1>3. \A m \in DOMAIN next : next[m] \in Queued(world)
  BY DEF TypeOK
<1>4. level # << >> => 1 \in DOMAIN level
  BY DEF TypeOK
<1> QED BY <1>1, <1>2, <1>3, <1>4 DEF TypeOK, Infos, Queued, Here

\* One field on: what came before it comes before the next, and so does it.
LEMMA Advance ==
  ASSUME TypeOK, level # << >>, at' = at + 1, level' = level, NEW p \in Seq(Nat),
         p = Here \/ Precedes(p, Here)
  PROVE  Precedes(p, Here')
<1>1. Here' = Append(level[1].index, at + 1)
  BY DEF Here
<1>2. level[1].index \in Seq(Nat) /\ Here \in Seq(Nat) /\ at \in Nat
  BY PathsAreSeqs DEF TypeOK
<1>3. Here' \in Seq(Nat)
  BY <1>1, <1>2
<1>4. Precedes(Here, Here')
  BY <1>1, <1>2, PrecedesAt DEF Here
<1> QED BY <1>2, <1>3, <1>4, PrecedesTransitive


\* A turn that queues nothing and keeps at most one more field.
LEMMA WalkTurn ==
  ASSUME WalkInv, TypeOK', Turn, UNCHANGED <<level, next, expanded, world>>,
         \/ fields' = fields
         \/ fields' = Append(fields, FieldInfo(world, Sf, Index))
  PROVE  QueueInv' /\ OrderInv'
<1>1. level # << >> /\ at' = at + 1 /\ level' = level /\ TypeOK
  BY DEF Turn, Done, WalkInv
<1>2. QueueInv'
  BY DEF WalkInv, QueueInv
<1>3. Sorted(level)' /\ Sorted(next)'
  BY DEF WalkInv, OrderInv, Sorted
<1>4. Before
  BY <1>1 DEF WalkInv, OrderInv
<1>5. \A t \in DOMAIN expanded' : Precedes(expanded[t], Here)'
  BY <1>1, <1>4, Advance, PathsAreSeqs DEF Before
<1>6. CASE fields' = fields
  <2>1. \A n \in DOMAIN fields' : Precedes(fields[n].index, Here)'
    BY <1>1, <1>4, <1>6, Advance, PathsAreSeqs DEF Before
  <2> QED BY <1>2, <1>3, <1>5, <1>6, <2>1 DEF WalkInv, OrderInv, InOrder, Before
<1>7. CASE fields' = Append(fields, FieldInfo(world, Sf, Index))
  <2>1. Index = Here /\ Here \in Seq(Nat)
    BY <1>1, TurnFacts, PathsAreSeqs DEF Index, Here, Turn
  <2>2. /\ DOMAIN fields' = 1 .. Len(fields) + 1 /\ Len(fields) \in Nat
        /\ \A n \in 1 .. Len(fields) : fields'[n] = fields[n]
        /\ fields'[Len(fields) + 1].index = Here
    BY <1>1, <1>7, <2>1 DEF TypeOK, FieldInfo
  <2>3. \A n \in 1 .. Len(fields) : Precedes(fields[n].index, Here) /\ fields[n].index \in Seq(Nat)
    BY <1>1, <1>4, <2>2, PathsAreSeqs DEF Before, TypeOK
  <2>4. \A n \in DOMAIN fields' : Precedes(fields'[n].index, Here')
    <3>1. \A n \in 1 .. Len(fields) : Precedes(fields'[n].index, Here')
      BY <1>1, <2>2, <2>3, Advance
    <3>2. Precedes(Here, Here')
      BY <1>1, <2>1, Advance
    <3> QED BY <2>2, <3>1, <3>2
  <2>5. InOrder'
    <3> SUFFICES ASSUME NEW m \in DOMAIN fields', NEW n \in DOMAIN fields', m < n
                 PROVE  Precedes(fields'[m].index, fields'[n].index)
      BY DEF InOrder
    <3>1. CASE n = Len(fields) + 1
      BY <2>2, <2>3, <3>1
    <3>2. CASE n \in 1 .. Len(fields)
      <4>1. m \in DOMAIN fields /\ n \in DOMAIN fields
        BY <1>1, <2>2, <3>2 DEF TypeOK
      <4> QED BY <2>2, <3>2, <4>1 DEF WalkInv, OrderInv, InOrder
    <3> QED BY <2>2, <3>1, <3>2
  <2> QED BY <1>2, <1>3, <1>5, <2>4, <2>5 DEF OrderInv, Before
<1> QED BY <1>6, <1>7

\* The type of an inlined field is queued behind all others.
LEMMA WalkInline ==
  ASSUME WalkInv, TypeOK', InlineField
  PROVE  QueueInv' /\ OrderInv'
<1>1. /\ level # << >> /\ at' = at + 1 /\ UNCHANGED <<level, fields>> /\ TypeOK
      /\ Sf.base \notin DOMAIN expanded
      /\ DOMAIN expanded' = DOMAIN expanded \union {Sf.base}
      /\ next' = Append(next, [typ |-> Sf.base, index |-> Index])
  BY DEF InlineField, Turn, Done, WalkInv, KeepFields
<1>2. /\ Index = Here /\ Here \in Seq(Nat) /\ Len(Here) = Len(level[1].index) + 1
      /\ [typ |-> Sf.base, index |-> Index] \in Queued(world)
  <2>1. Index = Here /\ Here \in Seq(Nat)
    BY <1>1, TurnFacts, PathsAreSeqs DEF Index, Here, InlineField, Turn
  <2>2. Len(Here) = Len(level[1].index) + 1
    BY <1>1, PathsAreSeqs DEF Here, TypeOK
  <2> QED BY <1>1, <2>1, <2>2, TurnFacts DEF InlineField, Turn, Inlined, IsStruct, Queued, TypeOK
<1>3. /\ expanded'[Sf.base] = Here
      /\ \A t \in DOMAIN expanded : expanded'[t] = expanded[t]
  BY <1>1, <1>2 DEF InlineField
<1>4. /\ DOMAIN next' = 1 .. Len(next) + 1 /\ Len(next) \in Nat /\ DOMAIN next = 1 .. Len(next)
      /\ \A n \in 1 .. Len(next) : next'[n] = next[n]
      /\ next'[Len(next) + 1] = [typ |-> Sf.base, index |-> Here]
  <2> DEFINE q == [typ |-> Sf.base, index |-> Here]
             W == Queued(world)
  <2>1. q \in W /\ next' = Append(next, q)
    BY <1>1, <1>2
  <2>2. next \in Seq(W)
    BY <1>1 DEF TypeOK
  <2> HIDE DEF q, W
  <2>3. /\ DOMAIN next' = 1 .. Len(next) + 1 /\ Len(next) \in Nat /\ DOMAIN next = 1 .. Len(next)
        /\ \A n \in 1 .. Len(next) : next'[n] = next[n]
        /\ next'[Len(next) + 1] = q
    BY <2>1, <2>2
  <2> QED BY <2>3 DEF q
<1>5. Before
  BY <1>1 DEF WalkInv, OrderInv
<1>6. QueueInv'
  <2>1. \A n \in DOMAIN next' :
           /\ next'[n].typ \in DOMAIN expanded' /\ expanded'[next'[n].typ] = next'[n].index
           /\ Len(next'[n].index) = Len(level[1].index) + 1
    <3>1. \A n \in 1 .. Len(next) :
             /\ next[n].typ \in DOMAIN expanded /\ expanded[next[n].typ] = next[n].index
             /\ Len(next[n].index) = Len(level[1].index) + 1
      BY <1>4 DEF WalkInv, QueueInv
    <3>2. \A n \in 1 .. Len(next) :
             /\ next'[n].typ \in DOMAIN expanded' /\ expanded'[next'[n].typ] = next'[n].index
             /\ Len(next'[n].index) = Len(level[1].index) + 1
      BY <1>1, <1>3, <1>4, <3>1
    <3>3. next'[Len(next) + 1].typ = Sf.base /\ next'[Len(next) + 1].index = Here
      BY <1>4
    <3>4. Sf.base \in DOMAIN expanded' /\ expanded'[Sf.base] = Here /\ Len(Here) = Len(level[1].index) + 1
      BY <1>1, <1>2, <1>3
    <3> SUFFICES ASSUME NEW n \in DOMAIN next'
                 PROVE  /\ next'[n].typ \in DOMAIN expanded' /\ expanded'[next'[n].typ] = next'[n].index
                        /\ Len(next'[n].index) = Len(level[1].index) + 1
      OBVIOUS
    <3>5. CASE n = Len(next) + 1
      BY <3>3, <3>4, <3>5
    <3> QED BY <1>4, <3>2, <3>5
  <2>2. \A m \in DOMAIN level' :
           /\ level'[m].typ \in DOMAIN expanded' /\ expanded'[level'[m].typ] = level'[m].index
           /\ Len(level'[m].index) = Len(level'[1].index)
    BY <1>1, <1>3 DEF WalkInv, QueueInv
  <2>3. world'.root \in DOMAIN expanded' /\ level' # << >> /\ level' = level
    BY <1>1 DEF WalkInv, QueueInv, InlineField
  <2> QED BY <2>1, <2>2, <2>3 DEF QueueInv
<1>7. Before'
  <2>1. \A t \in DOMAIN expanded : Precedes(expanded'[t], Here')
    BY <1>1, <1>3, <1>5, Advance, PathsAreSeqs DEF Before
  <2>2. Precedes(expanded'[Sf.base], Here')
    BY <1>1, <1>2, <1>3, Advance
  <2>3. \A n \in DOMAIN fields : Precedes(fields[n].index, Here')
    BY <1>1, <1>5, Advance, PathsAreSeqs DEF Before
  <2> QED BY <1>1, <2>1, <2>2, <2>3 DEF Before
<1>8. Sorted(next)'
  <2> SUFFICES ASSUME NEW m \in DOMAIN next', NEW n \in DOMAIN next', m < n
               PROVE  Precedes(next'[m].index, next'[n].index)
    BY DEF Sorted
  <2>1. CASE n = Len(next) + 1
    <3>1. m \in DOMAIN next
      BY <1>4, <2>1
    <3>2. Precedes(next[m].index, Here)
      BY <1>5, <3>1 DEF Before, WalkInv, QueueInv
    <3> QED BY <1>4, <2>1, <3>1, <3>2
  <2>2. CASE n \in 1 .. Len(next)
    BY <1>4, <2>2 DEF WalkInv, OrderInv, Sorted
  <2> QED BY <1>4, <2>1, <2>2
<1>9. Sorted(level)' /\ InOrder'
  BY <1>1 DEF WalkInv, OrderInv, Sorted, InOrder
<1> QED BY <1>6, <1>7, <1>8, <1>9 DEF OrderInv


\* The first field of the next type comes after the fields of this one.
LEMMA NextHere ==
  ASSUME WalkInv, TypeOK', NextStruct, level' # << >>
  PROVE  Here' \in Seq(Nat) /\ Precedes(Here, Here')
<1>1. /\ level # << >> /\ at' = 1 /\ TypeOK
      /\ level' = IF Len(level) > 1 THEN Tail(level) ELSE next
  BY DEF NextStruct, Done, WalkInv
<1>2. /\ level \in Seq(Queued(world)) /\ Len(level) \in Nat /\ Len(level) > 0
      /\ next \in Seq(Queued(world)) /\ at \in Nat
      /\ Here \in Seq(Nat) /\ Len(Here) = Len(level[1].index) + 1
  BY <1>1, PathsAreSeqs DEF TypeOK, Here
<1>3. CASE Len(level) > 1
  <2>1. level'[1] = level[2] /\ 2 \in DOMAIN level /\ 1 \in DOMAIN level
    BY <1>1, <1>2, <1>3
  <2>2. Here' = Append(level[2].index, 1) /\ level[2].index \in Seq(Nat) /\ level[1].index \in Seq(Nat)
    BY <1>1, <2>1, PathsAreSeqs DEF Here
  <2>3. Precedes(level[1].index, level[2].index) /\ Len(level[1].index) = Len(level[2].index)
    BY <2>1 DEF WalkInv, OrderInv, Sorted, QueueInv
  <2> QED BY <1>2, <2>2, <2>3, PrecedesBelow DEF Here
<1>4. CASE ~(Len(level) > 1)
  <2>1. /\ Here' = Append(next[1].index, 1) /\ 1 \in DOMAIN next /\ next[1].index \in Seq(Nat)
        /\ Len(next[1].index) = Len(level[1].index) + 1
    BY <1>1, <1>2, <1>4, PathsAreSeqs DEF Here, WalkInv, QueueInv
  <2>2. Here' \in Seq(Nat) /\ Len(Here') = Len(level[1].index) + 2
    BY <1>1, <2>1, PathsAreSeqs
  <2> QED BY <1>1, <1>2, <2>2, PathsAreSeqs DEF Precedes
<1> QED BY <1>3, <1>4

\* On to the next type of the level, or to the first of the level below.
LEMMA WalkOn ==
  ASSUME WalkInv, TypeOK', NextStruct
  PROVE  QueueInv' /\ OrderInv'
<1>1. /\ level # << >> /\ at' = 1 /\ UNCHANGED <<world, expanded, fields>> /\ TypeOK
      /\ level' = IF Len(level) > 1 THEN Tail(level) ELSE next
      /\ next'  = IF Len(level) > 1 THEN next ELSE << >>
      /\ Before
  BY DEF NextStruct, KeepFields, Done, WalkInv, OrderInv
<1>2. InOrder'
  BY <1>1 DEF WalkInv, OrderInv, InOrder
<1>3. /\ level \in Seq(Queued(world)) /\ Len(level) \in Nat /\ Len(level) > 0
      /\ next \in Seq(Queued(world)) /\ at \in Nat
  BY <1>1 DEF TypeOK
<1>4. /\ \A t \in DOMAIN expanded : expanded[t] \in Seq(Nat) /\ Precedes(expanded[t], Here)
      /\ \A n \in DOMAIN fields : fields[n].index \in Seq(Nat) /\ Precedes(fields[n].index, Here)
      /\ Here \in Seq(Nat) /\ Len(Here) = Len(level[1].index) + 1
  BY <1>1, PathsAreSeqs DEF Before, Here, TypeOK
<1>5. CASE Len(level) > 1
  <2>1. /\ next' = next /\ level' = Tail(level) /\ Len(level') = Len(level) - 1
        /\ \A m \in 1 .. Len(level) - 1 : level'[m] = level[m + 1]
        /\ DOMAIN level' = 1 .. Len(level) - 1 /\ DOMAIN level = 1 .. Len(level)
    BY <1>1, <1>3, <1>5
  <2>2. level' # << >>
    <3>1. Len(level') > 0 /\ Len(<< >>) = 0
      BY <1>3, <1>5, <2>1
    <3> QED BY <3>1
  <2>3. Here' \in Seq(Nat) /\ Precedes(Here, Here')
    BY <2>2, NextHere
  <2>4. Before'
    BY <1>1, <1>4, <2>3, PrecedesTransitive DEF Before
  <2>5. Sorted(level)' /\ Sorted(next)'
    <3>1. \A m, n \in 1 .. Len(level) - 1 : m < n => Precedes(level[m + 1].index, level[n + 1].index)
      BY <1>3, <2>1 DEF WalkInv, OrderInv, Sorted
    <3> QED BY <2>1, <3>1 DEF WalkInv, OrderInv, Sorted
  <2>6. QueueInv'
    <3>1. level'[1] = level[2] /\ Len(level[2].index) = Len(level[1].index) /\ level' # << >>
      <4>1. 1 \in 1 .. Len(level) - 1 /\ 2 \in DOMAIN level
        BY <1>3, <1>5, <2>1
      <4> QED BY <2>1, <2>2, <4>1 DEF WalkInv, QueueInv
    <3>2. \A m \in 1 .. Len(level) - 1 :
            /\ level[m + 1].typ \in DOMAIN expanded /\ expanded[level[m + 1].typ] = level[m + 1].index
            /\ Len(level[m + 1].index) = Len(level[1].index)
      BY <1>3, <2>1 DEF WalkInv, QueueInv
    <3>3. \A m \in DOMAIN level' :
            /\ level'[m].typ \in DOMAIN expanded' /\ expanded'[level'[m].typ] = level'[m].index
            /\ Len(level'[m].index) = Len(level'[1].index)
      BY <1>1, <2>1, <3>1, <3>2
    <3>4. \A n \in DOMAIN next' :
            /\ next'[n].typ \in DOMAIN expanded' /\ expanded'[next'[n].typ] = next'[n].index
            /\ Len(next'[n].index) = Len(level'[1].index) + 1
      BY <1>1, <2>1, <3>1 DEF WalkInv, QueueInv
    <3>5. world'.root \in DOMAIN expanded'
      BY <1>1 DEF WalkInv, QueueInv
    <3> QED BY <3>1, <3>3, <3>4, <3>5 DEF QueueInv
  <2> QED BY <1>2, <2>4, <2>5, <2>6 DEF OrderInv
<1>6. CASE ~(Len(level) > 1)
  <2>1. level' = next /\ next' = << >> /\ DOMAIN next' = {}
    BY <1>1, <1>6
  <2>2. Sorted(level)' /\ Sorted(next)'
    BY <2>1 DEF WalkInv, OrderInv, Sorted
  <2>3. level' # << >> => Before'
    <3> SUFFICES ASSUME next # << >> PROVE Before'
      BY <2>1
    <3>1. Here' \in Seq(Nat) /\ Precedes(Here, Here')
      BY <2>1, NextHere
    <3> QED BY <1>1, <1>4, <3>1, PrecedesTransitive DEF Before
  <2>4. QueueInv'
    <3>1. \A m \in DOMAIN level' : Len(level'[m].index) = Len(level'[1].index)
      BY <1>3, <2>1 DEF WalkInv, QueueInv
    <3>2. \A m \in DOMAIN level' : level'[m].typ \in DOMAIN expanded' /\ expanded'[level'[m].typ] = level'[m].index
      BY <1>1, <2>1 DEF WalkInv, QueueInv
    <3> QED BY <1>1, <2>1, <3>1, <3>2 DEF WalkInv, QueueInv
  <2> QED BY <1>2, <2>2, <2>3, <2>4 DEF OrderInv
<1> QED BY <1>5, <1>6

\* Every step keeps the queue and the fields in order.
LEMMA WalkStep == WalkInv /\ [Next]_vars => WalkInv'
<1> SUFFICES ASSUME WalkInv, [Next]_vars PROVE WalkInv'
  OBVIOUS
<1>1. TypeOK'
  BY TypeStep DEF WalkInv
<1>2. CASE UNCHANGED vars \/ Rest
  BY <1>1, <1>2 DEF Rest, vars, WalkInv, QueueInv, OrderInv, Sorted, InOrder, Before, Here
<1>3. SkipField \/ RefuseField \/ InlineAgain \/ RemainAgain => QueueInv' /\ OrderInv'
  BY <1>1, WalkTurn DEF SkipField, RefuseField, InlineAgain, RemainAgain, KeepQueue, KeepFields
<1>4. ClaimRemain \/ AddField => QueueInv' /\ OrderInv'
  BY <1>1, WalkTurn DEF ClaimRemain, AddField, KeepQueue, KeepFields
<1>5. InlineField \/ NextStruct => QueueInv' /\ OrderInv'
  BY <1>1, WalkInline, WalkOn
<1> QED BY <1>1, <1>2, <1>3, <1>4, <1>5 DEF Next, WalkInv

\* Whatever types inline each other, the fields are kept in the order of their
\* index paths: a field of an inlined struct never comes before, and so never
\* takes a key from, a shallower field or an earlier one.
THEOREM FieldsInOrder == Spec => []InOrder
<1>1. WalkInv => InOrder
  BY DEF WalkInv, OrderInv
<1> QED BY <1>1, WalkInit, WalkStep, PTL DEF Spec


-----------------------------------------------------------------------------
(* Nothing is forgotten, and nothing that was settled is undone.           *)

Extends(new, old) == /\ DOMAIN old \subseteq DOMAIN new
                     /\ \A x \in DOMAIN old : new[x] = old[x]

Grows ==
  /\ world' = world
  /\ Extends(expanded', expanded) /\ Extends(byName', byName) /\ Extends(byNorm', byNorm)
  /\ Extends(fields', fields) /\ Extends(errs', errs)
  /\ remain # 0 => remain' = remain

\* Append leaves what was there.
LEMMA AppendExtends ==
  ASSUME NEW S, NEW s \in Seq(S), NEW x
  PROVE  Extends(Append(s, x), s) /\ Append(s, x)[Len(s) + 1] = x
<1>1. s \in Seq(S \union {x}) /\ x \in S \union {x}
  OBVIOUS
<1> QED BY <1>1, AppendProperties DEF Extends

\* No step takes back a field, an error or a key.
LEMMA StepGrows == TypeOK /\ [Next]_vars => Grows
<1> SUFFICES ASSUME TypeOK, [Next]_vars PROVE Grows
  OBVIOUS
<1> USE DEF Extends
<1>1. CASE UNCHANGED vars \/ Rest
  BY <1>1 DEF Rest, vars, Grows
<1>2. CASE SkipField \/ InlineAgain \/ NextStruct
  BY <1>2 DEF SkipField, InlineAgain, NextStruct, KeepFields, KeepQueue, Grows
<1>3. CASE RefuseField \/ RemainAgain
  <2>1. Extends(errs', errs)
    <3>1. \E e : errs' = Append(errs, e)
      BY <1>3 DEF RefuseField, RemainAgain, Report
    <3>2. errs \in Seq((DOMAIN world.types) \X Nat \X {"tag", "remain"})
      BY DEF TypeOK
    <3> HIDE DEF Extends
    <3> QED BY <3>1, <3>2, AppendExtends
  <2> QED BY <1>3, <2>1 DEF RefuseField, RemainAgain, KeepFields, KeepQueue, Grows
<1>4. CASE InlineField
  BY <1>4 DEF InlineField, KeepFields, Grows
<1>5. CASE ClaimRemain
  <2>1. Extends(fields', fields)
    <3>1. \E x : fields' = Append(fields, x)
      BY <1>5 DEF ClaimRemain
    <3> HIDE DEF Extends
    <3> QED BY <3>1, AppendExtends DEF TypeOK
  <2> QED BY <1>5, <2>1 DEF ClaimRemain, KeepQueue, Grows
<1>6. CASE AddField
  <2>1. CASE KeepFields
    BY <1>6, <2>1 DEF AddField, KeepFields, KeepQueue, Grows
  <2>2. CASE ~KeepFields
    <3>1. Extends(fields', fields)
      <4>1. \E x : fields' = Append(fields, x)
        BY <1>6, <2>2 DEF AddField
      <4> HIDE DEF Extends
      <4> QED BY <4>1, AppendExtends DEF TypeOK
    <3>2. Extends(byName', byName) /\ Extends(byNorm', byNorm)
      BY <1>6, <2>2 DEF AddField
    <3> QED BY <1>6, <2>2, <3>1, <3>2 DEF AddField, KeepQueue, Grows
  <2> QED BY <2>1, <2>2
<1> QED BY <1>1, <1>2, <1>3, <1>4, <1>5, <1>6 DEF Next

\* What is told stays told.
LEMMA ToldStays ==
  ASSUME Grows, NEW CONSTANT t, NEW CONSTANT n, NEW CONSTANT kind, Told(t, n, kind)
  PROVE  Told(t, n, kind)'
BY DEF Told, Grows, Extends

\* What is settled stays settled.
LEMMA SettledStays ==
  ASSUME TypeOK, Grows, NEW CONSTANT t \in DOMAIN expanded, NEW CONSTANT n, NEW CONSTANT p,
         Settled(t, n, p)
  PROVE  Settled(t, n, p)'
<1> DEFINE f == world.types[t][n]
           k == KeyName(world, f)
<1>0. f' = f /\ k' = k /\ world' = world /\ expanded'[t] = expanded[t]
  BY DEF Grows, Extends
<1>1. Inlined(world, f) => f.base \in DOMAIN expanded' /\ AtMost(expanded'[f.base], Append(p, n))
  BY DEF Grows, Extends, Settled
<1>2. ASSUME Claims(world, f) /\ ~Collects(world, f)
      PROVE  /\ k \in DOMAIN byName' /\ fields'[byName'[k]].name = k
             /\ AtMost(fields'[byName'[k]].index, Append(p, n))
             /\ world.cfg.normalizer => /\ Norm[k] \in DOMAIN byNorm'
                                        /\ AtMost(fields'[byNorm'[Norm[k]]].index, Append(p, n))
  <2>1. /\ k \in DOMAIN byName /\ fields[byName[k]].name = k
        /\ AtMost(fields[byName[k]].index, Append(p, n))
        /\ world.cfg.normalizer => /\ Norm[k] \in DOMAIN byNorm
                                   /\ AtMost(fields[byNorm[Norm[k]]].index, Append(p, n))
    BY <1>2 DEF Settled
  <2>2. byName'[k] = byName[k] /\ byName[k] \in DOMAIN fields /\ k \in DOMAIN byName'
    BY <2>1 DEF Grows, Extends, TypeOK
  <2>3. Norm[k] \in DOMAIN byNorm =>
          byNorm'[Norm[k]] = byNorm[Norm[k]] /\ byNorm[Norm[k]] \in DOMAIN fields /\ Norm[k] \in DOMAIN byNorm'
    BY DEF Grows, Extends, TypeOK
  <2>4. \A m \in DOMAIN fields : fields'[m] = fields[m]
    BY DEF Grows, Extends
  <2> QED BY <2>1, <2>2, <2>3, <2>4
<1>3. ASSUME Collects(world, f)
      PROVE  /\ remain' # 0 /\ AtMost(fields'[remain'].index, Append(p, n))
             /\ fields'[remain'].index = Append(expanded'[t], n) \/ Told(t, n, "remain")'
  <2>1. /\ remain # 0 /\ AtMost(fields[remain].index, Append(p, n)) /\ remain' = remain
        /\ fields[remain].index = Append(expanded[t], n) \/ Told(t, n, "remain")
    BY <1>3 DEF Grows, Settled
  <2>2. remain \in DOMAIN fields
    BY <2>1 DEF TypeOK
  <2>3. fields'[remain'] = fields[remain]
    BY <2>1, <2>2 DEF Grows, Extends
  <2>4. Told(t, n, "remain") => Told(t, n, "remain")'
    BY ToldStays
  <2> QED BY <1>0, <2>1, <2>3, <2>4
<1>4. Fails(world, f) => Told(t, n, "tag")'
  BY ToldStays DEF Settled
<1> QED BY <1>0, <1>1, <1>2, <1>3, <1>4 DEF Settled


\* What a key names is a field of that name; its normalized form is taken.
NamesInv ==
  /\ \A k \in DOMAIN byName : fields[byName[k]].name = k
  /\ world.cfg.normalizer => \A k \in DOMAIN byName : Norm[k] \in DOMAIN byNorm

\* Every step keeps the two name tables in agreement.
LEMMA NamesStep == TypeOK /\ NamesInv /\ [Next]_vars => NamesInv'
<1> SUFFICES ASSUME TypeOK, NamesInv, [Next]_vars, NEW k \in DOMAIN byName'
             PROVE  /\ fields'[byName'[k]].name = k
                    /\ world'.cfg.normalizer => Norm[k] \in DOMAIN byNorm'
  BY DEF NamesInv
<1>0. Grows
  BY StepGrows
<1>1. CASE k \in DOMAIN byName
  <2>1. byName[k] \in DOMAIN fields
    BY <1>1 DEF TypeOK
  <2> QED BY <1>0, <1>1, <2>1 DEF Grows, Extends, NamesInv
<1>2. CASE k \notin DOMAIN byName
  <2>1. AddField /\ ~KeepFields
    BY <1>2 DEF Next, vars, Rest, SkipField, RefuseField, InlineField, InlineAgain, ClaimRemain,
                RemainAgain, AddField, NextStruct, KeepFields
  <2>2. /\ k = KeyName(world, Sf) /\ byName'[k] = Len(fields) + 1
        /\ fields' = Append(fields, FieldInfo(world, Sf, Index))
    BY <1>2, <2>1 DEF AddField
  <2>3. fields'[Len(fields) + 1] = FieldInfo(world, Sf, Index)
    BY <2>2, AppendExtends DEF TypeOK
  <2>4. world'.cfg.normalizer => Norm[k] \in DOMAIN byNorm'
    BY <1>0, <2>1, <2>2 DEF AddField, Grows
  <2> QED BY <2>2, <2>3, <2>4 DEF FieldInfo
<1> QED BY <1>1, <1>2

\* A field that is kept is reached by its key and, if it is the first with it,
\* by its normalized key.
LEMMA AddSettles ==
  ASSUME WalkInv, NamesInv, TypeOK', AddField, Index = Here
  PROVE  LET k == KeyName(world, Sf)
         IN  /\ k \in DOMAIN byName' /\ AtMost(fields'[byName'[k]].index, Here)
             /\ world.cfg.normalizer => /\ Norm[k] \in DOMAIN byNorm'
                                        /\ AtMost(fields'[byNorm'[Norm[k]]].index, Here)
<1> DEFINE k == KeyName(world, Sf)
<1>1. TypeOK /\ \A m \in DOMAIN fields : Precedes(fields[m].index, Here)
  BY DEF AddField, Turn, Done, WalkInv, OrderInv, Before
<1>2. /\ \A j \in DOMAIN byName : byName[j] \in DOMAIN fields
      /\ \A j \in DOMAIN byNorm : byNorm[j] \in DOMAIN fields
  BY <1>1 DEF TypeOK
<1>3. CASE k \in DOMAIN byName
  <2>1. fields' = fields /\ byName' = byName /\ byNorm' = byNorm
    BY <1>3 DEF AddField, KeepFields
  <2>2. world.cfg.normalizer => Norm[k] \in DOMAIN byNorm
    BY <1>3 DEF NamesInv
  <2> HIDE DEF k
  <2>3. /\ k \in DOMAIN byName' /\ AtMost(fields'[byName'[k]].index, Here)
        /\ world.cfg.normalizer => /\ Norm[k] \in DOMAIN byNorm'
                                   /\ AtMost(fields'[byNorm'[Norm[k]]].index, Here)
    BY <1>1, <1>2, <1>3, <2>1, <2>2 DEF AtMost
  <2> QED BY <2>3 DEF k
<1>4. CASE k \notin DOMAIN byName
  <2>1. /\ fields' = Append(fields, FieldInfo(world, Sf, Index))
        /\ k \in DOMAIN byName' /\ byName'[k] = Len(fields) + 1
        /\ world.cfg.normalizer =>
             /\ Norm[k] \in DOMAIN byNorm'
             /\ byNorm'[Norm[k]] = IF Norm[k] \in DOMAIN byNorm THEN byNorm[Norm[k]] ELSE Len(fields) + 1
    BY <1>4 DEF AddField
  <2>2. /\ fields'[Len(fields) + 1].index = Here
        /\ \A m \in DOMAIN fields : fields'[m] = fields[m]
    BY <1>1, <2>1, AppendExtends DEF TypeOK, FieldInfo, Extends
  <2> HIDE DEF k
  <2>3. AtMost(fields'[byName'[k]].index, Here)
    BY <2>1, <2>2 DEF AtMost
  <2>4. world.cfg.normalizer => AtMost(fields'[byNorm'[Norm[k]]].index, Here)
    BY <1>1, <1>2, <2>1, <2>2 DEF AtMost
  <2> QED BY <2>1, <2>3, <2>4 DEF k
<1> QED BY <1>3, <1>4

\* A report is told.
LEMMA ReportTells ==
  ASSUME TypeOK, NEW kind, Report(kind), NEW CONSTANT t, NEW CONSTANT n, t = Walked, n = at
  PROVE  Told(t, n, kind)'
<1>1. errs' = Append(errs, <<t, n, kind>>)
  BY DEF Report
<1>2. errs'[Len(errs) + 1] = <<t, n, kind>> /\ Len(errs) + 1 \in DOMAIN errs'
  BY <1>1, AppendExtends DEF TypeOK
<1> QED BY <1>2 DEF Told

\* A turn settles its field.
LEMMA TurnSettles ==
  ASSUME WalkInv, NamesInv, WalkInv', NamesInv', Turn,
         \/ SkipField \/ RefuseField \/ InlineField \/ InlineAgain
         \/ ClaimRemain \/ RemainAgain \/ AddField,
         NEW CONSTANT t, NEW CONSTANT n, NEW CONSTANT p, t = Walked, n = at, p = level[1].index
  PROVE  Settled(t, n, p)'
<1> DEFINE f == world.types[t][n]
<1>1. /\ TypeOK /\ TypeOK' /\ Before /\ Index = Here /\ world' = world /\ level # << >>
      /\ f = Sf /\ f' = f /\ Here = Append(p, n) /\ Walked = level[1].typ
      /\ t \in DOMAIN expanded /\ expanded[t] = p
  <2>1. TypeOK /\ TypeOK' /\ level # << >> /\ Before
    BY DEF WalkInv, OrderInv, Turn, Done
  <2>2. Index = Here /\ Walked = level[1].typ
    BY <2>1, TurnFacts DEF Turn, Index, Here, Walked
  <2>3. world' = world
    BY DEF SkipField, RefuseField, InlineField, InlineAgain, ClaimRemain, RemainAgain, AddField, KeepQueue
  <2>4. t \in DOMAIN expanded /\ expanded[t] = p
    BY <2>1, <2>2, PathsAreSeqs DEF WalkInv, QueueInv
  <2> QED BY <2>1, <2>2, <2>3, <2>4 DEF Sf, Declared, Here
<1> HIDE DEF f
<1>2. CASE SkipField
  <2>1. ~Fails(world, f) /\ ~Inlined(world, f) /\ ~Claims(world, f) /\ ~Collects(world, f)
    BY <1>1, <1>2 DEF SkipField, Skipped, Fails, Claims, Collects, Inlined
  <2> QED BY <1>1, <2>1 DEF Settled, f
<1>3. CASE RefuseField
  <2>1. ~Inlined(world, f) /\ ~Claims(world, f) /\ ~Collects(world, f)
    BY <1>1, <1>3 DEF RefuseField, Fails, Claims, Collects, Inlined
  <2>2. Told(t, n, "tag")'
    BY <1>1, <1>3, ReportTells DEF RefuseField
  <2> QED BY <1>1, <2>1, <2>2 DEF Settled, f
<1>4. CASE InlineField \/ InlineAgain
  <2>1. Inlined(world, f) /\ ~Fails(world, f) /\ ~Claims(world, f) /\ ~Collects(world, f)
    BY <1>1, <1>4 DEF InlineField, InlineAgain, Fails, Claims, Collects, Inlined
  <2>2. f.base \in DOMAIN expanded' /\ AtMost(expanded'[f.base], Here)
    <3>1. CASE InlineField
      BY <1>1, <3>1 DEF InlineField, AtMost
    <3>2. CASE InlineAgain
      BY <1>1, <3>2 DEF InlineAgain, KeepQueue, AtMost, Before
    <3> QED BY <1>4, <3>1, <3>2
  <2> QED BY <1>1, <2>1, <2>2 DEF Settled, f
<1>5. CASE ClaimRemain \/ RemainAgain
  <2>1. Collects(world, f) /\ ~Fails(world, f) /\ ~Inlined(world, f)
    BY <1>1, <1>5 DEF ClaimRemain, RemainAgain, Claims, Collects
  <2>2. /\ remain' # 0 /\ AtMost(fields'[remain'].index, Here)
        /\ fields'[remain'].index = Append(expanded'[t], n) \/ Told(t, n, "remain")'
    <3>1. CASE RemainAgain
      <4>1. Told(t, n, "remain")'
        BY <1>1, <3>1, ReportTells DEF RemainAgain
      <4>2. remain' = remain /\ remain # 0 /\ fields' = fields /\ remain \in DOMAIN fields
        BY <1>1, <3>1 DEF RemainAgain, KeepFields, TypeOK
      <4> QED BY <1>1, <4>1, <4>2 DEF AtMost, Before
    <3>2. CASE ClaimRemain
      <4>1. fields'[Len(fields) + 1] = FieldInfo(world, Sf, Index) /\ remain' = Len(fields) + 1
            /\ expanded' = expanded
        BY <1>1, <3>2, AppendExtends DEF ClaimRemain, KeepQueue, TypeOK
      <4>2. remain' # 0 /\ fields'[remain'].index = Here
        <5>1. Len(fields) \in Nat
          BY <1>1 DEF TypeOK
        <5>2. FieldInfo(world, Sf, Index).index = Here
          BY <1>1 DEF FieldInfo
        <5> QED BY <4>1, <5>1, <5>2
      <4>3. expanded'[t] = p
        BY <1>1, <4>1
      <4>4. fields'[remain'].index = Append(expanded'[t], n) /\ AtMost(fields'[remain'].index, Here)
        BY <1>1, <4>2, <4>3 DEF AtMost
      <4> QED BY <4>2, <4>4
    <3> QED BY <1>5, <3>1, <3>2
  <2> QED BY <1>1, <2>1, <2>2 DEF Settled, f
<1>6. CASE AddField
  <2> DEFINE k == KeyName(world, f)
  <2>1. Claims(world, f) /\ ~Collects(world, f) /\ ~Fails(world, f) /\ ~Inlined(world, f)
    BY <1>1, <1>6 DEF AddField, Claims
  <2>2. /\ k \in DOMAIN byName' /\ AtMost(fields'[byName'[k]].index, Here)
        /\ world.cfg.normalizer => /\ Norm[k] \in DOMAIN byNorm'
                                   /\ AtMost(fields'[byNorm'[Norm[k]]].index, Here)
    BY <1>1, <1>6, AddSettles
  <2>3. fields'[byName'[k]].name = k
    BY <2>2 DEF NamesInv
  <2> QED BY <1>1, <2>1, <2>2, <2>3 DEF Settled, f
<1> QED BY <1>2, <1>3, <1>4, <1>5, <1>6

\* What is settled: the types that are not queued, and of the one that is
\* walked the fields before the one that is looked at.
SettledInv ==
  /\ level # << >> => \A n \in DOMAIN Declared :
       n < at => Settled(level[1].typ, n, level[1].index)
  /\ \A t \in DOMAIN expanded :
       \/ \E m \in DOMAIN level : level[m].typ = t
       \/ \E n \in DOMAIN next : next[n].typ = t
       \/ SettledType(t, expanded[t])


AnalysisInv == WalkInv /\ NamesInv /\ SettledInv

\* A type that is settled at a place stays so.
LEMMA SettledTypeStays ==
  ASSUME TypeOK, Grows, NEW CONSTANT t \in DOMAIN expanded, NEW CONSTANT p, SettledType(t, p)
  PROVE  SettledType(t, p)'
<1> SUFFICES ASSUME NEW CONSTANT n, n \in DOMAIN world.types[t]
             PROVE  Settled(t, n, p)'
  BY DEF SettledType, Grows
<1>1. Settled(t, n, p)
  BY DEF SettledType
<1> QED BY <1>1, SettledStays

\* A turn settles one field more and unsettles none.
LEMMA SettledTurn ==
  ASSUME AnalysisInv, WalkInv', NamesInv', Grows, Turn,
         \/ SkipField \/ RefuseField \/ InlineField \/ InlineAgain
         \/ ClaimRemain \/ RemainAgain \/ AddField
  PROVE  SettledInv'
<1>1. level' = level /\ world' = world /\ at' = at + 1 /\ level # << >> /\ TypeOK
  BY DEF Turn, Done, SkipField, RefuseField, InlineField, InlineAgain, ClaimRemain, RemainAgain,
         AddField, KeepQueue, AnalysisInv, WalkInv
<1>2. /\ Head(level) = level[1] /\ Walked = level[1].typ /\ Declared' = Declared
      /\ at \in DOMAIN Declared /\ at \in Nat /\ DOMAIN Declared \subseteq Nat
  <2>1. Head(level) = level[1] /\ at \in DOMAIN Declared /\ Walked \in DOMAIN world.types
    BY <1>1, TurnFacts DEF Turn
  <2>2. Declared \in Seq({Declared[n] : n \in DOMAIN Declared})
    BY <1>1, <2>1, WorldsAssumption DEF TypeOK, Declared, IsSequence
  <2>3. DOMAIN Declared \subseteq Nat
    BY <2>2
  <2>4. Walked = level[1].typ
    BY <2>1 DEF Walked
  <2>5. Declared' = Declared
    BY <1>1 DEF Walked, Declared
  <2>6. at \in Nat
    BY <1>1 DEF TypeOK
  <2> QED BY <2>1, <2>3, <2>4, <2>5, <2>6
<1>3. ASSUME NEW CONSTANT t, NEW CONSTANT n, NEW CONSTANT p, t = Walked, n = at, p = level[1].index
      PROVE  Settled(t, n, p)'
  BY <1>3, TurnSettles DEF AnalysisInv
<1>4. ASSUME NEW CONSTANT t, NEW CONSTANT n, NEW CONSTANT p, t \in DOMAIN expanded, Settled(t, n, p)
      PROVE  Settled(t, n, p)'
  BY <1>1, <1>4, SettledStays
<1>5. ASSUME NEW n \in DOMAIN Declared, n < at + 1
      PROVE  Settled(level[1].typ, n, level[1].index)'
  <2>1. CASE n = at
    BY <1>1, <1>2, <1>3, <2>1
  <2>2. CASE n < at
    <3>1. Settled(level[1].typ, n, level[1].index)
      BY <1>1, <2>2 DEF AnalysisInv, SettledInv
    <3>2. level[1].typ \in DOMAIN expanded
      BY <1>1, PathsAreSeqs DEF AnalysisInv, WalkInv, QueueInv
    <3> QED BY <1>1, <1>2, <1>4, <3>1, <3>2
  <2> QED BY <1>2, <1>5, <2>1, <2>2
<1>6. ASSUME NEW t \in DOMAIN expanded',
             ~ \E m \in DOMAIN level' : level'[m].typ = t,
             ~ \E n \in DOMAIN next' : next'[n].typ = t
      PROVE  SettledType(t, expanded[t])'
  <2>1. CASE t \in DOMAIN expanded
    <3>1. ~ \E n \in DOMAIN next : next[n].typ = t
      <4>1. CASE InlineField
        <5>1. Extends(next', next)
          BY <1>1, <4>1, AppendExtends DEF InlineField, TypeOK
        <5> QED BY <1>6, <5>1 DEF Extends
      <4>2. CASE next' = next
        BY <1>6, <4>2
      <4> QED BY <4>1, <4>2 DEF SkipField, RefuseField, InlineAgain, ClaimRemain, RemainAgain,
                                AddField, KeepQueue
    <3>2. SettledType(t, expanded[t]) /\ expanded'[t] = expanded[t]
      BY <1>1, <1>6, <2>1, <3>1 DEF AnalysisInv, SettledInv, Grows, Extends
    <3>3. ASSUME NEW CONSTANT u, NEW CONSTANT p, u \in DOMAIN expanded, SettledType(u, p)
          PROVE  SettledType(u, p)'
      BY <1>1, <3>3, SettledTypeStays
    <3> QED BY <2>1, <3>2, <3>3
  <2>2. CASE t \notin DOMAIN expanded
    <3>1. InlineField /\ t = Sf.base
      BY <2>2 DEF SkipField, RefuseField, InlineField, InlineAgain, ClaimRemain, RemainAgain,
                  AddField, KeepQueue
    <3>2. next' = Append(next, [typ |-> t, index |-> Index])
      BY <3>1 DEF InlineField
    <3>3. next'[Len(next) + 1].typ = t /\ Len(next) + 1 \in DOMAIN next'
      <4>1. [typ |-> t, index |-> Index] \in Queued(world)
        BY <1>1, <3>1, TurnFacts DEF Turn, InlineField, Inlined, IsStruct, Queued
      <4> QED BY <1>1, <3>2, <4>1 DEF TypeOK
    <3> QED BY <1>6, <3>3
  <2> QED BY <2>1, <2>2
<1> QED BY <1>1, <1>2, <1>5, <1>6 DEF SettledInv

\* A type that is left was walked to its end.
LEMMA SettledOn ==
  ASSUME AnalysisInv, WalkInv', Grows, NextStruct
  PROVE  SettledInv'
<1>1. /\ world' = world /\ expanded' = expanded /\ at' = 1 /\ level # << >> /\ TypeOK /\ TypeOK'
      /\ level' = IF Len(level) > 1 THEN Tail(level) ELSE next
      /\ next'  = IF Len(level) > 1 THEN next ELSE << >>
      /\ level \in Seq(Queued(world)) /\ Len(level) \in Nat /\ Len(level) > 0
      /\ Head(level) = level[1] /\ level[1] \in Queued(world)
  BY DEF NextStruct, Done, AnalysisInv, WalkInv, TypeOK
<1>2. \A n \in DOMAIN world.types[level[1].typ] :
         Settled(level[1].typ, n, level[1].index)
  <2>1. Declared = world.types[level[1].typ] /\ level[1].typ \in DOMAIN world.types
    BY <1>1 DEF Declared, Walked, Queued
  <2>2. /\ Len(Declared) \in Nat /\ DOMAIN Declared = 1 .. Len(Declared)
        /\ at > Len(Declared) /\ at \in Nat
    BY <1>1, <2>1, DeclaredIsList DEF TypeOK, NextStruct
  <2>3. \A n \in DOMAIN Declared : n < at
    BY <2>2
  <2> QED BY <1>1, <2>1, <2>3 DEF AnalysisInv, SettledInv
<1>3. SettledType(level[1].typ, level[1].index)
  BY <1>2 DEF SettledType
<1>4. level[1].typ \in DOMAIN expanded /\ expanded[level[1].typ] = level[1].index
  BY <1>1, PathsAreSeqs DEF AnalysisInv, WalkInv, QueueInv
<1>5. ASSUME NEW t \in DOMAIN expanded,
             ~ \E m \in DOMAIN level' : level'[m].typ = t,
             ~ \E n \in DOMAIN next' : next'[n].typ = t
      PROVE  SettledType(t, expanded[t])
  <2>1. ~ \E n \in DOMAIN next : next[n].typ = t
    BY <1>1, <1>5
  <2>2. CASE t = level[1].typ
    BY <1>3, <1>4, <2>2
  <2>3. CASE t # level[1].typ
    <3>1. ~ \E m \in DOMAIN level : level[m].typ = t
      <4> SUFFICES ASSUME NEW m \in DOMAIN level, level[m].typ = t PROVE FALSE
        OBVIOUS
      <4>1. m \in 1 .. Len(level) /\ m # 1
        BY <1>1, <2>3
      <4>2. level' = Tail(level) /\ m - 1 \in DOMAIN level' /\ level'[m - 1] = level[m]
        BY <1>1, <4>1
      <4> QED BY <1>5, <4>2
    <3> QED BY <2>1, <3>1 DEF AnalysisInv, SettledInv
  <2> QED BY <2>2, <2>3
<1>6. ASSUME NEW CONSTANT t, NEW CONSTANT p, t \in DOMAIN expanded, SettledType(t, p)
      PROVE  SettledType(t, p)'
  BY <1>1, <1>6, SettledTypeStays
<1>7. ASSUME level' # << >>, NEW n \in DOMAIN Declared' PROVE ~(n < at')
  <2>1. Head(level') = level'[1] /\ level'[1] \in Queued(world)
    <3> DEFINE W == Queued(world)
    <3>1. level' \in Seq(W)
      BY <1>1 DEF TypeOK, Queued
    <3> HIDE DEF W
    <3>2. Head(level') = level'[1] /\ level'[1] \in W
      BY <1>7, <3>1
    <3> QED BY <3>2 DEF W
  <2>2. Declared' = world.types[level'[1].typ] /\ level'[1].typ \in DOMAIN world.types
    BY <1>1, <2>1 DEF Declared, Walked, Queued
  <2>3. Len(Declared') \in Nat /\ DOMAIN Declared' = 1 .. Len(Declared')
    BY <1>1, <2>2, DeclaredIsList DEF TypeOK
  <2> QED BY <1>1, <1>7, <2>3
<1> QED BY <1>1, <1>5, <1>6, <1>7 DEF SettledInv

\* The first state satisfies the invariant of the analysis.
LEMMA AnalysisInit == Init => AnalysisInv
<1> SUFFICES ASSUME Init PROVE AnalysisInv
  OBVIOUS
<1>1. WalkInv
  BY WalkInit
<1>2. NamesInv
  BY DEF Init, NamesInv
<1>3. level[1].typ = world.root /\ 1 \in DOMAIN level /\ DOMAIN expanded = {world.root}
  BY DEF Init
<1>4. Head(level) = level[1] /\ world \in Worlds /\ level # << >> /\ at = 1
  BY DEF Init
<1>5. Declared \in Seq({Declared[n] : n \in DOMAIN Declared})
  BY <1>3, <1>4, WorldsAssumption DEF Declared, Walked, IsSequence
<1>6. \A n \in DOMAIN Declared : ~(n < at)
  BY <1>4, <1>5
<1> QED BY <1>1, <1>2, <1>3, <1>6 DEF AnalysisInv, SettledInv

\* Every step keeps the invariant of the analysis.
LEMMA AnalysisStep == AnalysisInv /\ [Next]_vars => AnalysisInv'
<1> SUFFICES ASSUME AnalysisInv, [Next]_vars PROVE AnalysisInv'
  OBVIOUS
<1>1. WalkInv' /\ NamesInv' /\ Grows
  BY WalkStep, NamesStep, StepGrows DEF AnalysisInv, WalkInv
<1>2. CASE UNCHANGED vars \/ Rest
  <2>1. UNCHANGED vars
    BY <1>2 DEF Rest
  <2>2. \A t, n, p : Settled(t, n, p)' = Settled(t, n, p)
    BY <2>1 DEF vars, Settled, Told
  <2>3. SettledInv'
    BY <2>1, <2>2 DEF vars, AnalysisInv, SettledInv, SettledType, Declared, Walked
  <2> QED BY <1>1, <2>3 DEF AnalysisInv
<1>3. CASE \/ SkipField \/ RefuseField \/ InlineField \/ InlineAgain
           \/ ClaimRemain \/ RemainAgain \/ AddField
  <2>1. Turn
    BY <1>3 DEF SkipField, RefuseField, InlineField, InlineAgain, ClaimRemain, RemainAgain, AddField
  <2> QED BY <1>1, <1>3, <2>1, SettledTurn DEF AnalysisInv
<1>4. CASE NextStruct
  BY <1>1, <1>4, SettledOn DEF AnalysisInv
<1> QED BY <1>2, <1>3, <1>4 DEF Next

\* When the analysis is over, every field of every type that was expanded has
\* its key, its expansion or its error, and no field that came later holds it.
THEOREM AllSettled == Spec => []NoneForgotten
<1>1. AnalysisInv => NoneForgotten
  BY DEF AnalysisInv, WalkInv, QueueInv, SettledInv, NoneForgotten, Done
<1> QED BY <1>1, AnalysisInit, AnalysisStep, PTL DEF Spec


-----------------------------------------------------------------------------
(* From the places the types were expanded at to every place they occur.   *)

\* The weak order of index paths is transitive,
LEMMA AtMostTransitive ==
  ASSUME NEW p \in Seq(Nat), NEW q \in Seq(Nat), NEW r \in Seq(Nat), AtMost(p, q), AtMost(q, r)
  PROVE  AtMost(p, r)
BY PrecedesTransitive DEF AtMost

\* and one field further on it is the same.
LEMMA AtMostBelow ==
  ASSUME NEW p \in Seq(Nat), NEW q \in Seq(Nat), NEW n \in Nat, AtMost(p, q)
  PROVE  AtMost(Append(p, n), Append(q, n))
<1>1. CASE p = q
  BY <1>1 DEF AtMost
<1>2. CASE Len(p) < Len(q)
  <2>1. Len(Append(p, n)) = Len(p) + 1 /\ Len(Append(q, n)) = Len(q) + 1
    OBVIOUS
  <2> QED BY <1>2, <2>1 DEF AtMost, Precedes
<1>3. CASE Len(p) = Len(q) /\ Precedes(p, q)
  BY <1>3, PrecedesBelow DEF AtMost
<1> QED BY <1>1, <1>2, <1>3 DEF AtMost, Precedes

\* The paths on which a type occurs although it was not expanded on one that
\* is foremost to it.
Stray(p) == \E t \in DOMAIN world.types :
              /\ Leads(world, p, t)
              /\ ~(t \in DOMAIN expanded /\ AtMost(expanded[t], p))

RootInv == world.root \in DOMAIN expanded /\ expanded[world.root] = << >>

\* Of some numbers one is the least.
LEMMA LeastOf ==
  ASSUME NEW S, S \subseteq Nat, S # {}
  PROVE  \E m \in S : \A k \in S : m <= k
<1>1. PICK m \in S : \A k \in S : ~ (<<k, m>> \in OpToRel(<, Nat))
  BY NatLessThanWellFounded, WFMin
<1>2. \A k \in S : ~(k < m)
  BY <1>1 DEF OpToRel
<1>3. m \in Nat /\ \A k \in S : k \in Nat
  OBVIOUS
<1> QED BY <1>2, <1>3

\* The empty path leads to the root.
LEMMA LeadsRoot ==
  ASSUME NEW w, w.root \in DOMAIN w.types, NEW t
  PROVE  Leads(w, << >>, t) <=> t = w.root
<1>1. Len(<< >>) = 0 /\ 0 + 1 = 1 /\ 1 .. 0 = {}
  OBVIOUS
<1>2. ASSUME t = w.root PROVE Leads(w, << >>, t)
  <2> DEFINE c == [n \in 1 .. 1 |-> t]
  <2>1. c \in [1 .. 0 + 1 -> DOMAIN w.types] /\ c[1] = w.root /\ c[0 + 1] = t
    BY <1>2
  <2> QED BY <1>1, <2>1 DEF Leads
<1> QED BY <1>1, <1>2 DEF Leads

\* Path p leads to type t by path q to type u and field j of it.
LastStep(w, p, t, q, u, j) ==
  /\ q \in Seq(Nat) /\ u \in DOMAIN w.types /\ j \in DOMAIN w.types[u] /\ j \in Nat
  /\ Leads(w, q, u) /\ Inlined(w, w.types[u][j]) /\ w.types[u][j].base = t
  /\ p = Append(q, j) /\ Len(q) = Len(p) - 1

\* A path that leads to a type leads to it by its last field.
LEMMA LeadsFrom ==
  ASSUME NEW w, NEW p \in Seq(Nat), NEW t, Len(p) # 0, Leads(w, p, t)
  PROVE  \E q, u, j : LastStep(w, p, t, q, u, j)
<1> DEFINE n == Len(p)
           q == SubSeq(p, 1, n - 1)
<1>1. PICK c \in [1 .. n + 1 -> DOMAIN w.types] :
         /\ c[1] = w.root /\ c[n + 1] = t
         /\ \A m \in 1 .. n :
              /\ p[m] \in DOMAIN w.types[c[m]] /\ Inlined(w, w.types[c[m]][p[m]])
              /\ w.types[c[m]][p[m]].base = c[m + 1]
  BY DEF Leads
<1>2. n \in Nat /\ n # 0
  OBVIOUS
<1>3. /\ q \in Seq(Nat) /\ Len(q) = n - 1 /\ p[n] \in Nat
      /\ \A m \in 1 .. n - 1 : q[m] = p[m]
  <2> DEFINE l == n - 1
  <2>1. \A m \in 1 .. n : p[m] \in Nat
    OBVIOUS
  <2>2. 1 \in Int /\ l \in Int /\ l >= 0 /\ \A i \in 1 .. l : p[i] \in Nat
    BY <1>2, <2>1
  <2>3. l = n - 1 /\ n \in 1 .. n
    BY <1>2
  <2> HIDE DEF l
  <2>4. /\ SubSeq(p, 1, l) \in Seq(Nat) /\ Len(SubSeq(p, 1, l)) = IF 1 <= l THEN l - 1 + 1 ELSE 0
        /\ \A i \in 1 .. l - 1 + 1 : SubSeq(p, 1, l)[i] = p[1 + i - 1]
    BY <2>2, SubSeqProperties
  <2>5. /\ SubSeq(p, 1, l) \in Seq(Nat) /\ Len(SubSeq(p, 1, l)) = l
        /\ \A i \in 1 .. l : SubSeq(p, 1, l)[i] = p[i]
    BY <2>2, <2>4
  <2> QED BY <2>1, <2>3, <2>5 DEF l
<1>4. p = Append(q, p[n])
  <2>1. Append(q, p[n]) \in Seq(Nat) /\ Len(Append(q, p[n])) = n
    BY <1>2, <1>3, AppendProperties
  <2>2. \A m \in 1 .. n : Append(q, p[n])[m] = p[m]
    <3>1. \A m \in 1 .. n - 1 : Append(q, p[n])[m] = p[m]
      BY <1>2, <1>3, AppendProperties
    <3>2. Append(q, p[n])[n] = p[n]
      BY <1>2, <1>3, AppendProperties
    <3> QED BY <1>2, <3>1, <3>2
  <2> QED BY <2>1, <2>2, SeqEqual
<1> DEFINE u == c[n]
<1>5. /\ u \in DOMAIN w.types /\ p[n] \in DOMAIN w.types[u]
      /\ Inlined(w, w.types[u][p[n]]) /\ w.types[u][p[n]].base = t
  BY <1>1, <1>2
<1>6. Leads(w, q, u)
  <2> DEFINE d == [m \in 1 .. n |-> c[m]]
  <2>1. /\ d \in [1 .. Len(q) + 1 -> DOMAIN w.types] /\ d[1] = w.root /\ d[Len(q) + 1] = u
    BY <1>1, <1>2, <1>3
  <2>2. \A m \in 1 .. Len(q) :
          /\ q[m] \in DOMAIN w.types[d[m]] /\ Inlined(w, w.types[d[m]][q[m]])
          /\ w.types[d[m]][q[m]].base = d[m + 1]
    <3> SUFFICES ASSUME NEW m \in 1 .. n - 1
                 PROVE  /\ q[m] \in DOMAIN w.types[d[m]] /\ Inlined(w, w.types[d[m]][q[m]])
                        /\ w.types[d[m]][q[m]].base = d[m + 1]
      BY <1>2, <1>3
    <3>1. q[m] = p[m] /\ d[m] = c[m] /\ d[m + 1] = c[m + 1] /\ m \in 1 .. n
      BY <1>2, <1>3
    <3> QED BY <1>1, <3>1
  <2> QED BY <2>1, <2>2 DEF Leads
<1>7. LastStep(w, p, t, q, u, p[n])
  <2> HIDE DEF q, u, n
  <2> QED BY <1>3, <1>4, <1>5, <1>6 DEF LastStep, n
<1> QED BY <1>7

\* An inlined field leads one type on.
LEMMA LeadsOn ==
  ASSUME NEW w, NEW q \in Seq(Nat), NEW u \in DOMAIN w.types, Leads(w, q, u),
         NEW j \in DOMAIN w.types[u], j \in Nat, Inlined(w, w.types[u][j])
  PROVE  Leads(w, Append(q, j), w.types[u][j].base)
<1> DEFINE n == Len(q)
           t == w.types[u][j].base
           p == Append(q, j)
<1>1. PICK c \in [1 .. n + 1 -> DOMAIN w.types] :
         /\ c[1] = w.root /\ c[n + 1] = u
         /\ \A m \in 1 .. n :
              /\ q[m] \in DOMAIN w.types[c[m]] /\ Inlined(w, w.types[c[m]][q[m]])
              /\ w.types[c[m]][q[m]].base = c[m + 1]
  BY DEF Leads
<1>2. n \in Nat /\ Len(p) = n + 1 /\ p[n + 1] = j /\ \A m \in 1 .. n : p[m] = q[m]
  BY AppendProperties
<1>3. t \in DOMAIN w.types
  BY DEF Inlined, IsStruct
<1> DEFINE d == [m \in 1 .. n + 2 |-> IF m = n + 2 THEN t ELSE c[m]]
<1> HIDE DEF t, p, n
<1>4. /\ d \in [1 .. n + 2 -> DOMAIN w.types] /\ d[1] = w.root /\ d[n + 2] = t
      /\ \A m \in 1 .. n + 1 : d[m] = c[m]
  BY <1>1, <1>2, <1>3
<1> HIDE DEF d
<1>5. ASSUME NEW m \in 1 .. n + 1
      PROVE  /\ p[m] \in DOMAIN w.types[d[m]] /\ Inlined(w, w.types[d[m]][p[m]])
             /\ w.types[d[m]][p[m]].base = d[m + 1]
  <2>1. CASE m = n + 1
    <3>1. d[m] = u /\ p[m] = j /\ d[m + 1] = t
      BY <1>1, <1>2, <1>4, <2>1
    <3> QED BY <3>1 DEF t
  <2>2. CASE m \in 1 .. n
    <3>1. d[m] = c[m] /\ p[m] = q[m] /\ d[m + 1] = c[m + 1]
      BY <1>2, <1>4, <2>2
    <3> QED BY <1>1, <2>2, <3>1
  <2> QED BY <1>2, <2>1, <2>2
<1>6. Leads(w, p, t)
  <2>1. Len(p) + 1 = n + 2 /\ 1 .. Len(p) = 1 .. n + 1
    BY <1>2
  <2> QED BY <1>4, <1>5, <2>1 DEF Leads
<1> QED BY <1>6 DEF p, t

\* A stray path has a shorter one: none is the shortest.
LEMMA StrayBefore ==
  ASSUME TypeOK, RootInv, Done, NoneForgotten, NEW p \in Seq(Nat), Stray(p)
  PROVE  Len(p) \in Nat \ {0} /\ \E q \in Seq(Nat) : Stray(q) /\ Len(q) = Len(p) - 1
<1>1. PICK t \in DOMAIN world.types : Leads(world, p, t) /\ ~(t \in DOMAIN expanded /\ AtMost(expanded[t], p))
  BY DEF Stray
<1>2. Len(p) \in Nat /\ Len(p) # 0
  <2>1. ASSUME Len(p) = 0 PROVE FALSE
    <3>1. p = << >> /\ world.root \in DOMAIN world.types
      BY <2>1, WorldsAssumption DEF TypeOK
    <3>2. t = world.root
      BY <1>1, <3>1, LeadsRoot
    <3> QED BY <1>1, <3>1, <3>2 DEF RootInv, AtMost
  <2> QED BY <2>1
<1>3. PICK q, u, j : LastStep(world, p, t, q, u, j)
  BY <1>1, <1>2, LeadsFrom
<1>4. ASSUME u \in DOMAIN expanded, AtMost(expanded[u], q) PROVE FALSE
  <2>1. expanded[u] \in Seq(Nat) /\ t \in DOMAIN expanded /\ expanded[t] \in Seq(Nat)
        /\ AtMost(expanded[t], Append(expanded[u], j))
    <3>1. Settled(u, j, expanded[u])
      BY <1>3, <1>4 DEF NoneForgotten, SettledType, LastStep
    <3> QED BY <1>3, <1>4, <3>1 DEF Settled, TypeOK, LastStep
  <2>2. AtMost(Append(expanded[u], j), p)
    BY <1>3, <1>4, <2>1, AtMostBelow DEF LastStep
  <2>3. Append(expanded[u], j) \in Seq(Nat)
    BY <1>3, <2>1 DEF LastStep
  <2> QED BY <1>1, <2>1, <2>2, <2>3, AtMostTransitive
<1> QED BY <1>2, <1>3, <1>4 DEF Stray, LastStep

\* There is no shortest path to a place that was not dealt with, so none.
LEMMA NoStray ==
  ASSUME TypeOK, RootInv, Done, NoneForgotten, NEW p \in Seq(Nat)
  PROVE  ~ Stray(p)
<1> DEFINE L == {k \in Nat : \E q \in Seq(Nat) : Stray(q) /\ Len(q) = k}
<1> SUFFICES ASSUME Stray(p) PROVE FALSE
  OBVIOUS
<1>1. L \subseteq Nat /\ L # {}
  OBVIOUS
<1>2. PICK least \in L : \A k \in L : least <= k
  BY <1>1, LeastOf
<1>3. PICK q \in Seq(Nat) : Stray(q) /\ Len(q) = least
  BY <1>2
<1>4. PICK r \in Seq(Nat) : Stray(r) /\ Len(r) = Len(q) - 1 /\ Len(q) \in Nat \ {0}
  BY <1>3, StrayBefore
<1>5. Len(r) \in L /\ Len(r) < least /\ Len(r) \in Nat /\ least \in Nat
  BY <1>3, <1>4
<1> QED BY <1>2, <1>5


\* What is settled at a path is settled at every path after it.
LEMMA SettledLater ==
  ASSUME TypeOK, NEW t \in DOMAIN expanded, NEW p \in Seq(Nat),
         AtMost(expanded[t], p), SettledType(t, expanded[t])
  PROVE  SettledType(t, p)
<1> SUFFICES ASSUME NEW n \in DOMAIN world.types[t]
             PROVE  Settled(t, n, p)
  BY DEF SettledType
<1> DEFINE f == world.types[t][n]
           k == KeyName(world, f)
           e == Append(expanded[t], n)
<1>1. n \in Nat /\ expanded[t] \in Seq(Nat)
  BY DeclaredIsList DEF TypeOK
<1>2. e \in Seq(Nat) /\ Append(p, n) \in Seq(Nat) /\ AtMost(e, Append(p, n))
  BY <1>1, AtMostBelow
<1>3. \A q \in Seq(Nat) : AtMost(q, e) => AtMost(q, Append(p, n))
  BY <1>2, AtMostTransitive
<1>4. Settled(t, n, expanded[t])
  BY DEF SettledType
<1>5. /\ \A m \in DOMAIN fields : fields[m].index \in Seq(Nat)
      /\ \A j \in DOMAIN byName : byName[j] \in DOMAIN fields
      /\ \A j \in DOMAIN byNorm : byNorm[j] \in DOMAIN fields
      /\ remain # 0 => remain \in DOMAIN fields
  BY PathsAreSeqs DEF TypeOK
<1>6. Inlined(world, f) => f.base \in DOMAIN expanded /\ AtMost(expanded[f.base], Append(p, n))
  BY <1>3, <1>4 DEF Settled, TypeOK
<1>7. ASSUME Claims(world, f) /\ ~Collects(world, f)
      PROVE  /\ k \in DOMAIN byName /\ fields[byName[k]].name = k
             /\ AtMost(fields[byName[k]].index, Append(p, n))
             /\ world.cfg.normalizer => /\ Norm[k] \in DOMAIN byNorm
                                        /\ AtMost(fields[byNorm[Norm[k]]].index, Append(p, n))
  <2>1. /\ k \in DOMAIN byName /\ fields[byName[k]].name = k
        /\ AtMost(fields[byName[k]].index, e)
        /\ world.cfg.normalizer => /\ Norm[k] \in DOMAIN byNorm
                                   /\ AtMost(fields[byNorm[Norm[k]]].index, e)
    BY <1>4, <1>7 DEF Settled
  <2> HIDE DEF k, e
  <2> QED BY <1>3, <1>5, <2>1
<1>8. Collects(world, f) => /\ remain # 0 /\ AtMost(fields[remain].index, Append(p, n))
                            /\ fields[remain].index = e \/ Told(t, n, "remain")
  BY <1>3, <1>4, <1>5 DEF Settled
<1> QED BY <1>4, <1>6, <1>7, <1>8 DEF Settled

\* At the end a type is settled at every path that leads to it.
LEMMA SettledEverywhere ==
  ASSUME AnalysisInv, RootInv, Done, NEW p \in Seq(Nat), NEW t \in DOMAIN world.types,
         Leads(world, p, t)
  PROVE  t \in DOMAIN expanded /\ AtMost(expanded[t], p) /\ SettledType(t, p)
<1>1. NoneForgotten /\ TypeOK
  BY DEF AnalysisInv, WalkInv, QueueInv, SettledInv, NoneForgotten, Done
<1>2. t \in DOMAIN expanded /\ AtMost(expanded[t], p)
  BY <1>1, NoStray DEF Stray
<1>3. SettledType(t, expanded[t])
  BY <1>1, <1>2 DEF NoneForgotten
<1> QED BY <1>1, <1>2, <1>3, SettledLater

\* The root keeps its place.
LEMMA RootInit == Init => RootInv
BY WorldsAssumption DEF Init, RootInv

\* Every step keeps the root expanded at the empty path.
LEMMA RootStep == AnalysisInv /\ RootInv /\ [Next]_vars => RootInv'
BY StepGrows DEF AnalysisInv, WalkInv, RootInv, Grows, Extends

\* However deep a struct is inlined and on however many ways: for every field
\* of it the key is held by a field no deeper and no later, and it is reported
\* when it is bad.  That a type is expanded only once loses nothing.
THEOREM ForemostEverywhere ==
  Spec => [](Done => \A p \in Seq(Nat) : \A t \in DOMAIN world.types :
                       Leads(world, p, t) => SettledType(t, p))
<1>1. AnalysisInv /\ RootInv =>
        (Done => \A p \in Seq(Nat) : \A t \in DOMAIN world.types :
                   Leads(world, p, t) => SettledType(t, p))
  BY SettledEverywhere
<1> QED BY <1>1, RootInit, RootStep, AnalysisInit, AnalysisStep, PTL DEF Spec


-----------------------------------------------------------------------------
(* Every place a type is inlined at.                                       *)

Deep(w) == Cardinality(DOMAIN w.types)

\* There are finitely many types.
LEMMA DeepIs == ASSUME NEW w \in Worlds PROVE Deep(w) \in Nat
BY WorldsAssumption, FS_CardinalityType DEF Deep

\* The places n levels down, from those a level above.
Below(w, d, n) ==
  IF n = 0 THEN {[typ |-> w.root, index |-> << >>]}
  ELSE UNION {{[typ |-> w.types[q.typ][j].base, index |-> Append(q.index, j)] :
                 j \in {k \in DOMAIN w.types[q.typ] : Inlined(w, w.types[q.typ][k])}} :
              q \in d[n - 1]}

\* The places a path of length n leads to.
Placed(w) == [n \in 0 .. Deep(w) |-> {q \in Queued(w) : Len(q.index) = n /\ Leads(w, q.index, q.typ)}]

\* The places at one depth are those one field below the places before it.
LEMMA PlacedBelow ==
  ASSUME NEW w \in Worlds, NEW n \in 0 .. Deep(w)
  PROVE  Placed(w)[n] = Below(w, Placed(w), n)
<1>0. w.root \in DOMAIN w.types /\ \A u \in DOMAIN w.types : DOMAIN w.types[u] \subseteq Nat
  BY WorldsAssumption, DeclaredIsList
<1>1. CASE n = 0
  <2>1. ASSUME NEW q \in Queued(w), Len(q.index) = 0, Leads(w, q.index, q.typ)
        PROVE  q = [typ |-> w.root, index |-> << >>]
    <3>1. q.index = << >> /\ q = [typ |-> q.typ, index |-> q.index]
      BY <2>1 DEF Queued
    <3>2. q.typ = w.root
      BY <1>0, <2>1, <3>1, LeadsRoot
    <3> QED BY <3>1, <3>2
  <2>2. [typ |-> w.root, index |-> << >>] \in Queued(w) /\ Leads(w, << >>, w.root)
    BY <1>0, LeadsRoot DEF Queued
  <2>3. Placed(w)[n] = {q \in Queued(w) : Len(q.index) = 0 /\ Leads(w, q.index, q.typ)}
    BY <1>1 DEF Placed
  <2>4. Below(w, Placed(w), n) = {[typ |-> w.root, index |-> << >>]}
    BY <1>1 DEF Below
  <2> QED BY <2>1, <2>2, <2>3, <2>4
<1>2. CASE n # 0
  <2>0. n - 1 \in 0 .. Deep(w) /\ n \in Nat
    BY <1>2, DeepIs
  <2>1. Placed(w)[n] = {q \in Queued(w) : Len(q.index) = n /\ Leads(w, q.index, q.typ)}
        /\ Placed(w)[n - 1] = {q \in Queued(w) : Len(q.index) = n - 1 /\ Leads(w, q.index, q.typ)}
    BY <2>0 DEF Placed
  <2> DEFINE One(q, j) == [typ |-> w.types[q.typ][j].base, index |-> Append(q.index, j)]
             Two(q)    == {One(q, j) : j \in {k \in DOMAIN w.types[q.typ] : Inlined(w, w.types[q.typ][k])}}
  <2>2. Below(w, Placed(w), n) = UNION {Two(q) : q \in Placed(w)[n - 1]}
    BY <1>2 DEF Below
  <2>3. ASSUME NEW o \in Placed(w)[n] PROVE o \in UNION {Two(q) : q \in Placed(w)[n - 1]}
    <3>1. /\ o = [typ |-> o.typ, index |-> o.index] /\ o.index \in Seq(Nat) /\ o.typ \in DOMAIN w.types
          /\ Len(o.index) = n /\ Leads(w, o.index, o.typ)
      BY <2>1 DEF Queued
    <3>2. PICK q, u, j : LastStep(w, o.index, o.typ, q, u, j)
      BY <1>2, <3>1, LeadsFrom
    <3> DEFINE r == [typ |-> u, index |-> q]
    <3>3. r \in Placed(w)[n - 1]
      BY <2>1, <3>1, <3>2 DEF LastStep, Queued
    <3>4. o = One(r, j) /\ j \in DOMAIN w.types[r.typ] /\ Inlined(w, w.types[r.typ][j])
      BY <3>1, <3>2 DEF LastStep
    <3>5. o \in Two(r)
      BY <3>4
    <3> QED BY <3>3, <3>5
  <2>4. ASSUME NEW q \in Placed(w)[n - 1], NEW j \in DOMAIN w.types[q.typ], Inlined(w, w.types[q.typ][j])
        PROVE  One(q, j) \in Placed(w)[n]
    <3>1. /\ q.index \in Seq(Nat) /\ q.typ \in DOMAIN w.types
          /\ Len(q.index) = n - 1 /\ Leads(w, q.index, q.typ) /\ j \in Nat
      BY <1>0, <2>1 DEF Queued
    <3>2. Leads(w, Append(q.index, j), w.types[q.typ][j].base)
      BY <2>4, <3>1, LeadsOn
    <3>3. w.types[q.typ][j].base \in DOMAIN w.types
      BY <2>4 DEF Inlined, IsStruct
    <3>4. Append(q.index, j) \in Seq(Nat) /\ Len(Append(q.index, j)) = n
      BY <2>0, <3>1
    <3>5. One(q, j) \in Queued(w) /\ One(q, j).index = Append(q.index, j)
          /\ One(q, j).typ = w.types[q.typ][j].base
      BY <3>3, <3>4 DEF Queued
    <3> HIDE DEF One
    <3> QED BY <2>1, <3>2, <3>4, <3>5
  <2>5. UNION {Two(q) : q \in Placed(w)[n - 1]} \subseteq Placed(w)[n]
    BY <2>4
  <2> QED BY <2>2, <2>3, <2>5
<1> QED BY <1>1, <1>2

\* Only one function lists the places level by level.
LEMMA PlacedAlone ==
  ASSUME NEW w \in Worlds, NEW d, d = [n \in 0 .. Deep(w) |-> Below(w, d, n)]
  PROVE  d = Placed(w)
<1> DEFINE S == {n \in 0 .. Deep(w) : d[n] # Placed(w)[n]}
<1>0. DOMAIN d = 0 .. Deep(w) /\ Placed(w) = [n \in 0 .. Deep(w) |-> Placed(w)[n]]
  BY DEF Placed
<1>1. ASSUME S # {} PROVE FALSE
  <2>1. PICK n \in S : \A k \in S : n <= k
    <3>1. S \subseteq Nat
      OBVIOUS
    <3> HIDE DEF S
    <3> QED BY <1>1, <3>1, LeastOf
  <2>2. n \in 0 .. Deep(w) /\ d[n] # Placed(w)[n] /\ n \in Nat
    OBVIOUS
  <2>3. CASE n = 0
    <3>1. d[n] = Below(w, d, n) /\ Below(w, d, n) = Below(w, Placed(w), n)
      BY <2>2, <2>3 DEF Below
    <3> QED BY <2>2, <3>1, PlacedBelow
  <2>4. CASE n # 0
    <3>1. n - 1 \in 0 .. Deep(w) /\ ~(n <= n - 1)
      BY <2>2, <2>4, DeepIs
    <3>2. d[n - 1] = Placed(w)[n - 1]
      BY <2>1, <3>1
    <3>3. d[n] = Below(w, d, n) /\ Below(w, d, n) = Below(w, Placed(w), n)
      BY <2>2, <3>2 DEF Below
    <3> QED BY <2>2, <3>3, PlacedBelow
  <2> QED BY <2>3, <2>4
<1>2. \A n \in 0 .. Deep(w) : d[n] = Placed(w)[n]
  BY <1>1
<1>3. d = [n \in 0 .. Deep(w) |-> d[n]]
  <2>1. d = [n \in DOMAIN d |-> d[n]]
    OBVIOUS
  <2> QED BY <1>0, <2>1
<1> QED BY <1>0, <1>2, <1>3

\* The occurrences of the types are what short paths lead to.
LEMMA OccursIs ==
  ASSUME NEW w \in Worlds
  PROVE  Occurrences(w) = {q \in Queued(w) : Len(q.index) <= Deep(w) /\ Leads(w, q.index, q.typ)}
<1> DEFINE Listed(d) == [n \in 0 .. Deep(w) |-> Below(w, d, n)]
           depth     == CHOOSE d : d = Listed(d)
<1>1. Occurrences(w) = UNION {depth[n] : n \in DOMAIN depth}
  BY DEF Occurrences, Below, Deep
<1>2. Placed(w) = Listed(Placed(w))
  <2>1. Placed(w) = [n \in 0 .. Deep(w) |-> Placed(w)[n]]
    BY DEF Placed
  <2> QED BY <2>1, PlacedBelow
<1>3. depth = Placed(w)
  <2>1. depth = Listed(depth)
    <3> HIDE DEF Listed
    <3> QED BY <1>2
  <2> HIDE DEF depth
  <2> QED BY <2>1, PlacedAlone
<1> HIDE DEF depth
<1>4. Deep(w) \in Nat
  BY DeepIs
<1>5. \A q \in Queued(w) : Len(q.index) \in Nat
  BY DEF Queued
<1>6. DOMAIN Placed(w) = 0 .. Deep(w)
      /\ \A n \in 0 .. Deep(w) :
           Placed(w)[n] = {q \in Queued(w) : Len(q.index) = n /\ Leads(w, q.index, q.typ)}
  BY DEF Placed
<1>7. ASSUME NEW q PROVE q \in Occurrences(w) <=> \E n \in 0 .. Deep(w) : q \in Placed(w)[n]
  BY <1>1, <1>3, <1>6
<1>8. ASSUME NEW q
      PROVE  q \in Occurrences(w) <=> q \in Queued(w) /\ Len(q.index) <= Deep(w) /\ Leads(w, q.index, q.typ)
  BY <1>4, <1>5, <1>6, <1>7
<1> QED BY <1>8


-----------------------------------------------------------------------------
(* Where what the analysis keeps comes from.                               *)

\* A type that was expanded is the root, or a field of another inlines it.
PlaceInv ==
  \A t \in DOMAIN expanded :
    \/ t = world.root /\ expanded[t] = << >>
    \/ \E u \in DOMAIN expanded : \E j \in DOMAIN world.types[u] :
         /\ Inlined(world, world.types[u][j]) /\ world.types[u][j].base = t
         /\ expanded[t] = Append(expanded[u], j)

\* A field that was kept is a declared one that claims its key.
Origin(n) ==
  \E t \in DOMAIN expanded : \E j \in DOMAIN world.types[t] :
    /\ Claims(world, world.types[t][j]) /\ (Collects(world, world.types[t][j]) <=> n = remain)
    /\ fields[n].index = Append(expanded[t], j) /\ fields[n].name = KeyName(world, world.types[t][j])
OriginInv ==
  /\ \A n \in DOMAIN fields : Origin(n)
  /\ \A k \in DOMAIN byName : byName[k] # remain
  /\ \A k \in DOMAIN byNorm : /\ byNorm[k] # remain /\ world.cfg.normalizer
                              /\ Norm[fields[byNorm[k]].name] = k

\* What was reported deserved it, and lies behind; nothing was reported twice.
Fault(m) ==
  \E t \in DOMAIN expanded : \E n \in DOMAIN world.types[t] :
    /\ \/ errs[m] = <<t, n, "tag">> /\ Fails(world, world.types[t][n])
       \/ /\ errs[m] = <<t, n, "remain">> /\ Collects(world, world.types[t][n])
          /\ remain # 0 /\ fields[remain].index # Append(expanded[t], n)
    /\ level # << >> => Precedes(Append(expanded[t], n), Here)
ErrsInv ==
  /\ \A m \in DOMAIN errs : Fault(m)
  /\ \A m, n \in DOMAIN errs : errs[m] = errs[n] => m = n

FoundInv == PlaceInv /\ OriginInv /\ ErrsInv

\* At the start there is only the root.
LEMMA FoundInit == Init => FoundInv
<1> SUFFICES ASSUME Init PROVE FoundInv
  OBVIOUS
<1>1. DOMAIN expanded = {world.root} /\ expanded[world.root] = << >>
  BY DEF Init
<1>2. DOMAIN fields = {} /\ DOMAIN byName = {} /\ DOMAIN byNorm = {} /\ DOMAIN errs = {}
  BY DEF Init
<1> QED BY <1>1, <1>2 DEF FoundInv, PlaceInv, OriginInv, ErrsInv

\* Nothing comes before itself.
LEMMA PrecedesProper == ASSUME NEW p \in Seq(Nat) PROVE ~ Precedes(p, p)
<1>1. Len(p) \in Nat /\ \A n \in DOMAIN p : p[n] \in Nat
  OBVIOUS
<1>2. \A n \in DOMAIN p : ~(p[n] < p[n])
  BY <1>1
<1> QED BY <1>1, <1>2 DEF Precedes

\* The field a turn looks at.
LEMMA TurnIs ==
  ASSUME WalkInv, Turn
  PROVE  /\ TypeOK /\ level # << >> /\ at' = at + 1 /\ Index = Here /\ Here \in Seq(Nat)
         /\ Walked \in DOMAIN expanded /\ Walked \in DOMAIN world.types
         /\ at \in DOMAIN world.types[Walked] /\ Sf = world.types[Walked][at]
         /\ Here = Append(expanded[Walked], at)
<1>1. TypeOK /\ level # << >> /\ at' = at + 1
  BY DEF WalkInv, Turn, Done
<1>2. /\ Head(level) = level[1] /\ Walked = level[1].typ /\ Index = Here
      /\ Walked \in DOMAIN world.types /\ at \in DOMAIN world.types[Walked]
  BY <1>1, TurnFacts DEF Turn, Index, Here, Walked, Declared
<1>3. 1 \in DOMAIN level /\ Here \in Seq(Nat)
  BY <1>1, PathsAreSeqs
<1>4. Walked \in DOMAIN expanded /\ expanded[Walked] = level[1].index
  BY <1>2, <1>3 DEF WalkInv, QueueInv
<1> QED BY <1>1, <1>2, <1>3, <1>4 DEF Sf, Declared, Here

\* A type is expanded where a field of the walked one inlines it.
LEMMA PlaceStep ==
  ASSUME WalkInv, Grows, PlaceInv, [Next]_vars
  PROVE  PlaceInv'
<1> SUFFICES ASSUME NEW t \in DOMAIN expanded'
             PROVE  \/ t = world.root /\ expanded'[t] = << >>
                    \/ \E u \in DOMAIN expanded' : \E j \in DOMAIN world.types[u] :
                         /\ Inlined(world, world.types[u][j]) /\ world.types[u][j].base = t
                         /\ expanded'[t] = Append(expanded'[u], j)
  BY DEF PlaceInv, Grows
<1>1. \A u \in DOMAIN expanded : u \in DOMAIN expanded' /\ expanded'[u] = expanded[u]
  BY DEF Grows, Extends
<1>2. CASE t \in DOMAIN expanded
  BY <1>1, <1>2 DEF PlaceInv
<1>3. CASE t \notin DOMAIN expanded
  <2>1. InlineField /\ t = Sf.base /\ expanded'[t] = Index
    BY <1>3 DEF Next, vars, Rest, SkipField, RefuseField, InlineField, InlineAgain, ClaimRemain,
                RemainAgain, AddField, NextStruct, KeepQueue
  <2>2. /\ Index = Append(expanded[Walked], at) /\ Walked \in DOMAIN expanded
        /\ at \in DOMAIN world.types[Walked] /\ Sf = world.types[Walked][at]
    BY <2>1, TurnIs DEF InlineField
  <2>3. Inlined(world, Sf)
    BY <2>1 DEF InlineField
  <2> QED BY <1>1, <2>1, <2>2, <2>3
<1> QED BY <1>2, <1>3

\* A field keeps its origin while the remain field is the one it was.
LEMMA OriginStays ==
  ASSUME Grows, NEW n \in DOMAIN fields, Origin(n), n = remain' <=> n = remain
  PROVE  Origin(n)'
<1>1. \A u \in DOMAIN expanded : u \in DOMAIN expanded' /\ expanded'[u] = expanded[u]
  BY DEF Grows, Extends
<1>2. fields'[n] = fields[n] /\ world' = world
  BY DEF Grows, Extends
<1> QED BY <1>1, <1>2 DEF Origin

\* The field a turn keeps has its origin in the one it looks at.
LEMMA OriginNew ==
  ASSUME WalkInv, Grows, Turn, Claims(world, Sf),
         fields' = Append(fields, FieldInfo(world, Sf, Index)),
         NEW CONSTANT n, n = Len(fields) + 1, Collects(world, Sf) <=> n = remain'
  PROVE  Origin(n)'
<1>1. fields'[n] = FieldInfo(world, Sf, Index)
  BY TurnIs, AppendExtends DEF TypeOK
<1>2. fields'[n].index = Append(expanded[Walked], at) /\ fields'[n].name = KeyName(world, Sf)
  BY <1>1, TurnIs DEF FieldInfo
<1>3. /\ Walked \in DOMAIN expanded' /\ expanded'[Walked] = expanded[Walked] /\ world' = world
      /\ at \in DOMAIN world.types[Walked] /\ Sf = world.types[Walked][at]
  BY TurnIs DEF Grows, Extends
<1> QED BY <1>2, <1>3 DEF Origin

\* No step forgets where a kept field comes from, or keeps another.
LEMMA OriginStep ==
  ASSUME WalkInv, Grows, OriginInv, [Next]_vars
  PROVE  OriginInv'
<1>1. /\ TypeOK /\ Len(fields) \in Nat /\ DOMAIN fields = 1 .. Len(fields) /\ remain \in 0 .. Len(fields)
      /\ \A k \in DOMAIN byName : byName[k] \in DOMAIN fields
      /\ \A k \in DOMAIN byNorm : byNorm[k] \in DOMAIN fields
      /\ \A n \in DOMAIN fields : fields'[n] = fields[n]
  BY DEF WalkInv, TypeOK, Grows, Extends
<1>2. CASE KeepFields
  <2>1. UNCHANGED <<fields, byName, byNorm, remain>> /\ world' = world
    BY <1>2 DEF KeepFields, Grows
  <2>2. \A n \in DOMAIN fields' : Origin(n)'
    BY <2>1, OriginStays DEF OriginInv
  <2> QED BY <2>1, <2>2 DEF OriginInv
<1>3. CASE Turn /\ Claims(world, Sf) /\ fields' = Append(fields, FieldInfo(world, Sf, Index))
           /\ (ClaimRemain \/ AddField)
  <2>1. /\ DOMAIN fields' = DOMAIN fields \union {Len(fields) + 1} /\ Len(fields) + 1 \notin DOMAIN fields
        /\ fields'[Len(fields) + 1].name = KeyName(world, Sf)
    <3>1. fields'[Len(fields) + 1] = FieldInfo(world, Sf, Index)
      BY <1>1, <1>3, AppendExtends DEF TypeOK
    <3>2. DOMAIN fields' = 1 .. Len(fields) + 1
      BY <1>1, <1>3 DEF TypeOK
    <3> QED BY <1>1, <3>1, <3>2 DEF FieldInfo
  <2>2. /\ Collects(world, Sf) <=> Len(fields) + 1 = remain'
        /\ \A n \in DOMAIN fields : n = remain' <=> n = remain
    <3>1. CASE ClaimRemain
      <4>1. Collects(world, Sf) /\ remain = 0 /\ remain' = Len(fields) + 1
        BY <3>1 DEF ClaimRemain
      <4> QED BY <1>1, <4>1
    <3>2. CASE AddField
      <4>1. ~Collects(world, Sf) /\ remain' = remain
        BY <3>2 DEF AddField, KeepFields
      <4> QED BY <1>1, <4>1
    <3> QED BY <1>3, <3>1, <3>2
  <2>3. ASSUME NEW CONSTANT n, n = Len(fields) + 1 PROVE Origin(n)'
    BY <1>3, <2>2, <2>3, OriginNew
  <2>4. \A n \in DOMAIN fields : Origin(n)'
    BY <2>2, OriginStays DEF OriginInv
  <2>5. \A n \in DOMAIN fields' : Origin(n)'
    BY <2>1, <2>3, <2>4
  <2>6. CASE ClaimRemain
    <3>1. byName' = byName /\ byNorm' = byNorm /\ remain' = Len(fields) + 1 /\ world' = world
      BY <2>6 DEF ClaimRemain, KeepQueue
    <3> QED BY <1>1, <2>1, <2>5, <3>1 DEF OriginInv
  <2>7. CASE AddField
    <3>1. /\ remain' = remain /\ world' = world
          /\ \A k \in DOMAIN byName' : (k \in DOMAIN byName /\ byName'[k] = byName[k]) \/ byName'[k] = Len(fields) + 1
          /\ \A k \in DOMAIN byNorm' :
               \/ k \in DOMAIN byNorm /\ byNorm'[k] = byNorm[k]
               \/ k = Norm[KeyName(world, Sf)] /\ byNorm'[k] = Len(fields) + 1 /\ world.cfg.normalizer
      <4>1. KeyName(world, Sf) \notin DOMAIN byName
        BY <1>1, <1>3, <2>1, <2>7 DEF AddField, KeepFields
      <4> QED BY <2>7, <4>1 DEF AddField, KeepQueue
    <3>2. remain' # Len(fields) + 1
      BY <1>1, <3>1
    <3>3. \A k \in DOMAIN byName' : byName'[k] # remain'
      BY <1>1, <3>1, <3>2 DEF OriginInv
    <3>4. \A k \in DOMAIN byNorm' : /\ byNorm'[k] # remain' /\ world'.cfg.normalizer
                                    /\ Norm[fields'[byNorm'[k]].name] = k
      BY <1>1, <2>1, <3>1, <3>2 DEF OriginInv
    <3> QED BY <2>5, <3>3, <3>4 DEF OriginInv
  <2> QED BY <1>3, <2>6, <2>7
<1>4. \/ KeepFields
      \/ /\ Turn /\ Claims(world, Sf) /\ fields' = Append(fields, FieldInfo(world, Sf, Index))
         /\ ClaimRemain \/ AddField
  BY DEF Next, vars, Rest, SkipField, RefuseField, InlineField, InlineAgain, ClaimRemain,
         RemainAgain, AddField, NextStruct, KeepFields, Collects
<1> QED BY <1>2, <1>3, <1>4

\* The walk only goes on, through the paths in their order.
LEMMA HereGoesOn ==
  ASSUME WalkInv, TypeOK', [Next]_vars, level' # << >>
  PROVE  level # << >> /\ Here \in Seq(Nat) /\ Here' \in Seq(Nat) /\ AtMost(Here, Here')
<1>1. CASE UNCHANGED vars \/ Rest
  BY <1>1, PathsAreSeqs DEF Rest, vars, Here, AtMost, WalkInv
<1>2. CASE Turn /\ level' = level
  <2>1. Precedes(Here, Here')
    BY <1>2, TurnIs, Advance
  <2>2. Here' = Append(level[1].index, at + 1) /\ level[1].index \in Seq(Nat) /\ at \in Nat
    BY <1>2, TurnIs, PathsAreSeqs DEF Here, TypeOK
  <2> QED BY <1>2, <2>1, <2>2, TurnIs DEF AtMost
<1>3. CASE NextStruct
  BY <1>3, NextHere, PathsAreSeqs DEF NextStruct, Done, AtMost, WalkInv
<1>4. UNCHANGED vars \/ Rest \/ (Turn /\ level' = level) \/ NextStruct
  BY DEF Next, SkipField, RefuseField, InlineField, InlineAgain, ClaimRemain, RemainAgain, AddField, KeepQueue
<1> QED BY <1>1, <1>2, <1>3, <1>4

\* What was reported still deserved it.
LEMMA FaultStays ==
  ASSUME WalkInv, TypeOK', Grows, [Next]_vars, NEW CONSTANT m \in DOMAIN errs, Fault(m)
  PROVE  Fault(m)'
<1>1. PICK t \in DOMAIN expanded : \E n \in DOMAIN world.types[t] :
        /\ \/ errs[m] = <<t, n, "tag">> /\ Fails(world, world.types[t][n])
           \/ /\ errs[m] = <<t, n, "remain">> /\ Collects(world, world.types[t][n])
              /\ remain # 0 /\ fields[remain].index # Append(expanded[t], n)
        /\ level # << >> => Precedes(Append(expanded[t], n), Here)
  BY DEF Fault
<1>2. PICK n \in DOMAIN world.types[t] :
        /\ \/ errs[m] = <<t, n, "tag">> /\ Fails(world, world.types[t][n])
           \/ /\ errs[m] = <<t, n, "remain">> /\ Collects(world, world.types[t][n])
              /\ remain # 0 /\ fields[remain].index # Append(expanded[t], n)
        /\ level # << >> => Precedes(Append(expanded[t], n), Here)
  BY <1>1
<1>3. /\ errs'[m] = errs[m] /\ world' = world /\ t \in DOMAIN expanded' /\ expanded'[t] = expanded[t]
      /\ remain # 0 => remain' = remain /\ fields'[remain] = fields[remain]
  <2>1. errs'[m] = errs[m] /\ t \in DOMAIN expanded' /\ expanded'[t] = expanded[t]
    BY DEF Grows, Extends
  <2>2. remain \in 0 .. Len(fields) /\ DOMAIN fields = 1 .. Len(fields) /\ Len(fields) \in Nat
    <3>1. TypeOK
      BY DEF WalkInv
    <3> QED BY <3>1 DEF TypeOK
  <2>3. remain # 0 => remain \in DOMAIN fields
    BY <2>2
  <2>4. remain # 0 => remain' = remain /\ fields'[remain] = fields[remain]
    BY <2>3 DEF Grows, Extends
  <2>5. world' = world
    BY DEF Grows
  <2> QED BY <2>1, <2>4, <2>5
<1>4. level' # << >> => Precedes(Append(expanded[t], n), Here')
  <2> SUFFICES ASSUME level' # << >> PROVE Precedes(Append(expanded[t], n), Here')
    OBVIOUS
  <2>1. n \in Nat /\ expanded[t] \in Seq(Nat) /\ Append(expanded[t], n) \in Seq(Nat)
    <3>1. world \in Worlds /\ t \in DOMAIN world.types /\ expanded[t] \in Seq(Nat)
      BY DEF WalkInv, TypeOK
    <3>2. n \in Nat
      BY <3>1, DeclaredIsList
    <3> QED BY <3>1, <3>2
  <2>2. level # << >> /\ Here \in Seq(Nat) /\ Here' \in Seq(Nat) /\ AtMost(Here, Here')
    BY HereGoesOn
  <2> QED BY <1>2, <2>1, <2>2, PrecedesTransitive DEF AtMost
<1> QED BY <1>2, <1>3, <1>4 DEF Fault

\* A step reports at most the field it looks at, which no earlier one did.
LEMMA ErrsStep ==
  ASSUME WalkInv, TypeOK', Grows, ErrsInv, [Next]_vars
  PROVE  ErrsInv'
<1>1. \A m \in DOMAIN errs : Fault(m)'
  BY FaultStays DEF ErrsInv
<1>2. CASE errs' = errs
  BY <1>1, <1>2 DEF ErrsInv
<1>3. CASE Turn /\ level' = level /\ (RefuseField \/ RemainAgain)
  <2>1. PICK kind \in {"tag", "remain"} : /\ errs' = Append(errs, <<Walked, at, kind>>)
                                          /\ kind = "tag" => Fails(world, Sf)
                                          /\ kind = "remain" => Collects(world, Sf) /\ remain # 0
    BY <1>3 DEF RefuseField, RemainAgain, Report
  <2>2. /\ Len(errs) \in Nat /\ DOMAIN errs = 1 .. Len(errs)
        /\ DOMAIN errs' = DOMAIN errs \union {Len(errs) + 1}
        /\ errs'[Len(errs) + 1] = <<Walked, at, kind>>
        /\ \A m \in DOMAIN errs : errs'[m] = errs[m]
    <3>1. errs \in Seq((DOMAIN world.types) \X Nat \X {"tag", "remain"})
      BY DEF WalkInv, TypeOK
    <3>2. Extends(errs', errs) /\ errs'[Len(errs) + 1] = <<Walked, at, kind>>
      BY <2>1, <3>1, AppendExtends
    <3> QED BY <2>1, <3>1, <3>2 DEF Extends
  <2>3. Precedes(Here, Here')
    BY <1>3, TurnIs, Advance
  <2>4. /\ world' = world /\ Walked \in DOMAIN expanded' /\ expanded'[Walked] = expanded[Walked]
        /\ remain # 0 => remain' = remain /\ fields'[remain] = fields[remain] /\ remain \in DOMAIN fields
    <3>1. Walked \in DOMAIN expanded /\ (remain # 0 => remain \in DOMAIN fields)
      BY <1>3, TurnIs DEF TypeOK
    <3> QED BY <3>1 DEF Grows, Extends
  <2>5. remain # 0 => fields[remain].index # Here
    <3>1. remain # 0 => Precedes(fields[remain].index, Here)
      BY <1>3, <2>4, TurnIs DEF WalkInv, OrderInv, Before
    <3> QED BY <1>3, <3>1, TurnIs, PrecedesProper
  <2>6. ASSUME NEW CONSTANT m, m = Len(errs) + 1 PROVE Fault(m)'
    <3>1. errs'[m] = <<Walked, at, kind>> /\ Here = Append(expanded'[Walked], at)
          /\ at \in DOMAIN world.types[Walked] /\ Sf = world.types[Walked][at]
      BY <1>3, <2>2, <2>4, <2>6, TurnIs
    <3>2. \/ errs'[m] = <<Walked, at, "tag">> /\ Fails(world, world.types[Walked][at])
          \/ /\ errs'[m] = <<Walked, at, "remain">> /\ Collects(world, world.types[Walked][at])
             /\ remain' # 0 /\ fields'[remain'].index # Append(expanded'[Walked], at)
      BY <2>1, <2>4, <2>5, <3>1
    <3>3. Precedes(Append(expanded'[Walked], at), Here')
      BY <2>3, <3>1
    <3> QED BY <2>4, <3>1, <3>2, <3>3 DEF Fault
  <2>7. ASSUME NEW m \in DOMAIN errs PROVE errs[m] # <<Walked, at, kind>>
    <3>1. PICK t \in DOMAIN expanded : \E n \in DOMAIN world.types[t] :
            (\E k \in {"tag", "remain"} : errs[m] = <<t, n, k>>) /\ Precedes(Append(expanded[t], n), Here)
      BY <1>3, TurnIs DEF ErrsInv, Fault
    <3>2. PICK n \in DOMAIN world.types[t] :
            (\E k \in {"tag", "remain"} : errs[m] = <<t, n, k>>) /\ Precedes(Append(expanded[t], n), Here)
      BY <3>1
    <3>3. ASSUME t = Walked, n = at PROVE FALSE
      <4>1. Precedes(Here, Here) /\ Here \in Seq(Nat)
        BY <1>3, <3>2, <3>3, TurnIs
      <4> QED BY <4>1, PrecedesProper
    <3> QED BY <3>2, <3>3
  <2>8. \A m \in DOMAIN errs' : Fault(m)'
    BY <1>1, <2>2, <2>6
  <2>9. \A m, n \in DOMAIN errs' : errs'[m] = errs'[n] => m = n
    BY <2>2, <2>7 DEF ErrsInv
  <2> QED BY <2>8, <2>9 DEF ErrsInv
<1>4. errs' = errs \/ (Turn /\ level' = level /\ (RefuseField \/ RemainAgain))
  BY DEF Next, vars, Rest, SkipField, RefuseField, InlineField, InlineAgain, ClaimRemain,
         RemainAgain, AddField, NextStruct, KeepQueue
<1> QED BY <1>2, <1>3, <1>4

\* What is kept, queued and reported always has its reason in the types.
LEMMA FoundStep == AnalysisInv /\ FoundInv /\ [Next]_vars => FoundInv'
<1> SUFFICES ASSUME AnalysisInv, FoundInv, [Next]_vars PROVE FoundInv'
  OBVIOUS
<1>1. WalkInv /\ TypeOK' /\ Grows
  BY StepGrows, TypeStep DEF AnalysisInv, WalkInv
<1> QED BY <1>1, PlaceStep, OriginStep, ErrsStep DEF FoundInv


-----------------------------------------------------------------------------
(* The end of the analysis.                                                *)

\* What holds when the analysis is over.
Ended == AnalysisInv /\ RootInv /\ FoundInv /\ Done

\* What the proofs about the end use of the invariants.
LEMMA EndedFacts ==
  ASSUME Ended
  PROVE  /\ TypeOK /\ NoneForgotten /\ world \in Worlds /\ Deep(world) \in Nat
         /\ world.root \in DOMAIN world.types
         /\ \A t \in DOMAIN expanded :
              /\ t \in DOMAIN world.types /\ DOMAIN world.types[t] \subseteq Nat
              /\ expanded[t] \in Seq(Nat) /\ SettledType(t, expanded[t])
<1>1. TypeOK /\ NoneForgotten
  BY DEF Ended, AnalysisInv, WalkInv, QueueInv, SettledInv, NoneForgotten, Done
<1>2. world \in Worlds /\ world.root \in DOMAIN world.types
  BY <1>1, WorldsAssumption DEF TypeOK
<1>3. \A t \in DOMAIN expanded : t \in DOMAIN world.types /\ expanded[t] \in Seq(Nat)
  BY <1>1 DEF TypeOK
<1>4. \A t \in DOMAIN expanded : DOMAIN world.types[t] \subseteq Nat
  BY <1>2, <1>3, DeclaredIsList
<1> QED BY <1>1, <1>2, <1>3, <1>4, DeepIs DEF Ended, NoneForgotten

\* The place a type was expanded at is one step from another such place.
LEMMA PlaceAbove ==
  ASSUME Ended, NEW t \in DOMAIN expanded, Len(expanded[t]) # 0
  PROVE  \E u \in DOMAIN expanded : \E j \in DOMAIN world.types[u] :
           /\ Inlined(world, world.types[u][j]) /\ world.types[u][j].base = t
           /\ expanded[t] = Append(expanded[u], j) /\ Len(expanded[u]) = Len(expanded[t]) - 1
<1>1. PICK u \in DOMAIN expanded : \E j \in DOMAIN world.types[u] :
        /\ Inlined(world, world.types[u][j]) /\ world.types[u][j].base = t
        /\ expanded[t] = Append(expanded[u], j)
  BY DEF Ended, FoundInv, PlaceInv
<1>2. \A j \in DOMAIN world.types[u] : Len(Append(expanded[u], j)) = Len(expanded[u]) + 1
      /\ Len(expanded[u]) \in Nat
  BY EndedFacts
<1> QED BY <1>1, <1>2

\* A type was expanded at a path that leads to it.
LEMMA PlaceLeads ==
  ASSUME Ended, NEW t \in DOMAIN expanded
  PROVE  Leads(world, expanded[t], t)
<1> DEFINE Lost(u) == u \in DOMAIN expanded /\ ~Leads(world, expanded[u], u)
           L == {k \in Nat : \E u : Lost(u) /\ Len(expanded[u]) = k}
<1>1. ASSUME NEW u, Lost(u) PROVE \E v : Lost(v) /\ Len(expanded[v]) = Len(expanded[u]) - 1
  <2>1. Len(expanded[u]) # 0
    <3>1. ASSUME Len(expanded[u]) = 0 PROVE FALSE
      <4>1. expanded[u] = << >>
        BY <1>1, <3>1, EndedFacts
      <4>2. u = world.root
        <5>1. \A v \in DOMAIN expanded : \A j \in DOMAIN world.types[v] :
                Append(expanded[v], j) # << >>
          <6> SUFFICES ASSUME NEW v \in DOMAIN expanded, NEW j \in DOMAIN world.types[v],
                              Append(expanded[v], j) = << >>
                       PROVE  FALSE
            OBVIOUS
          <6>1. expanded[v] \in Seq(Nat)
            BY EndedFacts
          <6>2. Len(Append(expanded[v], j)) = Len(expanded[v]) + 1 /\ Len(expanded[v]) \in Nat
            BY <6>1
          <6> QED BY <6>2
        <5> QED BY <1>1, <4>1, <5>1 DEF Ended, FoundInv, PlaceInv
      <4> QED BY <1>1, <4>1, <4>2, EndedFacts, LeadsRoot
    <3> QED BY <3>1
  <2>2. PICK v \in DOMAIN expanded : \E j \in DOMAIN world.types[v] :
          /\ Inlined(world, world.types[v][j]) /\ world.types[v][j].base = u
          /\ expanded[u] = Append(expanded[v], j) /\ Len(expanded[v]) = Len(expanded[u]) - 1
    BY <1>1, <2>1, PlaceAbove
  <2>3. Leads(world, expanded[v], v) => Leads(world, expanded[u], u)
    BY <2>2, EndedFacts, LeadsOn
  <2> QED BY <1>1, <2>2, <2>3
<1>2. ASSUME Lost(t) PROVE FALSE
  <2>1. L \subseteq Nat /\ Len(expanded[t]) \in L
    BY <1>2, EndedFacts
  <2>2. PICK least \in L : \A k \in L : least <= k
    <3> HIDE DEF L
    <3> QED BY <2>1, LeastOf
  <2>3. PICK u : Lost(u) /\ Len(expanded[u]) = least
    OBVIOUS
  <2>4. PICK v : Lost(v) /\ Len(expanded[v]) = Len(expanded[u]) - 1
    BY <1>1, <2>3
  <2>5. Len(expanded[v]) \in L /\ Len(expanded[v]) < least
    BY <2>3, <2>4, EndedFacts
  <2>6. Len(expanded[v]) \in Nat /\ least \in Nat
    BY <2>4, EndedFacts
  <2> QED BY <2>2, <2>5, <2>6
<1> QED BY <1>2

\* Types were expanded at every depth down to the deepest, so no deeper than
\* there are types.
LEMMA PlaceShallow ==
  ASSUME Ended, NEW t \in DOMAIN expanded
  PROVE  Len(expanded[t]) <= Deep(world)
<1> DEFINE L == {Len(expanded[u]) : u \in DOMAIN expanded}
           top == Len(expanded[t])
           Gaps == {i \in 0 .. top : top - i \notin L}
<1>1. top \in Nat /\ top \in L /\ \A u \in DOMAIN expanded : Len(expanded[u]) \in Nat
  BY EndedFacts
<1>2. ASSUME Gaps # {} PROVE FALSE
  <2>1. Gaps \subseteq Nat
    OBVIOUS
  <2>2. PICK i \in Gaps : \A k \in Gaps : i <= k
    <3> HIDE DEF Gaps
    <3> QED BY <1>2, <2>1, LeastOf
  <2>3. i \in 0 .. top /\ i # 0 /\ top - i \notin L
    BY <1>1
  <2>4. i - 1 \notin Gaps /\ i - 1 \in 0 .. top
    <3>1. i - 1 \in 0 .. top /\ ~(i <= i - 1)
      BY <1>1, <2>3
    <3> HIDE DEF Gaps
    <3> QED BY <2>2, <3>1
  <2>5. PICK u \in DOMAIN expanded : Len(expanded[u]) = top - (i - 1)
    BY <2>4
  <2>6. Len(expanded[u]) # 0
    BY <1>1, <2>3, <2>5
  <2>7. PICK v \in DOMAIN expanded : Len(expanded[v]) = Len(expanded[u]) - 1
    BY <2>6, PlaceAbove
  <2>8. Len(expanded[v]) = top - i
    BY <1>1, <2>3, <2>5, <2>7
  <2> QED BY <2>3, <2>8
<1>3. 0 .. top \subseteq L
  <2> SUFFICES ASSUME NEW k \in 0 .. top PROVE k \in L
    OBVIOUS
  <2>1. top - k \in 0 .. top /\ top - (top - k) = k
    BY <1>1
  <2>2. top - k \notin Gaps
    BY <1>2
  <2> QED BY <2>1, <2>2
<1>4. IsFiniteSet(DOMAIN world.types) /\ DOMAIN expanded \subseteq DOMAIN world.types
  BY EndedFacts, WorldsAssumption
<1>5. IsFiniteSet(DOMAIN expanded) /\ Cardinality(DOMAIN expanded) <= Deep(world)
      /\ Cardinality(DOMAIN expanded) \in Nat
  BY <1>4, FS_Subset, FS_CardinalityType DEF Deep
<1>6. IsFiniteSet(L) /\ Cardinality(L) <= Cardinality(DOMAIN expanded) /\ Cardinality(L) \in Nat
  <2> DEFINE len == [u \in DOMAIN expanded |-> Len(expanded[u])]
  <2>1. len \in [DOMAIN expanded -> L] /\ \A k \in L : \E u \in DOMAIN expanded : len[u] = k
    OBVIOUS
  <2>2. len \in Surjection(DOMAIN expanded, L)
    <3> HIDE DEF len, L
    <3> QED BY <2>1 DEF Surjection
  <2> HIDE DEF len, L
  <2>3. IsFiniteSet(L) /\ Cardinality(L) <= Cardinality(DOMAIN expanded)
    BY <1>5, <2>2, FS_Surjection
  <2> QED BY <2>3, FS_CardinalityType
<1>7. Cardinality(0 .. top) = top + 1 /\ Cardinality(0 .. top) <= Cardinality(L)
  <2> HIDE DEF L, top
  <2>1. Cardinality(0 .. top) = top + 1
    BY <1>1, FS_Interval
  <2> QED BY <1>3, <1>6, <2>1, FS_Subset
<1> HIDE DEF L, top
<1>8. top <= Deep(world)
  BY <1>1, <1>5, <1>6, <1>7, EndedFacts
<1> QED BY <1>8 DEF top

\* The types that are reached are those that were expanded, each first where
\* it was.
LEMMA PlacesOccur ==
  ASSUME Ended
  PROVE  /\ \A t \in DOMAIN expanded : [typ |-> t, index |-> expanded[t]] \in Occurrences(world)
         /\ \A q \in Occurrences(world) :
              /\ q.typ \in DOMAIN expanded /\ AtMost(expanded[q.typ], q.index)
              /\ q.index \in Seq(Nat) /\ SettledType(q.typ, q.index)
         /\ Reached(world) = DOMAIN expanded
<1>1. Occurrences(world) = {q \in Queued(world) : Len(q.index) <= Deep(world) /\ Leads(world, q.index, q.typ)}
  BY EndedFacts, OccursIs
<1>2. ASSUME NEW t \in DOMAIN expanded
      PROVE  [typ |-> t, index |-> expanded[t]] \in Occurrences(world)
  <2>1. [typ |-> t, index |-> expanded[t]] \in Queued(world)
    BY EndedFacts DEF Queued
  <2> QED BY <1>1, <2>1, PlaceLeads, PlaceShallow
<1>3. ASSUME NEW q \in Occurrences(world)
      PROVE  /\ q.typ \in DOMAIN expanded /\ AtMost(expanded[q.typ], q.index)
             /\ q.index \in Seq(Nat) /\ SettledType(q.typ, q.index)
  <2>1. q.typ \in DOMAIN world.types /\ q.index \in Seq(Nat) /\ Leads(world, q.index, q.typ)
    BY <1>1 DEF Queued
  <2> QED BY <2>1, EndedFacts, SettledEverywhere DEF Ended
<1>4. Reached(world) = DOMAIN expanded
  <2>1. \A t \in DOMAIN expanded : \E q \in Occurrences(world) : q.typ = t
    BY <1>2
  <2> QED BY <1>3, <2>1 DEF Reached
<1> QED BY <1>2, <1>3, <1>4

\* The path that comes before all others is the foremost.
LEMMA ForemostIs ==
  ASSUME NEW P, P \subseteq Seq(Nat), NEW p \in P, \A q \in P : AtMost(p, q)
  PROVE  Foremost(P) = p
<1>1. \A q \in P : p = q \/ Precedes(p, q)
  BY DEF AtMost
<1>2. ASSUME NEW q \in P, \A r \in P : q = r \/ Precedes(q, r) PROVE q = p
  <2>1. q = p \/ (Precedes(q, p) /\ Precedes(p, q))
    BY <1>1, <1>2
  <2>2. p \in Seq(Nat) /\ q \in Seq(Nat)
    OBVIOUS
  <2> QED BY <2>1, <2>2, PrecedesTransitive, PrecedesProper
<1> QED BY <1>1, <1>2 DEF Foremost

\* The foremost place of a type is where it was expanded.
LEMMA FirstPlace ==
  ASSUME Ended, NEW t \in DOMAIN expanded
  PROVE  Foremost({q.index : q \in {o \in Occurrences(world) : o.typ = t}}) = expanded[t]
<1> DEFINE P == {q.index : q \in {o \in Occurrences(world) : o.typ = t}}
<1>1. P \subseteq Seq(Nat) /\ \A p \in P : AtMost(expanded[t], p)
  BY PlacesOccur
<1>2. expanded[t] \in P
  <2> DEFINE here == [typ |-> t, index |-> expanded[t]]
  <2>1. here \in Occurrences(world) /\ here.typ = t /\ here.index = expanded[t]
    BY PlacesOccur
  <2> HIDE DEF here
  <2> QED BY <2>1
<1> HIDE DEF P
<1>3. Foremost(P) = expanded[t]
  BY <1>1, <1>2, ForemostIs
<1> QED BY <1>3 DEF P

\* The errors are those of the places the types were expanded at.
LEMMA EndReportsEveryBadTag == Ended => ReportsEveryBadTag
<1> SUFFICES ASSUME Ended PROVE ReportsEveryBadTag
  OBVIOUS
<1> DEFINE first(t) == Foremost({q.index : q \in {o \in Occurrences(world) : o.typ = t}})
           places   == {[typ |-> t, index |-> first(t)] : t \in Reached(world)}
           Due(q)   == {<<q.typ, n, "tag">> : n \in Faulty(world, q.typ)} \union
                       {<<q.typ, n, "remain">> : n \in Extra(world, q)}
           place(t) == [typ |-> t, index |-> expanded[t]]
<1>1. places = {place(t) : t \in DOMAIN expanded}
  <2>1. \A t \in DOMAIN expanded : first(t) = expanded[t]
    BY FirstPlace
  <2>2. Reached(world) = DOMAIN expanded
    BY PlacesOccur
  <2> HIDE DEF first
  <2> QED BY <2>1, <2>2
<1>2. ASSUME NEW m \in DOMAIN errs PROVE \E t \in DOMAIN expanded : errs[m] \in Due(place(t))
  <2>1. PICK t \in DOMAIN expanded : \E n \in DOMAIN world.types[t] :
          \/ errs[m] = <<t, n, "tag">> /\ Fails(world, world.types[t][n])
          \/ /\ errs[m] = <<t, n, "remain">> /\ Collects(world, world.types[t][n])
             /\ remain # 0 /\ fields[remain].index # Append(expanded[t], n)
    BY DEF Ended, FoundInv, ErrsInv, Fault
  <2>2. PICK n \in DOMAIN world.types[t] :
          \/ errs[m] = <<t, n, "tag">> /\ Fails(world, world.types[t][n])
          \/ /\ errs[m] = <<t, n, "remain">> /\ Collects(world, world.types[t][n])
             /\ remain # 0 /\ fields[remain].index # Append(expanded[t], n)
    BY <2>1
  <2>3. \/ errs[m] = <<t, n, "tag">> /\ n \in Faulty(world, t)
        \/ errs[m] = <<t, n, "remain">> /\ n \in Extra(world, place(t))
    BY <2>2 DEF Faulty, Extra
  <2> QED BY <2>3
<1>3. ASSUME NEW t \in DOMAIN expanded, NEW e \in Due(place(t)) PROVE \E m \in DOMAIN errs : errs[m] = e
  <2>1. \A n \in DOMAIN world.types[t] : Settled(t, n, expanded[t])
    BY EndedFacts DEF SettledType
  <2>2. ASSUME NEW n \in Faulty(world, t) PROVE Told(t, n, "tag")
    BY <2>1 DEF Faulty, Settled
  <2>3. ASSUME NEW n \in Extra(world, place(t)) PROVE Told(t, n, "remain")
    BY <2>1 DEF Extra, Settled
  <2> QED BY <2>2, <2>3 DEF Told
<1>4. {errs[m] : m \in DOMAIN errs} = UNION {Due(q) : q \in places}
  <2> HIDE DEF Due, places, place
  <2>1. UNION {Due(q) : q \in places} = UNION {Due(place(t)) : t \in DOMAIN expanded}
    BY <1>1
  <2> QED BY <1>2, <1>3, <2>1
<1>5. \A m, n \in DOMAIN errs : errs[m] = errs[n] => m = n
  BY DEF Ended, FoundInv, ErrsInv
<1> QED BY <1>4, <1>5 DEF ReportsEveryBadTag

\* Slots that lead to a field that wants them, and to no later one than any
\* that does, hold the foremost.
LEMMA ForemostHeld ==
  ASSUME NEW slots, NEW wanted, \A c \in wanted : c.index \in Seq(Nat),
         \A c \in wanted : c.slot \in DOMAIN slots /\ AtMost(fields[slots[c.slot]].index, c.index),
         \A k \in DOMAIN slots : \E c \in wanted : c.slot = k /\ c.index = fields[slots[k]].index
  PROVE  HoldsForemost(slots, wanted)
<1>1. DOMAIN slots = {c.slot : c \in wanted}
  OBVIOUS
<1>2. ASSUME NEW k \in DOMAIN slots
      PROVE  fields[slots[k]].index = Foremost({c.index : c \in {d \in wanted : d.slot = k}})
  <2> DEFINE P == {c.index : c \in {d \in wanted : d.slot = k}}
  <2>1. /\ P \subseteq Seq(Nat) /\ fields[slots[k]].index \in P
        /\ \A p \in P : AtMost(fields[slots[k]].index, p)
    OBVIOUS
  <2> HIDE DEF P
  <2>2. Foremost(P) = fields[slots[k]].index
    BY <2>1, ForemostIs
  <2> QED BY <2>2 DEF P
<1> QED BY <1>1, <1>2 DEF HoldsForemost

\* The fields that are found are those of settled types, at their paths.
LEMMA CandidateIs ==
  ASSUME Ended, NEW c \in Candidates(world)
  PROVE  /\ c.index \in Seq(Nat)
         /\ Claims(world, c.field) /\ ~Collects(world, c.field) =>
              /\ KeyName(world, c.field) \in DOMAIN byName
              /\ AtMost(fields[byName[KeyName(world, c.field)]].index, c.index)
              /\ world.cfg.normalizer =>
                   /\ Norm[KeyName(world, c.field)] \in DOMAIN byNorm
                   /\ AtMost(fields[byNorm[Norm[KeyName(world, c.field)]]].index, c.index)
         /\ Collects(world, c.field) => remain # 0 /\ AtMost(fields[remain].index, c.index)
<1>1. PICK q \in Occurrences(world) : \E j \in DOMAIN world.types[q.typ] :
        c = [field |-> world.types[q.typ][j], index |-> Append(q.index, j)]
  BY DEF Candidates
<1>2. PICK j \in DOMAIN world.types[q.typ] :
        c = [field |-> world.types[q.typ][j], index |-> Append(q.index, j)]
  BY <1>1
<1>3. q.typ \in DOMAIN expanded /\ q.index \in Seq(Nat) /\ Settled(q.typ, j, q.index)
  BY PlacesOccur DEF SettledType
<1>4. c.field = world.types[q.typ][j] /\ c.index = Append(q.index, j) /\ j \in Nat
  BY <1>2, <1>3, EndedFacts
<1> DEFINE f == c.field
           p == c.index
<1>5. f = world.types[q.typ][j] /\ p = Append(q.index, j)
  BY <1>4
<1>6. p \in Seq(Nat)
  <2>1. Append(q.index, j) \in Seq(Nat)
    BY <1>3, <1>4
  <2> QED BY <1>4, <2>1
<1> HIDE DEF f, p
<1>7. Claims(world, f) /\ ~Collects(world, f) =>
        /\ KeyName(world, f) \in DOMAIN byName
        /\ AtMost(fields[byName[KeyName(world, f)]].index, p)
        /\ world.cfg.normalizer =>
             /\ Norm[KeyName(world, f)] \in DOMAIN byNorm
             /\ AtMost(fields[byNorm[Norm[KeyName(world, f)]]].index, p)
  BY <1>3, <1>5 DEF Settled
<1>8. Collects(world, f) => remain # 0 /\ AtMost(fields[remain].index, p)
  BY <1>3, <1>5 DEF Settled
<1> QED BY <1>6, <1>7, <1>8 DEF f, p

\* Whatever was kept is one of them.
LEMMA KeptIs ==
  ASSUME Ended, NEW n \in DOMAIN fields
  PROVE  \E c \in Candidates(world) :
           /\ Claims(world, c.field) /\ (Collects(world, c.field) <=> n = remain)
           /\ c.index = fields[n].index /\ KeyName(world, c.field) = fields[n].name
<1>1. PICK t \in DOMAIN expanded : \E j \in DOMAIN world.types[t] :
        /\ Claims(world, world.types[t][j]) /\ (Collects(world, world.types[t][j]) <=> n = remain)
        /\ fields[n].index = Append(expanded[t], j) /\ fields[n].name = KeyName(world, world.types[t][j])
  BY DEF Ended, FoundInv, OriginInv, Origin
<1>2. PICK j \in DOMAIN world.types[t] :
        /\ Claims(world, world.types[t][j]) /\ (Collects(world, world.types[t][j]) <=> n = remain)
        /\ fields[n].index = Append(expanded[t], j) /\ fields[n].name = KeyName(world, world.types[t][j])
  BY <1>1
<1> DEFINE c == [field |-> world.types[t][j], index |-> Append(expanded[t], j)]
<1>3. c \in Candidates(world)
  <2> DEFINE q == [typ |-> t, index |-> expanded[t]]
  <2>1. q \in Occurrences(world) /\ q.typ = t /\ q.index = expanded[t]
    BY PlacesOccur
  <2>2. c \in {[field |-> world.types[q.typ][i], index |-> Append(q.index, i)] : i \in DOMAIN world.types[q.typ]}
    BY <2>1
  <2> HIDE DEF c, q
  <2> QED BY <2>1, <2>2 DEF Candidates
<1>4. c.field = world.types[t][j] /\ c.index = Append(expanded[t], j)
  OBVIOUS
<1> HIDE DEF c
<1> QED BY <1>2, <1>3, <1>4

\* At the end each key, each normalized key and the place of the remain field
\* is with the foremost field that wants it.
LEMMA EndPromoted == Ended => Promoted
<1> SUFFICES ASSUME Ended PROVE Promoted
  OBVIOUS
<1>1. /\ \A k \in DOMAIN byName : /\ byName[k] \in DOMAIN fields /\ byName[k] # remain
                                  /\ fields[byName[k]].name = k
      /\ \A k \in DOMAIN byNorm : /\ byNorm[k] \in DOMAIN fields /\ byNorm[k] # remain
                                  /\ world.cfg.normalizer /\ Norm[fields[byNorm[k]].name] = k
      /\ remain # 0 => remain \in DOMAIN fields
  BY EndedFacts DEF Ended, FoundInv, OriginInv, AnalysisInv, NamesInv, TypeOK
<1>2. \A c \in Claimants(world) : c \in Candidates(world) /\ Claims(world, c.field) /\ ~Collects(world, c.field)
  BY DEF Claimants
<1>3. ASSUME NEW n \in DOMAIN fields, n # remain
      PROVE  \E c \in Claimants(world) : c.index = fields[n].index /\ KeyName(world, c.field) = fields[n].name
  BY <1>3, KeptIs DEF Claimants
<1>4. HoldsForemost(byName, WantedKeys(world))
  <2>1. ASSUME NEW d \in WantedKeys(world)
        PROVE  d.index \in Seq(Nat) /\ d.slot \in DOMAIN byName /\ AtMost(fields[byName[d.slot]].index, d.index)
    <3>1. PICK c \in Claimants(world) : d = [slot |-> KeyName(world, c.field), index |-> c.index]
      BY DEF WantedKeys
    <3> QED BY <1>2, <3>1, CandidateIs
  <2>2. ASSUME NEW k \in DOMAIN byName
        PROVE  \E d \in WantedKeys(world) : d.slot = k /\ d.index = fields[byName[k]].index
    <3>1. PICK c \in Claimants(world) : c.index = fields[byName[k]].index /\ KeyName(world, c.field) = k
      BY <1>1, <1>3
    <3>2. [slot |-> KeyName(world, c.field), index |-> c.index] \in WantedKeys(world)
      BY DEF WantedKeys
    <3> QED BY <3>1, <3>2
  <2> QED BY <2>1, <2>2, ForemostHeld
<1>5. HoldsForemost(byNorm, WantedNorms(world))
  <2>1. ASSUME NEW d \in WantedNorms(world)
        PROVE  d.index \in Seq(Nat) /\ d.slot \in DOMAIN byNorm /\ AtMost(fields[byNorm[d.slot]].index, d.index)
    <3>1. PICK c \in Claimants(world) :
            world.cfg.normalizer /\ d = [slot |-> Norm[KeyName(world, c.field)], index |-> c.index]
      BY DEF WantedNorms
    <3> QED BY <1>2, <3>1, CandidateIs
  <2>2. ASSUME NEW k \in DOMAIN byNorm
        PROVE  \E d \in WantedNorms(world) : d.slot = k /\ d.index = fields[byNorm[k]].index
    <3>1. PICK c \in Claimants(world) : c.index = fields[byNorm[k]].index /\ Norm[KeyName(world, c.field)] = k
      BY <1>1, <1>3
    <3>2. [slot |-> Norm[KeyName(world, c.field)], index |-> c.index] \in WantedNorms(world)
      BY <1>1 DEF WantedNorms
    <3> QED BY <3>1, <3>2
  <2> QED BY <2>1, <2>2, ForemostHeld
<1>6. Collectors(world) = {} => remain = 0
  BY <1>1, KeptIs DEF Collectors
<1>7. ASSUME Collectors(world) # {}
      PROVE  remain # 0 /\ fields[remain].index = Foremost({c.index : c \in Collectors(world)})
  <2> DEFINE P == {c.index : c \in Collectors(world)}
  <2>1. \A c \in Collectors(world) :
          c.index \in Seq(Nat) /\ remain # 0 /\ AtMost(fields[remain].index, c.index)
    BY CandidateIs DEF Collectors
  <2>2. remain # 0 /\ P \subseteq Seq(Nat) /\ \A p \in P : AtMost(fields[remain].index, p)
    BY <1>7, <2>1
  <2>3. fields[remain].index \in P
    BY <1>1, <2>2, KeptIs DEF Collectors
  <2> HIDE DEF P
  <2>4. Foremost(P) = fields[remain].index
    BY <2>2, <2>3, ForemostIs
  <2> QED BY <2>2, <2>4 DEF P
<1> QED BY <1>4, <1>5, <1>6, <1>7 DEF Promoted

\* Whatever types inline each other, themselves or one type twice: a key, a
\* normalized key and the place of the remain field go to the shallowest field
\* that wants them, to the earliest of several, as if every struct were walked
\* at every place it occurs, although analyze expands each only once.
THEOREM AlwaysPromoted == Spec => []Promoted
<1>1. AnalysisInv /\ RootInv /\ FoundInv => Promoted
  BY EndPromoted DEF Ended, Promoted
<1> QED BY <1>1, AnalysisInit, RootInit, FoundInit, AnalysisStep, RootStep, FoundStep, PTL DEF Spec

\* analyze reports each declared field with a bad tag, and each remain field
\* but the one it uses, once and nothing else, whatever shadows the field and
\* on however many paths its type is reached.
THEOREM EveryBadTagReported == Spec => []ReportsEveryBadTag
<1>1. AnalysisInv /\ RootInv /\ FoundInv => ReportsEveryBadTag
  BY EndReportsEveryBadTag DEF Ended, ReportsEveryBadTag
<1> QED BY <1>1, AnalysisInit, RootInit, FoundInit, AnalysisStep, RootStep, FoundStep, PTL DEF Spec

=============================================================================
