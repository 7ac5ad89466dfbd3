--------------------------- MODULE CodecCacheProofs ---------------------------
(***************************************************************************)
(* Proofs about the shared caches of a codec, for any number of            *)
(* goroutines, types and analyses.                                         *)
(*                                                                         *)
(* CachesAgree is not inductive: at the moment of needsGeneric's Store it  *)
(* rests on the goroutine holding the analysis everybody has, which is     *)
(* what HoldsTheCached adds.                                               *)
(***************************************************************************)
EXTENDS CodecCache, TLAPS

Inv == TypeOK /\ HoldsTheCached /\ CachesAgree

\* The caches start empty: the invariant holds.
LEMMA InvInit == Init => Inv
BY CacheAssumption DEF Init, Inv, TypeOK, Shape, Fits, HoldsTheCached, CachesAgree

\* The type invariant is kept by every step, and by itself.
LEMMA TypeStep == TypeOK /\ [Next]_vars => TypeOK'
<1> SUFFICES ASSUME TypeOK, [Next]_vars PROVE TypeOK'
  OBVIOUS
<1> USE CacheAssumption DEF TypeOK, Go, Return, After
<1>1. ASSUME NEW g \in Goroutines, NEW t \in Structs, NeedInfo(g, t) PROVE TypeOK'
  <2>1. Shape'
    BY <1>1 DEF NeedInfo, Shape, Fits
  <2>2. ASSUME NEW h \in Goroutines PROVE Fits(h)'
    BY <1>1 DEF NeedInfo, Shape, Fits
  <2> QED
    BY <2>1, <2>2
<1>2. ASSUME NEW g \in Goroutines, NEW t \in Types, GenericMiss(g, t) PROVE TypeOK'
  <2>1. Shape'
    BY <1>2 DEF GenericMiss, Shape, Fits
  <2>2. ASSUME NEW h \in Goroutines PROVE Fits(h)'
    BY <1>2 DEF GenericMiss, Shape, Fits
  <2> QED
    BY <2>1, <2>2
<1>3. ASSUME NEW g \in Goroutines, LoadHit(g) PROVE TypeOK'
  <2>1. Shape'
    BY <1>3 DEF LoadHit, Shape, Fits
  <2>2. ASSUME NEW h \in Goroutines PROVE Fits(h)'
    BY <1>3 DEF LoadHit, Shape, Fits
  <2> QED
    BY <2>1, <2>2
<1>4. ASSUME NEW g \in Goroutines, LoadMiss(g) PROVE TypeOK'
  <2>1. Shape'
    BY <1>4 DEF LoadMiss, Shape, Fits
  <2>2. ASSUME NEW h \in Goroutines PROVE Fits(h)'
    BY <1>4 DEF LoadMiss, Shape, Fits
  <2> QED
    BY <2>1, <2>2
<1>5. ASSUME NEW g \in Goroutines, Analyze(g) PROVE TypeOK'
  <2>1. Shape'
    BY <1>5 DEF Analyze, Shape, Fits
  <2>2. ASSUME NEW h \in Goroutines PROVE Fits(h)'
    BY <1>5 DEF Analyze, Shape, Fits
  <2> QED
    BY <2>1, <2>2
<1>6. ASSUME NEW g \in Goroutines, Panic(g) PROVE TypeOK'
  <2>1. Shape'
    BY <1>6 DEF Panic, Shape, Fits
  <2>2. ASSUME NEW h \in Goroutines PROVE Fits(h)'
    BY <1>6 DEF Panic, Shape, Fits
  <2> QED
    BY <2>1, <2>2
<1>7. ASSUME NEW g \in Goroutines, Settle(g) PROVE TypeOK'
  <2>1. Shape'
    BY <1>7 DEF Settle, Shape, Fits
  <2>2. ASSUME NEW h \in Goroutines PROVE Fits(h)'
    BY <1>7 DEF Settle, Shape, Fits
  <2> QED
    BY <2>1, <2>2
<1>8. ASSUME NEW g \in Goroutines, StoreGeneric(g) PROVE TypeOK'
  <2>1. Shape'
    BY <1>8 DEF StoreGeneric, Shape, Fits
  <2>2. ASSUME NEW h \in Goroutines PROVE Fits(h)'
    BY <1>8 DEF StoreGeneric, Shape, Fits
  <2> QED
    BY <2>1, <2>2
<1>9. CASE UNCHANGED vars
  BY <1>9 DEF vars, Shape, Fits
<1> QED
  BY <1>1, <1>2, <1>3, <1>4, <1>5, <1>6, <1>7, <1>8, <1>9 DEF Next, Step

\* Type correctness for every constant: what a goroutine holds fits where it
\* is in structInfoOf and needsGeneric.
THEOREM TypeCorrect == Spec => []TypeOK
<1>1. Init => TypeOK
  BY InvInit DEF Inv
<1> QED
  BY <1>1, TypeStep, PTL DEF Spec

\* What a step may do to one entry of the caches: settle it if it is empty.
LEMMA SettledStep ==
  ASSUME Inv, [Next]_vars
  PROVE  /\ \A t \in Structs : cache[t] # None => cache'[t] = cache[t]
         /\ \A t \in Types : generics[t] # None => generics'[t] = generics[t]
<1> USE CacheAssumption DEF Inv, TypeOK, Shape, Fits, Go, Return
<1>1. ASSUME NEW g \in Goroutines, Settle(g)
      PROVE  \A t \in Structs : cache[t] # None => cache'[t] = cache[t]
  BY <1>1 DEF Settle
<1>2. ASSUME NEW g \in Goroutines, StoreGeneric(g), NEW t \in Types, generics[t] # None
      PROVE  generics'[t] = generics[t]
  <2>1. generics'[for[g]] = (si[g] \notin Flat)
    BY <1>2 DEF StoreGeneric
  <2>2. si[g] = cache[StructIn[for[g]]]
    BY <1>2 DEF StoreGeneric, HoldsTheCached
  <2>3. CASE t = for[g]
    BY <1>2, <2>1, <2>2, <2>3 DEF CachesAgree
  <2>4. CASE t # for[g]
    BY <1>2, <2>4 DEF StoreGeneric
  <2> QED
    BY <2>3, <2>4
<1>3. CASE UNCHANGED <<cache, generics>>
  BY <1>3
<1>4. ASSUME NEW g \in Goroutines, Settle(g) PROVE UNCHANGED generics
  BY <1>4 DEF Settle
<1>5. ASSUME NEW g \in Goroutines, StoreGeneric(g) PROVE UNCHANGED cache
  BY <1>5 DEF StoreGeneric
<1>6. \/ UNCHANGED <<cache, generics>>
      \/ \E g \in Goroutines : Settle(g) \/ StoreGeneric(g)
  BY DEF Next, Step, vars, NeedInfo, GenericMiss, LoadHit, LoadMiss, Analyze, Panic
<1> QED
  BY <1>1, <1>2, <1>3, <1>4, <1>5, <1>6

\* Every goroutine keeps asking for its struct and holding what is cached:
\* an entry it relies on is settled, and nobody changes a settled entry.
LEMMA HoldsStep == Inv /\ [Next]_vars => HoldsTheCached'
<1> SUFFICES ASSUME Inv, [Next]_vars, NEW h \in Goroutines
             PROVE  /\ pc'[h] \in {"load", "analyze", "settle"} /\ for'[h] # None
                         => arg'[h] = StructIn[for'[h]]
                    /\ pc'[h] = "store" => si'[h] = cache'[StructIn[for'[h]]] /\ si'[h] # None
  BY DEF HoldsTheCached
<1> DEFINE Good == /\ pc'[h] \in {"load", "analyze", "settle"} /\ for'[h] # None
                        => arg'[h] = StructIn[for'[h]]
                   /\ pc'[h] = "store" => si'[h] = cache'[StructIn[for'[h]]] /\ si'[h] # None
<1> USE CacheAssumption DEF Inv, TypeOK, Shape, Fits, HoldsTheCached, Go, Return, After
<1>0. \A t \in Structs : cache[t] # None => cache'[t] = cache[t]
  BY SettledStep
<1>1. ASSUME NEW g \in Goroutines, NEW t \in Structs, NeedInfo(g, t) PROVE Good
  BY <1>1 DEF NeedInfo
<1>2. ASSUME NEW g \in Goroutines, NEW t \in Types, GenericMiss(g, t) PROVE Good
  BY <1>2 DEF GenericMiss
<1>3. ASSUME NEW g \in Goroutines, LoadHit(g) PROVE Good
  BY <1>3 DEF LoadHit
<1>4. ASSUME NEW g \in Goroutines, LoadMiss(g) PROVE Good
  BY <1>4 DEF LoadMiss
<1>5. ASSUME NEW g \in Goroutines, Analyze(g) PROVE Good
  BY <1>5 DEF Analyze
<1>6. ASSUME NEW g \in Goroutines, Panic(g) PROVE Good
  BY <1>6 DEF Panic
<1>7. ASSUME NEW g \in Goroutines, Settle(g) PROVE Good
  <2>1. CASE h = g
    BY <1>7, <2>1 DEF Settle
  <2>2. CASE h # g
    BY <1>0, <1>7, <2>2 DEF Settle
  <2> QED
    BY <2>1, <2>2
<1>8. ASSUME NEW g \in Goroutines, StoreGeneric(g) PROVE Good
  BY <1>8 DEF StoreGeneric
<1>9. CASE UNCHANGED vars
  BY <1>9 DEF vars
<1> QED
  BY <1>1, <1>2, <1>3, <1>4, <1>5, <1>6, <1>7, <1>8, <1>9 DEF Next, Step

\* The caches keep agreeing: only Settle and StoreGeneric touch them, the one
\* where needsGeneric has no answer yet, the other with the cached analysis.
LEMMA AgreeStep == Inv /\ [Next]_vars => CachesAgree'
<1> SUFFICES ASSUME Inv, [Next]_vars, NEW t \in Types, generics'[t] # None
             PROVE  cache'[StructIn[t]] # None /\ generics'[t] = (cache'[StructIn[t]] \notin Flat)
  BY DEF CachesAgree
<1> USE CacheAssumption DEF Inv, TypeOK, Shape, Fits, Go, Return
<1>1. \A s \in Structs : cache[s] # None => cache'[s] = cache[s]
  BY SettledStep
<1>2. CASE generics'[t] = generics[t]
  BY <1>1, <1>2 DEF CachesAgree
<1>3. ASSUME NEW g \in Goroutines, StoreGeneric(g), t = for[g]
      PROVE  cache'[StructIn[t]] # None /\ generics'[t] = (cache'[StructIn[t]] \notin Flat)
  BY <1>3 DEF StoreGeneric, HoldsTheCached
<1>4. \/ generics'[t] = generics[t]
      \/ \E g \in Goroutines : StoreGeneric(g) /\ t = for[g]
  BY DEF Next, Step, vars, NeedInfo, GenericMiss, LoadHit, LoadMiss, Analyze, Panic, Settle,
         StoreGeneric
<1> QED
  BY <1>2, <1>3, <1>4

\* The inductive invariant.
THEOREM Invariance == Spec => []Inv
<1>1. Inv /\ [Next]_vars => Inv'
  BY TypeStep, HoldsStep, AgreeStep DEF Inv
<1> QED
  BY <1>1, InvInit, PTL DEF Spec

\* The caches of a codec never disagree, whatever the interleaving.
THEOREM CachesAlwaysAgree == Spec => []CachesAgree
BY Invariance, PTL DEF Inv

\* An answer in a cache is final, although nothing is locked.
THEOREM AnswersAreFinal == Spec => Settled
<1>1. Inv /\ [Next]_vars =>
        [/\ \A t \in Structs : cache[t] # None => cache'[t] = cache[t]
         /\ \A t \in Types : generics[t] # None => generics'[t] = generics[t]]_vars
  BY SettledStep
<1> QED
  BY <1>1, Invariance, PTL DEF Spec, Settled

\* structInfoOf implements the memo: every goroutine is told the one settled
\* analysis of a type.
THEOREM ImplementsMemo == Spec => IsMemo
<1>1. Init => M!Init
  BY DEF Init, M!Init
<1>2. ASSUME Inv, [Next]_vars PROVE [M!Next]_(M!mvars)
  <2> USE CacheAssumption DEF Inv, TypeOK, Shape, Fits, Go, Return, M!mvars
  <2>1. ASSUME NEW g \in Goroutines, NEW t \in Structs, NeedInfo(g, t) PROVE M!Next
    <3>1. M!Ask(g, t)
      BY <1>2, <2>1 DEF NeedInfo, M!Ask
    <3> QED
      BY <3>1 DEF M!Next
  <2>2. ASSUME NEW g \in Goroutines, NEW t \in Types, GenericMiss(g, t) PROVE M!Next
    <3>1. StructIn[t] \in Structs /\ M!Ask(g, StructIn[t])
      BY <1>2, <2>2 DEF GenericMiss, M!Ask
    <3> QED
      BY <3>1 DEF M!Next
  <2>3. ASSUME NEW g \in Goroutines, LoadHit(g) PROVE M!Next
    <3>1. arg[g] \in Structs /\ cache[arg[g]] \in Analyses[arg[g]]
      BY <1>2, <2>3 DEF LoadHit
    <3>2. M!Answer(g, arg[g], cache[arg[g]])
      BY <1>2, <2>3, <3>1 DEF LoadHit, M!Answer
    <3> QED
      BY <3>1, <3>2 DEF M!Next
  <2>4. ASSUME NEW g \in Goroutines, Settle(g) PROVE M!Next
    <3> DEFINE actual == IF cache[arg[g]] = None THEN own[g] ELSE cache[arg[g]]
    <3>1. arg[g] \in Structs /\ actual \in Analyses[arg[g]]
      BY <1>2, <2>4 DEF Settle
    <3>2. M!Answer(g, arg[g], actual)
      BY <1>2, <2>4, <3>1 DEF Settle, M!Answer
    <3> QED
      BY <3>1, <3>2 DEF M!Next
  <2>5. ASSUME NEW g \in Goroutines, Panic(g) PROVE M!Next
    <3>1. M!GiveUp(g)
      BY <1>2, <2>5 DEF Panic, M!GiveUp
    <3> QED
      BY <3>1 DEF M!Next
  <2>6. ASSUME NEW g \in Goroutines, LoadMiss(g) \/ Analyze(g) \/ StoreGeneric(g)
        PROVE  UNCHANGED M!mvars
    BY <1>2, <2>6 DEF LoadMiss, Analyze, StoreGeneric
  <2>7. CASE UNCHANGED vars
    BY <2>7 DEF vars
  <2> QED
    BY <1>2, <2>1, <2>2, <2>3, <2>4, <2>5, <2>6, <2>7 DEF Next, Step
<1> QED
  BY <1>1, <1>2, Invariance, PTL DEF Spec, IsMemo, M!Spec

=============================================================================
