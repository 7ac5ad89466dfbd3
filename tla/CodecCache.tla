------------------------------ MODULE CodecCache ------------------------------
(***************************************************************************)
(* The two caches of a Codec that goroutines share (codec.go,              *)
(* structinfo.go structInfoOf, container.go needsGeneric).  Neither is     *)
(* locked: a goroutine that misses works the answer out on its own and     *)
(* settles with the cache afterwards.                                      *)
(*                                                                         *)
(* sync.Map is external: Load, Store and LoadOrStore are atomic.           *)
(***************************************************************************)
CONSTANTS
  Goroutines,
  Structs,    \* the struct types
  Types,      \* the types needsGeneric is asked about
  StructIn,   \* type -> the struct its element chain ends in
  Analyses,   \* struct type -> what analyze may come to; several when the
              \* KeyFunc or KeyNormalizer of the client is not a function
  Flat,       \* the analyses with no field; names depend on the client's
              \* functions, whether there is a field only on the type
  None

ASSUME CacheAssumption ==
  /\ StructIn \in [Types -> Structs]
  /\ \A t \in Structs : None \notin Analyses[t]
  /\ \A t \in Structs : Analyses[t] \subseteq Flat \/ Analyses[t] \intersect Flat = {}
  /\ None \notin Structs /\ None \notin BOOLEAN

VARIABLES
  cache,    \* Codec.cache
  generics, \* Codec.generics
  pc,       \* where in structInfoOf / needsGeneric a goroutine is
  arg,      \* the struct type it asked structInfoOf about
  for,      \* the type it asked needsGeneric about, or None
  own,      \* the analysis it made itself
  si        \* the analysis structInfoOf returned to it last

vars == <<cache, generics, pc, arg, for, own, si>>

Init ==
  /\ cache = [t \in Structs |-> None]
  /\ generics = [t \in Types |-> None]
  /\ pc = [g \in Goroutines |-> "idle"]
  /\ arg = [g \in Goroutines |-> None]
  /\ for = [g \in Goroutines |-> None]
  /\ own = [g \in Goroutines |-> None]
  /\ si = [g \in Goroutines |-> None]

Go(g, from, to) == pc[g] = from /\ pc' = [pc EXCEPT ![g] = to]

\* A conversion needs the analysis of a struct type.
NeedInfo(g, t) ==
  /\ Go(g, "idle", "load")
  /\ arg' = [arg EXCEPT ![g] = t]
  /\ for' = [for EXCEPT ![g] = None]
  /\ si' = [si EXCEPT ![g] = None]
  /\ UNCHANGED <<cache, generics, own>>

\* Mutant: a provisional answer in the shared cache breaks the recursion.
GenericMissProvisional(g, t) ==
  /\ Go(g, "idle", "load") /\ generics[t] = None
  /\ generics' = [generics EXCEPT ![t] = FALSE]
  /\ arg' = [arg EXCEPT ![g] = StructIn[t]]
  /\ for' = [for EXCEPT ![g] = t]
  /\ si' = [si EXCEPT ![g] = None]
  /\ UNCHANGED <<cache, own>>

\* A conversion asks whether a type needs its generic form.  A cached answer
\* is taken at once; else needsGenericRec goes down to the analysis of the
\* struct at the end.
GenericMiss(g, t) ==
  /\ Go(g, "idle", "load") /\ generics[t] = None
  /\ arg' = [arg EXCEPT ![g] = StructIn[t]]
  /\ for' = [for EXCEPT ![g] = t]
  /\ si' = [si EXCEPT ![g] = None]
  /\ UNCHANGED <<cache, generics, own>>

\* structInfoOf: Load.
Return(g, a) ==
  /\ si' = [si EXCEPT ![g] = a]
  /\ arg' = [arg EXCEPT ![g] = None]
  /\ own' = [own EXCEPT ![g] = None]
After(g) == IF for[g] = None THEN "idle" ELSE "store"

LoadHit(g) ==
  /\ Go(g, "load", After(g)) /\ cache[arg[g]] # None
  /\ Return(g, cache[arg[g]])
  /\ UNCHANGED <<cache, generics, for>>

LoadMiss(g) ==
  /\ Go(g, "load", "analyze") /\ cache[arg[g]] = None
  /\ UNCHANGED <<cache, generics, arg, for, own, si>>

\* Mutant: no analysis is made of the type.
AnalyzeNothing(g) ==
  /\ Go(g, "analyze", "settle")
  /\ own' = [own EXCEPT ![g] = None]
  /\ UNCHANGED <<cache, generics, arg, for, si>>

\* structInfoOf: analyze, which calls the client's KeyFunc and KeyNormalizer.
Analyze(g) ==
  /\ Go(g, "analyze", "settle")
  /\ \E a \in Analyses[arg[g]] : own' = [own EXCEPT ![g] = a]
  /\ UNCHANGED <<cache, generics, arg, for, si>>

\* Those may panic: the conversion is gone, the codec stays usable.
Panic(g) ==
  /\ Go(g, "analyze", "idle")
  /\ arg' = [arg EXCEPT ![g] = None]
  /\ for' = [for EXCEPT ![g] = None]
  /\ UNCHANGED <<cache, generics, own, si>>

\* Mutant: the goroutine goes on with the analysis it made itself.
SettleOwn(g) ==
  /\ Go(g, "settle", After(g))
  /\ LET actual == IF cache[arg[g]] = None THEN own[g] ELSE cache[arg[g]]
     IN  cache' = [cache EXCEPT ![arg[g]] = actual] /\ Return(g, own[g])
  /\ UNCHANGED <<generics, for>>

\* Mutant: Store instead of LoadOrStore, the last analysis takes the slot.
SettleStore(g) ==
  /\ Go(g, "settle", After(g))
  /\ cache' = [cache EXCEPT ![arg[g]] = own[g]]
  /\ Return(g, own[g])
  /\ UNCHANGED <<generics, for>>

\* Mutant: the goroutine insists on its own analysis and starts over.
SettleRetry(g) ==
  /\ pc[g] = "settle"
  /\ IF cache[arg[g]] \in {None, own[g]}
     THEN /\ Go(g, "settle", After(g))
          /\ cache' = [cache EXCEPT ![arg[g]] = own[g]]
          /\ Return(g, own[g])
     ELSE Go(g, "settle", "analyze") /\ UNCHANGED <<cache, arg, own, si>>
  /\ UNCHANGED <<generics, for>>

\* structInfoOf: LoadOrStore, and return what is stored.
Settle(g) ==
  /\ Go(g, "settle", After(g))
  /\ LET actual == IF cache[arg[g]] = None THEN own[g] ELSE cache[arg[g]]
     IN  cache' = [cache EXCEPT ![arg[g]] = actual] /\ Return(g, actual)
  /\ UNCHANGED <<generics, for>>

\* needsGeneric: Store, over whatever is there by now.
StoreGeneric(g) ==
  /\ Go(g, "store", "idle")
  /\ generics' = [generics EXCEPT ![for[g]] = si[g] \notin Flat]
  /\ for' = [for EXCEPT ![g] = None]
  /\ UNCHANGED <<cache, arg, own, si>>

Step(g) == LoadHit(g) \/ LoadMiss(g) \/ Analyze(g) \/ Settle(g) \/ StoreGeneric(g)

Next ==
  \E g \in Goroutines :
    \/ Step(g) \/ Panic(g)
    \/ \E t \in Structs : NeedInfo(g, t)
    \/ \E t \in Types : GenericMiss(g, t)

\* The scheduler runs every goroutine; a goroutine in the middle of a call
\* goes on with it.
Spec == Init /\ [][Next]_vars /\ \A g \in Goroutines : WF_vars(Step(g))

-----------------------------------------------------------------------------
(* Properties.                                                             *)

\* Where a goroutine is in its call, and what it holds there.
Fits(g) ==
  /\ pc[g] \in {"load", "analyze", "settle"} => arg[g] \in Structs
  /\ pc[g] \in {"idle", "store"} => arg[g] = None
  /\ pc[g] = "settle" => own[g] \in Analyses[arg[g]]
  /\ pc[g] = "store" => for[g] \in Types

Shape ==
  /\ \A t \in Structs : cache[t] \in Analyses[t] \union {None}
  /\ generics \in [Types -> BOOLEAN \union {None}]
  /\ cache = [t \in Structs |-> cache[t]]
  /\ pc \in [Goroutines -> {"idle", "load", "analyze", "settle", "store"}]
  /\ arg \in [Goroutines -> Structs \union {None}]
  /\ for \in [Goroutines -> Types \union {None}]
  /\ own = [g \in Goroutines |-> own[g]]
  /\ si = [g \in Goroutines |-> si[g]]

\* Type correctness: what each goroutine holds fits where it is in its call.
TypeOK == Shape /\ \A g \in Goroutines : Fits(g)

\* On behalf of needsGeneric a goroutine asks about the struct its type ends
\* in, and when it goes on to Store it holds the analysis everybody else has
\* of that struct, whoever made it.
HoldsTheCached ==
  \A g \in Goroutines :
    /\ pc[g] \in {"load", "analyze", "settle"} /\ for[g] # None => arg[g] = StructIn[for[g]]
    /\ pc[g] = "store" => si[g] = cache[StructIn[for[g]]] /\ si[g] # None

\* The two caches never disagree: an answer of needsGeneric is the one the
\* cached analysis gives.
CachesAgree ==
  \A t \in Types :
    generics[t] # None =>
      cache[StructIn[t]] # None /\ generics[t] = (cache[StructIn[t]] \notin Flat)

\* An answer that was given is never changed, although two goroutines may
\* both store one.
Settled ==
  [][/\ \A t \in Structs : cache[t] # None => cache'[t] = cache[t]
     /\ \A t \in Types : generics[t] # None => generics'[t] = generics[t]]_vars

\* structInfoOf is a memo: every conversion of every goroutine works with the
\* same analysis of a type.
M == INSTANCE Memo WITH
       Askers <- Goroutines, Questions <- Structs, Answers <- Analyses,
       memo <- cache, asking <- arg, told <- si
IsMemo == M!Spec

\* Nobody waits for anybody: each call ends whatever the other goroutines do.
EveryCallEnds == \A g \in Goroutines : pc[g] # "idle" ~> pc[g] = "idle"

=============================================================================
