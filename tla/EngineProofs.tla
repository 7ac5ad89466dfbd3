----------------------------- MODULE EngineProofs -----------------------------
(***************************************************************************)
(* Proofs about what the functions of the engine share (convert.go "type   *)
(* state"): the error list, the path and the weak flag, for every set of   *)
(* types, every configuration and every session.                           *)
(*                                                                         *)
(* The engine is 52 actions; what each does to the error list is one of    *)
(* three things, and that is all its invariant needs to know (ErrorStep).  *)
(*                                                                         *)
(* Inv says of every frame how deep the path was when its function was     *)
(* called and whether it raised the flag, and that what the frames say     *)
(* adds up to the path and the flag there are.  PathBalanced and           *)
(* WeakScoped follow from it, and neither is inductive alone: that a       *)
(* handler pops what it pushed says nothing unless its frame knows that it *)
(* did.  The lemmas Turn*, Call* and End* are the steps every handler is   *)
(* made of; each action of the engine is then shown to be one of them.     *)
(***************************************************************************)
EXTENDS Engine, TLAPS, SequenceTheorems, WellFoundedInduction

-----------------------------------------------------------------------------
(* The error list.                                                         *)

\* What any step of the engine does to the error list.
ErrorStep ==
  /\ scen' = scen
  /\ \/ ~Idle /\ NoErrors
     \/ ~Idle /\ \E e : Fail(e)
     \/ Idle /\ ~Idle' /\ errs' = << >> /\ stopped' = FALSE
     \/ UNCHANGED <<stack, errs, stopped>>

ErrsIsSeq == \E S : errs \in Seq(S)
ConfigOK  == cfg.failFast \in BOOLEAN /\ cfg.max \in Nat
ErrInv    == ConfigOK /\ ErrsIsSeq /\ LimitMeansStopped

-----------------------------------------------------------------------------
\* convert and dispatch: an error is added by fail, or the list is left alone.
LEMMA ConvertErrors == ConvertNext => ErrorStep
<1> USE DEF ErrorStep, Private, Quiet, At
<1>1. ConvertEnter \/ FollowPointer \/ Dispatch \/ ToScalar => ErrorStep
  BY DEF ConvertEnter, FollowPointer, Dispatch, ToScalar
<1>2. ApplyHooks => ErrorStep
  BY DEF ApplyHooks
<1>3. ApplyValueDecoder => ErrorStep
  BY DEF ApplyValueDecoder
<1>4. ApplyValueEncoder => ErrorStep
  BY DEF ApplyValueEncoder
<1>5. UnmarshalText => ErrorStep
  BY DEF UnmarshalText
<1> QED
  BY <1>1, <1>2, <1>3, <1>4, <1>5 DEF ConvertNext

\* The handlers of container.go.
LEMMA ContainerErrors == ContainersNext => ErrorStep
<1> USE DEF ErrorStep, Private, Quiet, At
<1>1. \/ ToInterface \/ GenericReturn \/ GenericFollow \/ GenericToMap \/ GenericMapDone
      \/ GenericToSlice \/ GenericElem \/ GenericElemDone \/ GenericElemsDone
      => ErrorStep
  BY DEF ToInterface, GenericReturn, GenericFollow, GenericToMap, GenericMapDone,
         GenericToSlice, GenericElem, GenericElemDone, GenericElemsDone
<1>2. ToPointer \/ PointerDone => ErrorStep
  BY DEF ToPointer, PointerDone
<1>3. ToSlice \/ ToArray => ErrorStep
  BY DEF ToSlice, ToArray
<1>4. SliceElem \/ SliceElemDone \/ SliceElemsEmpty => ErrorStep
  BY DEF SliceElem, SliceElemDone, SliceElemsEmpty
<1>5. ToMap => ErrorStep
  BY DEF ToMap
<1>6. \/ MergeMap \/ MergeMapDone \/ MergeMapsDone \/ MapFromMap
      \/ MapEntry \/ MapKeyDone \/ MapElemDone \/ MapEntriesDone
      => ErrorStep
  BY DEF MergeMap, MergeMapDone, MergeMapsDone, MapFromMap,
         MapEntry, MapKeyDone, MapElemDone, MapEntriesDone
<1> QED
  BY <1>1, <1>2, <1>3, <1>4, <1>5, <1>6 DEF ContainersNext

\* The handlers of struct.go.
LEMMA StructErrors == StructsNext => ErrorStep
<1> USE DEF ErrorStep, Private, Quiet, At
<1>1. ToStruct => ErrorStep
  BY DEF ToStruct
<1>2. SkipInWalk \/ WalkToMap \/ EntryKeyDone \/ WriteEntry \/ RefuseEntry \/ EntryDone
      \/ WalkToMapOver => ErrorStep
  BY DEF SkipInWalk, WalkToMap, EntryKeyDone, WriteEntry, RefuseEntry, EntryDone, WalkToMapOver
<1>3. MapFromStruct \/ StructFromMap \/ StructFromStruct => ErrorStep
  BY DEF MapFromStruct, StructFromMap, StructFromStruct
<1>4. MatchKey \/ MatchKeysDone \/ AssignFieldsDone \/ FieldDone \/ RemainDone
      \/ WalkToStructOver => ErrorStep
  BY DEF MatchKey, MatchKeysDone, AssignFieldsDone, FieldDone, RemainDone, WalkToStructOver
<1>5. FinishStruct => ErrorStep
  BY DEF FinishStruct
<1>6. FillRemain => ErrorStep
  BY DEF FillRemain, RemainInto
<1>7. FinishPairs => ErrorStep
  BY DEF FinishPairs
<1>8. ASSUME NEW f, NEW i, NEW v, NEW back, AssignField(f, i, v, back)
      PROVE  NoErrors \/ \E e : Fail(e)
  BY <1>8 DEF AssignField
<1>9. AssignNextField => ErrorStep
  BY <1>8 DEF AssignNextField
<1>10. WalkToStruct => ErrorStep
  BY <1>8 DEF WalkToStruct
<1> QED
  BY <1>1, <1>2, <1>3, <1>4, <1>5, <1>6, <1>7, <1>9, <1>10 DEF StructsNext

\* Every step of the engine.
LEMMA EveryStep == [Next]_vars => ErrorStep
<1>1. StartCall => ErrorStep
  <2>1. ASSUME NEW f, NEW g, stack' = <<f, g>> PROVE ~Idle'
    BY <2>1 DEF Idle
  <2>2. StartCall => Idle /\ scen' = scen /\ errs' = << >> /\ stopped' = FALSE
                     /\ \E f, g : stack' = <<f, g>>
    BY DEF StartCall
  <2> QED
    BY <2>1, <2>2 DEF ErrorStep
<1>2. EndCall => ErrorStep
  BY DEF EndCall, ErrorStep, NoErrors, At
<1>3. Rest \/ UNCHANGED vars => ErrorStep
  BY DEF Rest, vars, ErrorStep
<1> QED
  BY <1>1, <1>2, <1>3, ConvertErrors, ContainerErrors, StructErrors DEF Next

-----------------------------------------------------------------------------
\* A session starts with a list that is empty and open.
LEMMA ErrInit == Init => ErrInv
<1> SUFFICES ASSUME Init PROVE ErrInv
  OBVIOUS
<1>1. ConfigOK
  BY ScenariosAssumption DEF Init, ConfigOK, cfg
<1>2. ErrsIsSeq
  <2>1. errs \in Seq({})
    BY DEF Init
  <2> QED
    BY <2>1 DEF ErrsIsSeq
<1>3. LimitMeansStopped
  <2>1. Limit \in Nat
    BY <1>1 DEF Limit, ConfigOK
  <2>2. Len(errs) = 0 /\ stopped = FALSE
    BY DEF Init
  <2>3. (Limit > 0 /\ Len(errs) >= Limit) = FALSE
    BY <2>1, <2>2
  <2> QED
    BY <2>2, <2>3 DEF LimitMeansStopped
<1> QED
  BY <1>1, <1>2, <1>3 DEF ErrInv

\* What add does to an open list: one more failure, after the ones there, and
\* the flag says whether it was the last one allowed.
LEMMA Added ==
  ASSUME ErrInv, NEW p, NEW e, AddError(p, e), ~stopped, scen' = scen
  PROVE  /\ ErrInv'
         /\ Len(errs') = Len(errs) + 1
         /\ \A n \in 1 .. Len(errs) : errs'[n] = errs[n]
         /\ stopped' = (Limit > 0 /\ Len(errs) + 1 >= Limit)
<1> DEFINE r == [path |-> p, err |-> e]
<1>1. PICK S : errs \in Seq(S)
  BY DEF ErrInv, ErrsIsSeq
<1>2. errs \in Seq(S \union {r}) /\ Len(errs) \in Nat
  BY <1>1
<1>3. errs' = Append(errs, r) /\ stopped' = LimitReached(Len(errs) + 1)
  BY DEF AddError
<1> HIDE DEF r
<1>4. /\ errs' \in Seq(S \union {r})
      /\ Len(errs') = Len(errs) + 1
      /\ \A n \in 1 .. Len(errs) : errs'[n] = errs[n]
  BY <1>2, <1>3
<1>5. ConfigOK /\ ConfigOK' /\ Limit' = Limit
  BY DEF ErrInv, ConfigOK, cfg, Limit
<1>6. ~(Limit > 0 /\ Len(errs) >= Limit)
  BY DEF ErrInv, LimitMeansStopped
<1>7. stopped' = (Limit > 0 /\ Len(errs) + 1 >= Limit)
  BY <1>2, <1>3, <1>5, <1>6 DEF LimitReached, Limit, ConfigOK
<1>8. ErrsIsSeq'
  BY <1>4 DEF ErrsIsSeq
<1>9. LimitMeansStopped'
  BY <1>4, <1>5, <1>7 DEF LimitMeansStopped
<1> QED
  BY <1>4, <1>5, <1>7, <1>8, <1>9 DEF ErrInv

\* The next conversion starts over.
LEMMA StartedOver ==
  ASSUME ErrInv, scen' = scen, errs' = << >>, stopped' = FALSE
  PROVE  ErrInv'
<1>1. ConfigOK /\ ConfigOK' /\ Limit' = Limit
  BY DEF ErrInv, ConfigOK, cfg, Limit
<1>2. errs' \in Seq({})
  OBVIOUS
<1>3. LimitMeansStopped'
  <2>1. Limit' \in Nat
    BY <1>1 DEF Limit, ConfigOK
  <2>2. Len(errs') = 0
    OBVIOUS
  <2>3. (Limit' > 0 /\ Len(errs') >= Limit') = FALSE
    BY <2>1, <2>2
  <2> QED
    BY <2>3 DEF LimitMeansStopped
<1> QED
  BY <1>1, <1>2, <1>3 DEF ErrInv, ErrsIsSeq

\* A step that reports nothing.
LEMMA LeftAlone ==
  ASSUME ErrInv, scen' = scen, UNCHANGED <<errs, stopped>>
  PROVE  ErrInv' /\ Limit' = Limit
BY DEF ErrInv, ConfigOK, cfg, ErrsIsSeq, LimitMeansStopped, Limit

\* Every step keeps the invariant and is, to a reader of the report, a new
\* failure, a fresh report, or nothing.
LEMMA ReportStep ==
  ASSUME ErrInv, [Next]_vars
  PROVE  ErrInv' /\ [Report!Next]_(Report!rvars)
<1>1. ErrorStep
  BY EveryStep
<1>2. scen' = scen /\ Limit' = Limit
  BY <1>1 DEF ErrorStep, Limit, cfg
<1>3. CASE ~Idle /\ (NoErrors \/ \E e : Fail(e) /\ stopped)
  <2>1. UNCHANGED <<errs, stopped>>
    BY <1>3 DEF NoErrors, Fail, AddError
  <2>2. Report!Finish \/ UNCHANGED Report!rvars
    BY <1>2, <1>3, <2>1 DEF Report!Finish, Report!rvars, Idle
  <2> QED
    BY <1>2, <2>1, <2>2, LeftAlone DEF Report!Next
<1>4. CASE ~Idle /\ ~stopped /\ \E e : Fail(e)
  <2>1. PICK e : AddError(path, e)
    BY <1>4 DEF Fail
  <2>2. Report!Report
    BY <1>2, <1>4, <2>1, Added DEF Report!Report, Report!Full
  <2> QED
    BY <1>2, <1>4, <2>1, <2>2, Added DEF Report!Next
<1>5. CASE Idle /\ ~Idle' /\ errs' = << >> /\ stopped' = FALSE
  BY <1>2, <1>5, StartedOver DEF Report!Next, Report!Start
<1>6. CASE UNCHANGED <<stack, errs, stopped>>
  BY <1>2, <1>6, LeftAlone DEF Report!rvars, Idle
<1> QED
  BY <1>1, <1>3, <1>4, <1>5, <1>6 DEF ErrorStep

-----------------------------------------------------------------------------
\* The stop flag means the limit was met, in every reachable state of every
\* session: no other error, hook or nested conversion raises or clears it.
THEOREM StoppedMeansLimit == Spec => []LimitMeansStopped
<1>1. ErrInv /\ [Next]_vars => ErrInv'
  BY ReportStep
<1> QED
  BY <1>1, ErrInit, PTL DEF Spec, ErrInv

\* The engine implements the error report: failures are appended in the order
\* they occur, never rewritten, never more than the limit allows.
THEOREM ImplementsErrorReport == Spec => ReportsErrors
<1>1. Init => Report!Init
  <2> SUFFICES ASSUME Init PROVE Report!Init
    OBVIOUS
  <2>1. Limit \in Nat
    BY ErrInit DEF ErrInv, ConfigOK, Limit
  <2> QED
    BY <2>1 DEF Init, Report!Init, Idle
<1>2. ErrInv /\ [Next]_vars => ErrInv' /\ [Report!Next]_(Report!rvars)
  BY ReportStep
<1> QED
  BY <1>1, <1>2, ErrInit, PTL DEF Spec, ReportsErrors, Report!Spec

-----------------------------------------------------------------------------
(* The path and the weak flag.                                             *)

\* The fields of a frame.
FrameFields ==
  {"op", "src", "cur", "dt", "tag", "at", "i", "todo", "got", "left", "rest",
   "key", "val", "fv", "vtag", "field", "back", "weakened"}

\* A frame as the handlers leave it: only an assignment of a field under way
\* has raised the weak flag, and it knows where it goes on.
FrameOK(f) ==
  /\ DOMAIN f = FrameFields
  /\ f.at \in Nat /\ f.weakened \in BOOLEAN
  /\ f.weakened => f.op = "fieldDone"
  /\ f.op = "fieldDone" => f.back \in {"assignFields", "walkToStruct"}

\* A sequence, whatever of.
IsSeq(s) == \E S : s \in Seq(S)

StackOK ==
  /\ IsSeq(stack) /\ IsSeq(path) /\ weak \in BOOLEAN
  /\ \A n \in 1 .. Len(stack) : FrameOK(stack[n])

\* The path is as deep as the functions that hold a segment of it make it.
PathOK ==
  /\ Idle => path = << >>
  /\ ~Idle => /\ stack[1].at = 0
              /\ Len(path) = Depth(stack[Len(stack)])
              /\ \A n \in 1 .. Len(stack) - 1 : stack[n + 1].at = Depth(stack[n])
              /\ \A n \in 2 .. Len(stack) : stack[n].op # "run"

\* The weak flag is up for the codec, or for the one field that raised it.
WeakOK ==
  /\ cfg.weakTypes \in BOOLEAN
  /\ weak = (cfg.weakTypes \/ \E n \in 1 .. Len(stack) : stack[n].weakened)
  /\ \A n \in 1 .. Len(stack) : stack[n].weakened => ~cfg.weakTypes
  /\ \A m, n \in 1 .. Len(stack) : stack[m].weakened /\ stack[n].weakened => m = n

Inv == StackOK /\ PathOK /\ WeakOK

-----------------------------------------------------------------------------
\* The frame a running function leaves in its place.
Carries(f) == FrameOK(f) /\ f.at = Top.at /\ f.op # "run"

\* Its path segment, held before or not, and after or not.
PathGoes(held) ==
  \/ held = (Top.op \in Pushing) /\ path' = path
  \/ held /\ Top.op \notin Pushing /\ \E s : Push(s)
  \/ ~held /\ Top.op \in Pushing /\ Pop

\* Its claim on the weak flag, after what it had is given back.
WeakGoes(raised) ==
  /\ weak' = ((weak /\ ~Top.weakened) \/ raised)
  /\ raised => ~weak

\* The function on top becomes another frame; the ones below stay.
LEMMA BecomeIs ==
  ASSUME NEW f, StackOK, ~Idle, Become(f)
  PROVE  /\ IsSeq(stack') /\ Len(stack') = Len(stack) /\ Len(stack) \in Nat \ {0}
         /\ \A n \in 1 .. Len(stack) - 1 : stack'[n] = stack[n]
         /\ stack'[Len(stack)] = f
<1>1. PICK S : stack \in Seq(S)
  BY DEF StackOK, IsSeq
<1>2. Len(stack) \in Nat \ {0}
  BY <1>1 DEF Idle
<1>3. stack' \in Seq(S \union {f})
  <2>1. stack \in Seq(S \union {f})
    BY <1>1
  <2> QED BY <1>2, <2>1 DEF Become
<1> QED BY <1>1, <1>2, <1>3 DEF Become, IsSeq

\* The same, with a child on top of it.
LEMMA CallIs ==
  ASSUME NEW f, NEW child, StackOK, ~Idle, Call(f, child)
  PROVE  /\ IsSeq(stack') /\ Len(stack') = Len(stack) + 1 /\ Len(stack) \in Nat \ {0}
         /\ \A n \in 1 .. Len(stack) - 1 : stack'[n] = stack[n]
         /\ stack'[Len(stack)] = f /\ stack'[Len(stack) + 1] = child
<1>1. PICK S : stack \in Seq(S)
  BY DEF StackOK, IsSeq
<1>2. Len(stack) \in Nat \ {0}
  BY <1>1 DEF Idle
<1> DEFINE s == [stack EXCEPT ![Len(stack)] = f]
           R == S \union {f, child}
<1>3. stack \in Seq(R)
  BY <1>1
<1>4. /\ s \in Seq(R) /\ Len(s) = Len(stack) /\ s[Len(stack)] = f
      /\ \A n \in 1 .. Len(stack) - 1 : s[n] = stack[n]
  BY <1>2, <1>3
<1>5. stack' = Append(s, child)
  BY DEF Call
<1>6. child \in R
  OBVIOUS
<1> HIDE DEF s, R
<1> QED
  BY <1>2, <1>4, <1>5, <1>6 DEF IsSeq

\* Dropping the last element of a sequence.
LEMMA FrontIs ==
  ASSUME NEW S, NEW s \in Seq(S), Len(s) > 0
  PROVE  LET m == Len(s) - 1
         IN  /\ SubSeq(s, 1, m) \in Seq(S) /\ Len(SubSeq(s, 1, m)) = m
             /\ \A n \in 1 .. m : SubSeq(s, 1, m)[n] = s[n]
<1> DEFINE m == Len(s) - 1
           sub == SubSeq(s, 1, m)
<1>1. m \in Nat /\ m \in Int /\ 1 \in Int
  OBVIOUS
<1>2. \A i \in 1 .. m : s[i] \in S
  OBVIOUS
<1> HIDE DEF m
<1>3. /\ sub \in Seq(S) /\ Len(sub) = IF 1 <= m THEN m - 1 + 1 ELSE 0
      /\ \A i \in 1 .. m - 1 + 1 : sub[i] = s[1 + i - 1]
  BY <1>1, <1>2, SubSeqProperties
<1> HIDE DEF sub
<1>4. \A n \in 1 .. m : n \in 1 .. m - 1 + 1 /\ 1 + n - 1 = n
  BY <1>1
<1>5. Len(sub) = m
  BY <1>1, <1>3
<1>6. \A n \in 1 .. m : sub[n] = s[n]
  BY <1>3, <1>4
<1>7. sub \in Seq(S) /\ Len(sub) = m /\ \A n \in 1 .. m : sub[n] = s[n]
  BY <1>3, <1>5, <1>6
<1> QED BY <1>7 DEF m, sub

\* The function on top is gone; the ones below stay.
LEMMA ReturnIs ==
  ASSUME NEW v, StackOK, ~Idle, Return(v)
  PROVE  /\ IsSeq(stack') /\ Len(stack') = Len(stack) - 1 /\ Len(stack) \in Nat \ {0}
         /\ \A n \in 1 .. Len(stack) - 1 : stack'[n] = stack[n]
<1>1. PICK S : stack \in Seq(S)
  BY DEF StackOK, IsSeq
<1>2. Len(stack) \in Nat \ {0} /\ Len(stack) > 0
  BY <1>1 DEF Idle
<1>3. stack' = SubSeq(stack, 1, Len(stack) - 1)
  BY DEF Return
<1>4. /\ stack' \in Seq(S) /\ Len(stack') = Len(stack) - 1
      /\ \A n \in 1 .. Len(stack) - 1 : stack'[n] = stack[n]
  BY <1>1, <1>2, <1>3, FrontIs
<1> QED BY <1>2, <1>4 DEF IsSeq

\* Len(path) after a move of the path.
LEMMA PathLen ==
  ASSUME Inv, ~Idle, NEW held \in BOOLEAN, PathGoes(held)
  PROVE  /\ IsSeq(path')
         /\ Len(path') = Top.at + IF held THEN 1 ELSE 0
         /\ Top.at \in Nat
<1>1. Len(stack) \in Nat \ {0} /\ Top = stack[Len(stack)] /\ FrameOK(Top)
  BY DEF Inv, StackOK, IsSeq, Idle, Top
<1>2. Len(path) = Top.at + (IF Top.op \in Pushing THEN 1 ELSE 0) /\ Top.at \in Nat
  BY <1>1 DEF Inv, PathOK, Depth, FrameOK
<1>3. PICK P : path \in Seq(P)
  BY DEF Inv, StackOK, IsSeq
<1>4. CASE held = (Top.op \in Pushing) /\ path' = path
  BY <1>2, <1>3, <1>4 DEF IsSeq
<1>5. CASE held /\ Top.op \notin Pushing /\ \E s : Push(s)
  <2>1. PICK s : path' = Append(path, s)
    BY <1>5 DEF Push
  <2>2. path \in Seq(P \union {s})
    BY <1>3
  <2>3. path' \in Seq(P \union {s}) /\ Len(path') = Len(path) + 1
    BY <2>1, <2>2
  <2> QED BY <1>2, <1>5, <2>3 DEF IsSeq
<1>6. CASE ~held /\ Top.op \in Pushing /\ Pop
  <2>1. Len(path) > 0 /\ path' = SubSeq(path, 1, Len(path) - 1)
    BY <1>2, <1>6 DEF Pop
  <2>2. path' \in Seq(P) /\ Len(path') = Len(path) - 1
    BY <1>3, <2>1, FrontIs
  <2> QED BY <1>2, <1>6, <2>2 DEF IsSeq
<1> QED BY <1>4, <1>5, <1>6, <1>1 DEF PathGoes

\* A handler that goes on keeps the invariant if it carries its own frame on and
\* moves the path and the flag as that frame says.
LEMMA BecomeKeeps ==
  ASSUME Inv, ~Idle, scen' = scen, NEW f, Become(f), Carries(f),
         PathGoes(f.op \in Pushing), WeakGoes(f.weakened)
  PROVE  Inv'
<1> DEFINE L == Len(stack)
<1>1. /\ IsSeq(stack') /\ Len(stack') = L /\ L \in Nat \ {0}
      /\ \A n \in 1 .. L - 1 : stack'[n] = stack[n]
      /\ stack'[L] = f
  BY BecomeIs DEF Inv
<1> HIDE DEF L
<1>2. Top = stack[L] /\ ~Idle'
  BY <1>1 DEF Top, L, Idle
<1>3. /\ IsSeq(path') /\ Len(path') = f.at + (IF f.op \in Pushing THEN 1 ELSE 0)
      /\ f.at \in Nat
  <2> DEFINE held == f.op \in Pushing
  <2>1. held \in BOOLEAN /\ PathGoes(held)
    OBVIOUS
  <2> HIDE DEF held
  <2>2. IsSeq(path') /\ Len(path') = Top.at + (IF held THEN 1 ELSE 0) /\ Top.at \in Nat
    BY <2>1, PathLen
  <2> QED BY <2>2 DEF held, Carries
<1>4. StackOK'
  BY <1>1, <1>3 DEF Inv, StackOK, Carries, WeakGoes, FrameOK, L
<1>5. PathOK'
  <2>1. Len(path') = Depth(f)
    BY <1>3 DEF Depth
  <2>2. stack'[1].at = 0
    BY <1>1, <1>2 DEF Inv, PathOK, Carries, L
  <2>3. \A n \in 1 .. L - 1 : stack'[n + 1].at = Depth(stack'[n])
    BY <1>1, <1>2 DEF Inv, PathOK, Carries, Depth, L
  <2>4. \A n \in 2 .. L : stack'[n].op # "run"
    BY <1>1, <1>2 DEF Inv, PathOK, Carries, L
  <2> QED BY <1>1, <1>2, <2>1, <2>2, <2>3, <2>4 DEF PathOK, Depth
<1>6. WeakOK'
  <2>1. \A n \in 1 .. L : stack[n].weakened \in BOOLEAN
    BY <1>1 DEF Inv, StackOK, FrameOK, L
  <2>2. f.weakened \in BOOLEAN /\ weak \in BOOLEAN /\ cfg' = cfg /\ cfg.weakTypes \in BOOLEAN
    BY DEF Carries, FrameOK, Inv, StackOK, WeakOK, cfg
  <2>3. /\ weak' <=> (weak /\ ~stack[L].weakened) \/ f.weakened
        /\ f.weakened => ~weak
    BY <1>2 DEF WeakGoes
  <2>4. /\ weak <=> cfg.weakTypes \/ \E n \in 1 .. L : stack[n].weakened
        /\ \A n \in 1 .. L : stack[n].weakened => ~cfg.weakTypes
        /\ \A m, n \in 1 .. L : stack[m].weakened /\ stack[n].weakened => m = n
    BY DEF Inv, WeakOK, L
  <2>5. /\ \A n \in 1 .. L : stack'[n].weakened => ~cfg.weakTypes
        /\ \A m, n \in 1 .. L : stack'[m].weakened /\ stack'[n].weakened => m = n
    BY <1>1, <2>1, <2>2, <2>3, <2>4
  <2>6. weak' = (cfg.weakTypes \/ \E n \in 1 .. L : stack'[n].weakened)
    BY <1>1, <2>1, <2>2, <2>3, <2>4 DEF WeakGoes
  <2> QED BY <1>1, <2>2, <2>5, <2>6 DEF WeakOK
<1> QED BY <1>4, <1>5, <1>6 DEF Inv

\* The frame of a function that has just been called.
Fresh(c) ==
  FrameOK(c) /\ c.at = Len(path') /\ ~c.weakened /\ c.op \notin Pushing \union {"run"}

\* So does one that calls a child.
LEMMA CallKeeps ==
  ASSUME Inv, ~Idle, scen' = scen, NEW f, NEW c, Call(f, c), Carries(f), Fresh(c),
         PathGoes(f.op \in Pushing), WeakGoes(f.weakened)
  PROVE  Inv'
<1> DEFINE L == Len(stack)
<1>1. /\ IsSeq(stack') /\ Len(stack') = L + 1 /\ L \in Nat \ {0}
      /\ \A n \in 1 .. L - 1 : stack'[n] = stack[n]
      /\ stack'[L] = f /\ stack'[L + 1] = c
  BY CallIs DEF Inv
<1> HIDE DEF L
<1>2. Top = stack[L] /\ ~Idle'
  BY <1>1 DEF Top, L, Idle
<1>3. /\ IsSeq(path') /\ Len(path') = f.at + (IF f.op \in Pushing THEN 1 ELSE 0)
      /\ f.at \in Nat
  <2> DEFINE held == f.op \in Pushing
  <2>1. held \in BOOLEAN /\ PathGoes(held)
    OBVIOUS
  <2> HIDE DEF held
  <2>2. IsSeq(path') /\ Len(path') = Top.at + (IF held THEN 1 ELSE 0) /\ Top.at \in Nat
    BY <2>1, PathLen
  <2> QED BY <2>2 DEF held, Carries
<1>4. StackOK'
  <2>1. FrameOK(f) /\ FrameOK(c) /\ \A n \in 1 .. L : FrameOK(stack[n])
    BY DEF Inv, StackOK, Carries, Fresh, L
  <2>2. \A n \in 1 .. L + 1 : n \in 1 .. L - 1 \/ n = L \/ n = L + 1
    BY <1>1
  <2>3. \A n \in 1 .. L + 1 : FrameOK(stack'[n])
    BY <1>1, <2>1, <2>2
  <2>4. weak' \in BOOLEAN
    BY DEF WeakGoes
  <2> QED BY <1>1, <1>3, <2>3, <2>4 DEF StackOK, FrameOK
<1>5. PathOK'
  <2>1. Len(path') = Depth(f) /\ Depth(c) = c.at /\ c.at = Len(path')
    BY <1>3 DEF Depth, Fresh
  <2>2. stack'[1].at = 0
    BY <1>1, <1>2 DEF Inv, PathOK, Carries, L
  <2>3. \A n \in 1 .. L : stack'[n + 1].at = Depth(stack'[n])
    <3>1. \A n \in 1 .. L - 1 : stack[n + 1].at = Depth(stack[n])
      BY <1>1, <1>2 DEF Inv, PathOK, L
    <3>2. \A n \in 1 .. L - 2 : stack'[n + 1] = stack[n + 1] /\ stack'[n] = stack[n]
      BY <1>1
    <3>3. L > 1 => stack'[L - 1] = stack[L - 1] /\ f.at = Depth(stack[L - 1])
      BY <1>1, <1>2, <3>1 DEF Carries
    <3>4. \A n \in 1 .. L : n \in 1 .. L - 2 \/ (n = L - 1 /\ L > 1) \/ n = L
      BY <1>1
    <3>5. stack'[L + 1].at = Depth(stack'[L])
      BY <1>1, <2>1
    <3>6. L > 1 => stack'[L].at = Depth(stack'[L - 1])
      BY <1>1, <3>3
    <3>7. \A n \in 1 .. L - 2 : stack'[n + 1].at = Depth(stack'[n])
      BY <1>1, <3>1, <3>2
    <3> QED
      <4> SUFFICES ASSUME NEW n \in 1 .. L PROVE stack'[n + 1].at = Depth(stack'[n])
        OBVIOUS
      <4>1. CASE n \in 1 .. L - 2
        BY <3>7, <4>1
      <4>2. CASE n = L - 1 /\ L > 1
        BY <1>1, <3>6, <4>2
      <4>3. CASE n = L
        BY <3>5, <4>3
      <4> QED BY <3>4, <4>1, <4>2, <4>3
  <2>4. \A n \in 2 .. L + 1 : stack'[n].op # "run"
    <3>1. \A n \in 2 .. L : stack[n].op # "run"
      BY <1>2 DEF Inv, PathOK, L
    <3>2. f.op # "run" /\ c.op # "run"
      BY DEF Carries, Fresh
    <3>3. \A n \in 2 .. L + 1 : (n \in 2 .. L /\ n \in 1 .. L - 1) \/ n = L \/ n = L + 1
      BY <1>1
    <3> QED BY <1>1, <3>1, <3>2, <3>3
  <2> QED BY <1>1, <1>2, <2>1, <2>2, <2>3, <2>4 DEF PathOK, Depth
<1>6. WeakOK'
  <2>1. \A n \in 1 .. L : stack[n].weakened \in BOOLEAN
    BY <1>1 DEF Inv, StackOK, FrameOK, L
  <2>2. /\ f.weakened \in BOOLEAN /\ weak \in BOOLEAN /\ cfg' = cfg /\ cfg.weakTypes \in BOOLEAN
        /\ ~c.weakened
    BY DEF Carries, Fresh, FrameOK, Inv, StackOK, WeakOK, cfg
  <2>3. /\ weak' <=> (weak /\ ~stack[L].weakened) \/ f.weakened
        /\ f.weakened => ~weak
    BY <1>2 DEF WeakGoes
  <2>4. /\ weak <=> cfg.weakTypes \/ \E n \in 1 .. L : stack[n].weakened
        /\ \A n \in 1 .. L : stack[n].weakened => ~cfg.weakTypes
        /\ \A m, n \in 1 .. L : stack[m].weakened /\ stack[n].weakened => m = n
    BY DEF Inv, WeakOK, L
  <2>5. /\ \A n \in 1 .. L + 1 : stack'[n].weakened => ~cfg.weakTypes
        /\ \A m, n \in 1 .. L + 1 : stack'[m].weakened /\ stack'[n].weakened => m = n
    BY <1>1, <2>1, <2>2, <2>3, <2>4
  <2>6. weak' = (cfg.weakTypes \/ \E n \in 1 .. L + 1 : stack'[n].weakened)
    BY <1>1, <2>1, <2>2, <2>3, <2>4 DEF WeakGoes
  <2> QED BY <1>1, <2>2, <2>5, <2>6 DEF WeakOK
<1> QED BY <1>4, <1>5, <1>6 DEF Inv

\* So does one that returns holding no segment and claiming no flag.
LEMMA ReturnKeeps ==
  ASSUME Inv, ~Idle, scen' = scen, NEW v, Return(v), PathGoes(FALSE), WeakGoes(FALSE)
  PROVE  Inv'
<1> DEFINE L == Len(stack)
<1>1. /\ IsSeq(stack') /\ Len(stack') = L - 1 /\ L \in Nat \ {0}
      /\ \A n \in 1 .. L - 1 : stack'[n] = stack[n]
  BY ReturnIs DEF Inv
<1> HIDE DEF L
<1>2. Top = stack[L] /\ (Idle' <=> L = 1)
  BY <1>1 DEF Top, L, Idle, IsSeq
<1>3. IsSeq(path') /\ Len(path') = Top.at /\ Top.at \in Nat
  <2>1. IsSeq(path') /\ Len(path') = Top.at + (IF FALSE THEN 1 ELSE 0) /\ Top.at \in Nat
    BY PathLen
  <2> QED BY <2>1
<1>4. StackOK'
  BY <1>1, <1>3 DEF Inv, StackOK, WeakGoes, L
<1>5. PathOK'
  <2>1. CASE L = 1
    BY <1>2, <1>3, <2>1 DEF Inv, PathOK, IsSeq
  <2>2. CASE L > 1
    <3>1. /\ stack[1].at = 0
          /\ \A n \in 1 .. L - 1 : stack[n + 1].at = Depth(stack[n])
          /\ \A n \in 2 .. L : stack[n].op # "run"
      BY <1>1, <2>2 DEF Inv, PathOK, Idle, L
    <3>2. Len(path') = Depth(stack[L - 1])
      BY <1>1, <1>2, <1>3, <2>2, <3>1
    <3>3. L - 1 \in 1 .. L - 1 /\ 1 \in 1 .. L - 1
      BY <1>1, <2>2
    <3>4. stack'[1].at = 0 /\ Len(path') = Depth(stack'[L - 1])
      BY <1>1, <3>1, <3>2, <3>3
    <3>5. \A n \in 1 .. L - 2 : stack'[n + 1].at = Depth(stack'[n])
      BY <1>1, <3>1
    <3>6. \A n \in 2 .. L - 1 : stack'[n].op # "run"
      BY <1>1, <3>1
    <3>7. ~Idle' /\ Len(stack') = L - 1 /\ Len(stack') - 1 = L - 2
      BY <1>1, <1>2, <2>2
    <3> QED BY <3>4, <3>5, <3>6, <3>7 DEF PathOK, Depth
  <2> QED BY <1>1, <2>1, <2>2
<1>6. WeakOK'
  <2>1. \A n \in 1 .. L : stack[n].weakened \in BOOLEAN
    BY <1>1 DEF Inv, StackOK, FrameOK, L
  <2>2. weak \in BOOLEAN /\ cfg' = cfg /\ cfg.weakTypes \in BOOLEAN
    BY DEF Inv, StackOK, WeakOK, cfg
  <2>3. weak' <=> weak /\ ~stack[L].weakened
    BY <1>2 DEF WeakGoes
  <2>4. /\ weak <=> cfg.weakTypes \/ \E n \in 1 .. L : stack[n].weakened
        /\ \A n \in 1 .. L : stack[n].weakened => ~cfg.weakTypes
        /\ \A m, n \in 1 .. L : stack[m].weakened /\ stack[n].weakened => m = n
    BY DEF Inv, WeakOK, L
  <2>5. weak' = (cfg.weakTypes \/ \E n \in 1 .. L - 1 : stack'[n].weakened)
    BY <1>1, <2>1, <2>2, <2>3, <2>4 DEF WeakGoes
  <2> QED BY <1>1, <2>2, <2>4, <2>5 DEF WeakOK
<1> QED BY <1>4, <1>5, <1>6 DEF Inv

-----------------------------------------------------------------------------
\* What a running function knows of its own frame.
LEMMA TopIs ==
  ASSUME Inv, ~Idle
  PROVE  /\ FrameOK(Top) /\ weak \in BOOLEAN /\ Len(path) \in Nat
         /\ Top.op # "fieldDone" => ~Top.weakened
<1>1. Len(stack) \in Nat \ {0} /\ Top = stack[Len(stack)] /\ FrameOK(Top)
  BY DEF Inv, StackOK, IsSeq, Idle, Top
<1> QED BY <1>1 DEF Inv, StackOK, FrameOK, IsSeq

\* A frame that is the running one somewhere else.
Same(f) == DOMAIN f = FrameFields /\ f.at = Top.at /\ f.weakened = Top.weakened

\* The steps handlers are made of.  A step that leaves the weak flag alone
\* either leaves the path alone as well, pushes a segment or pops it.
Leaves == scen' = scen /\ weak' = weak

\* A handler goes on, no segment held.
LEMMA Turn ==
  ASSUME Inv, ~Idle, Leaves, path' = path, NEW f, Become(f), Same(f),
         Top.op \notin Pushing, f.op \notin Pushing \union {"run"}
  PROVE  Inv'
<1>1. FrameOK(Top) /\ weak \in BOOLEAN /\ ~Top.weakened /\ f.op \notin {"run", "fieldDone"}
  BY TopIs DEF Pushing
<1>2. Carries(f) /\ PathGoes(f.op \in Pushing) /\ WeakGoes(f.weakened)
  BY <1>1 DEF Same, Carries, FrameOK, PathGoes, WeakGoes, Leaves
<1> QED BY <1>2, BecomeKeeps DEF Leaves

\* It goes on with the segment it holds.
LEMMA TurnHeld ==
  ASSUME Inv, ~Idle, Leaves, path' = path, NEW f, Become(f), Same(f),
         Top.op \in Pushing \ {"fieldDone"}, f.op \in Pushing \ {"fieldDone"}
  PROVE  Inv'
<1>1. FrameOK(Top) /\ weak \in BOOLEAN /\ ~Top.weakened /\ f.op \notin {"run", "fieldDone"}
  BY TopIs DEF Pushing
<1>2. Carries(f) /\ PathGoes(f.op \in Pushing) /\ WeakGoes(f.weakened)
  BY <1>1 DEF Same, Carries, FrameOK, PathGoes, WeakGoes, Leaves
<1> QED BY <1>2, BecomeKeeps DEF Leaves

\* It goes on with a segment of its own.
LEMMA TurnPush ==
  ASSUME Inv, ~Idle, Leaves, NEW s, Push(s), NEW f, Become(f), Same(f),
         Top.op \notin Pushing, f.op \in Pushing \ {"fieldDone"}
  PROVE  Inv'
<1>1. FrameOK(Top) /\ weak \in BOOLEAN /\ ~Top.weakened /\ f.op \notin {"run", "fieldDone"}
  BY TopIs DEF Pushing
<1>2. Carries(f) /\ PathGoes(f.op \in Pushing) /\ WeakGoes(f.weakened)
  BY <1>1 DEF Same, Carries, FrameOK, PathGoes, WeakGoes, Leaves
<1> QED BY <1>2, BecomeKeeps DEF Leaves

\* It goes on and gives its segment back.
LEMMA TurnPop ==
  ASSUME Inv, ~Idle, Leaves, Pop, NEW f, Become(f), Same(f),
         Top.op \in Pushing \ {"fieldDone"}, f.op \notin Pushing \union {"run"}
  PROVE  Inv'
<1>1. FrameOK(Top) /\ weak \in BOOLEAN /\ ~Top.weakened /\ f.op \notin {"run", "fieldDone"}
  BY TopIs DEF Pushing
<1>2. Carries(f) /\ PathGoes(f.op \in Pushing) /\ WeakGoes(f.weakened)
  BY <1>1 DEF Same, Carries, FrameOK, PathGoes, WeakGoes, Leaves
<1> QED BY <1>2, BecomeKeeps DEF Leaves

\* It returns, no segment held.
LEMMA End ==
  ASSUME Inv, ~Idle, Leaves, path' = path, Top.op \notin Pushing, NEW v, Return(v)
  PROVE  Inv'
<1>1. FrameOK(Top) /\ weak \in BOOLEAN /\ ~Top.weakened
  BY TopIs DEF Pushing
<1>2. PathGoes(FALSE) /\ WeakGoes(FALSE)
  BY <1>1 DEF FrameOK, PathGoes, WeakGoes, Leaves
<1> QED BY <1>2, ReturnKeeps DEF Leaves

\* It returns and gives its segment back.
LEMMA EndPop ==
  ASSUME Inv, ~Idle, Leaves, Pop, Top.op \in Pushing \ {"fieldDone"}, NEW v, Return(v)
  PROVE  Inv'
<1>1. FrameOK(Top) /\ weak \in BOOLEAN /\ ~Top.weakened
  BY TopIs DEF Pushing
<1>2. PathGoes(FALSE) /\ WeakGoes(FALSE)
  BY <1>1 DEF FrameOK, PathGoes, WeakGoes, Leaves
<1> QED BY <1>2, ReturnKeeps DEF Leaves

\* The frames handlers call.
LEMMA FrameIs ==
  ASSUME NEW op, NEW src, NEW cur, NEW dt, NEW tag
  PROVE  LET c == Frame(op, src, cur, dt, tag)
         IN  DOMAIN c = FrameFields /\ c.at = Len(path) /\ ~c.weakened /\ c.weakened \in BOOLEAN
             /\ c.op = op
BY DEF Frame, FrameFields

\* The children handlers call, at the same place or a segment further down.
LEMMA Called ==
  ASSUME Inv, ~Idle, NEW src, NEW cur, NEW dt, NEW tag
  PROVE  /\ path' = path => Fresh(ConvertFrame(src, cur, dt, tag))
         /\ path' = path => Fresh(Frame("toMap", src, cur, dt, tag))
         /\ \A s : Push(s) => Fresh(Below(ConvertFrame(src, cur, dt, tag)))
<1>1. Len(path) \in Nat
  BY TopIs
<1>2. ASSUME NEW s, Push(s) PROVE Len(path') = Len(path) + 1
  <2>1. PICK P : path \in Seq(P)
    BY DEF Inv, StackOK, IsSeq
  <2>2. path \in Seq(P \union {s})
    BY <2>1
  <2> QED BY <1>2, <2>2 DEF Push
<1>3. ASSUME NEW op \in {"toMap", "convert"}, path' = path
      PROVE  Fresh(Frame(op, src, cur, dt, tag))
  BY <1>1, <1>3, FrameIs DEF Fresh, FrameOK, Pushing
<1>4. ASSUME NEW s, Push(s) PROVE Fresh(Below(Frame("convert", src, cur, dt, tag)))
  BY <1>1, <1>2, <1>4, FrameIs DEF Fresh, FrameOK, Pushing, Below, FrameFields
<1> QED BY <1>3, <1>4 DEF ConvertFrame

\* It calls a child at the same place.
LEMMA CallPlain ==
  ASSUME Inv, ~Idle, Leaves, path' = path, NEW f, NEW c, Call(f, c), Same(f), Fresh(c),
         Top.op \notin Pushing, f.op \notin Pushing \union {"run"}
  PROVE  Inv'
<1>1. FrameOK(Top) /\ weak \in BOOLEAN /\ ~Top.weakened /\ f.op \notin {"run", "fieldDone"}
  BY TopIs DEF Pushing
<1>2. Carries(f) /\ PathGoes(f.op \in Pushing) /\ WeakGoes(f.weakened)
  BY <1>1 DEF Same, Carries, FrameOK, PathGoes, WeakGoes, Leaves
<1> QED BY <1>2, CallKeeps DEF Leaves

\* It calls a child below the segment it holds.
LEMMA CallHeld ==
  ASSUME Inv, ~Idle, Leaves, path' = path, NEW f, NEW c, Call(f, c), Same(f), Fresh(c),
         Top.op \in Pushing \ {"fieldDone"}, f.op \in Pushing \ {"fieldDone"}
  PROVE  Inv'
<1>1. FrameOK(Top) /\ weak \in BOOLEAN /\ ~Top.weakened /\ f.op \notin {"run", "fieldDone"}
  BY TopIs DEF Pushing
<1>2. Carries(f) /\ PathGoes(f.op \in Pushing) /\ WeakGoes(f.weakened)
  BY <1>1 DEF Same, Carries, FrameOK, PathGoes, WeakGoes, Leaves
<1> QED BY <1>2, CallKeeps DEF Leaves

\* It calls a child below a segment of its own.
LEMMA CallPush ==
  ASSUME Inv, ~Idle, Leaves, NEW s, Push(s), NEW f, NEW c, Call(f, c), Same(f), Fresh(c),
         Top.op \notin Pushing, f.op \in Pushing \ {"fieldDone"}
  PROVE  Inv'
<1>1. FrameOK(Top) /\ weak \in BOOLEAN /\ ~Top.weakened /\ f.op \notin {"run", "fieldDone"}
  BY TopIs DEF Pushing
<1>2. Carries(f) /\ PathGoes(f.op \in Pushing) /\ WeakGoes(f.weakened)
  BY <1>1 DEF Same, Carries, FrameOK, PathGoes, WeakGoes, Leaves
<1> QED BY <1>2, CallKeeps DEF Leaves

\* Updates of the fields the invariant does not look at, as the handlers
\* combine them.
LEMMA TopSame == Inv /\ ~Idle => Same(Top)
BY TopIs DEF Same, FrameOK

\* An update of the source.
LEMMA SetSrc ==
  ASSUME Inv, ~Idle, NEW a
  PROVE  Same([Top EXCEPT !.src = a]) /\ [Top EXCEPT !.src = a].op = Top.op
BY TopIs DEF Same, FrameOK, FrameFields

\* An update of the position.
LEMMA SetI ==
  ASSUME Inv, ~Idle, NEW a
  PROVE  Same([Top EXCEPT !.i = a]) /\ [Top EXCEPT !.i = a].op = Top.op
BY TopIs DEF Same, FrameOK, FrameFields

\* An update of the keys to visit.
LEMMA SetTodo ==
  ASSUME Inv, ~Idle, NEW a
  PROVE  Same([Top EXCEPT !.todo = a]) /\ [Top EXCEPT !.todo = a].op = Top.op
BY TopIs DEF Same, FrameOK, FrameFields

\* An update of the unclaimed keys.
LEMMA SetLeft ==
  ASSUME Inv, ~Idle, NEW a
  PROVE  Same([Top EXCEPT !.left = a]) /\ [Top EXCEPT !.left = a].op = Top.op
BY TopIs DEF Same, FrameOK, FrameFields

\* An update of where the handler is.
LEMMA SetOp ==
  ASSUME Inv, ~Idle, NEW a
  PROVE  Same([Top EXCEPT !.op = a]) /\ [Top EXCEPT !.op = a].op = a
BY TopIs DEF Same, FrameOK, FrameFields

\* An update of where it is and the source.
LEMMA SetOpSrc ==
  ASSUME Inv, ~Idle, NEW a, NEW b
  PROVE  Same([Top EXCEPT !.op = a, !.src = b]) /\ [Top EXCEPT !.op = a, !.src = b].op = a
BY TopIs DEF Same, FrameOK, FrameFields

\* An update of where it is and the content.
LEMMA SetOpCur ==
  ASSUME Inv, ~Idle, NEW a, NEW b
  PROVE  Same([Top EXCEPT !.op = a, !.cur = b]) /\ [Top EXCEPT !.op = a, !.cur = b].op = a
BY TopIs DEF Same, FrameOK, FrameFields

\* An update of where it is and the key.
LEMMA SetOpKey ==
  ASSUME Inv, ~Idle, NEW a, NEW b
  PROVE  Same([Top EXCEPT !.op = a, !.key = b]) /\ [Top EXCEPT !.op = a, !.key = b].op = a
BY TopIs DEF Same, FrameOK, FrameFields

\* An update of where it is and the value.
LEMMA SetOpVal ==
  ASSUME Inv, ~Idle, NEW a, NEW b
  PROVE  Same([Top EXCEPT !.op = a, !.val = b]) /\ [Top EXCEPT !.op = a, !.val = b].op = a
BY TopIs DEF Same, FrameOK, FrameFields

\* An update of where it is and the keys to visit.
LEMMA SetOpTodo ==
  ASSUME Inv, ~Idle, NEW a, NEW b
  PROVE  Same([Top EXCEPT !.op = a, !.todo = b]) /\ [Top EXCEPT !.op = a, !.todo = b].op = a
BY TopIs DEF Same, FrameOK, FrameFields

\* An update of where it is and the unclaimed keys.
LEMMA SetOpLeft ==
  ASSUME Inv, ~Idle, NEW a, NEW b
  PROVE  Same([Top EXCEPT !.op = a, !.left = b]) /\ [Top EXCEPT !.op = a, !.left = b].op = a
BY TopIs DEF Same, FrameOK, FrameFields

\* An update of where it is, the content and the position.
LEMMA SetOpCurI ==
  ASSUME Inv, ~Idle, NEW a, NEW b, NEW c
  PROVE  /\ Same([Top EXCEPT !.op = a, !.cur = b, !.i = c])
         /\ [Top EXCEPT !.op = a, !.cur = b, !.i = c].op = a
BY TopIs DEF Same, FrameOK, FrameFields

\* An update of where it is, the content and the keys to visit.
LEMMA SetOpCurTodo ==
  ASSUME Inv, ~Idle, NEW a, NEW b, NEW c
  PROVE  /\ Same([Top EXCEPT !.op = a, !.cur = b, !.todo = c])
         /\ [Top EXCEPT !.op = a, !.cur = b, !.todo = c].op = a
BY TopIs DEF Same, FrameOK, FrameFields

\* An update of where it is, the key and the keys to visit.
LEMMA SetOpKeyTodo ==
  ASSUME Inv, ~Idle, NEW a, NEW b, NEW c
  PROVE  /\ Same([Top EXCEPT !.op = a, !.key = b, !.todo = c])
         /\ [Top EXCEPT !.op = a, !.key = b, !.todo = c].op = a
BY TopIs DEF Same, FrameOK, FrameFields

\* An update of where it is, the type and the content.
LEMMA SetOpDtCur ==
  ASSUME Inv, ~Idle, NEW a, NEW b, NEW c
  PROVE  /\ Same([Top EXCEPT !.op = a, !.dt = b, !.cur = c])
         /\ [Top EXCEPT !.op = a, !.dt = b, !.cur = c].op = a
BY TopIs DEF Same, FrameOK, FrameFields

\* An update of where it is, the source and the content.
LEMMA SetOpSrcCur ==
  ASSUME Inv, ~Idle, NEW a, NEW b, NEW c
  PROVE  /\ Same([Top EXCEPT !.op = a, !.src = b, !.cur = c])
         /\ [Top EXCEPT !.op = a, !.src = b, !.cur = c].op = a
BY TopIs DEF Same, FrameOK, FrameFields

\* The actions of convert.go.
LEMMA ConvertKeeps == Inv /\ ConvertNext => Inv'
<1> SUFFICES ASSUME Inv, ConvertNext PROVE Inv'
  OBVIOUS
<1>0. ~Idle
  BY DEF ConvertNext, ConvertEnter, ApplyHooks, ApplyValueDecoder, ApplyValueEncoder,
         UnmarshalText, FollowPointer, Dispatch, ToScalar, At
<1> USE <1>0 DEF At, Private, Quiet, Leaves, Pushing
<1>1. CASE ConvertEnter
  BY <1>1, Turn, End, SetOpSrc DEF ConvertEnter
<1>2. CASE ApplyHooks
  BY <1>2, Turn, End, SetOpSrc DEF ApplyHooks
<1>3. CASE ApplyValueDecoder
  BY <1>3, Turn, End, SetOp DEF ApplyValueDecoder
<1>4. CASE ApplyValueEncoder
  BY <1>4, Turn, End, SetOpSrc DEF ApplyValueEncoder
<1>5. CASE UnmarshalText
  BY <1>5, Turn, End, SetOp DEF UnmarshalText
<1>6. CASE FollowPointer
  BY <1>6, Turn, End, SetSrc DEF FollowPointer
<1>7. CASE Dispatch
  BY <1>7, Turn, SetOp DEF Dispatch, Handler
<1>8. CASE ToScalar
  BY <1>8, End DEF ToScalar
<1> QED BY <1>1, <1>2, <1>3, <1>4, <1>5, <1>6, <1>7, <1>8 DEF ConvertNext

\* The actions of container.go.
LEMMA ContainersKeep == Inv /\ ContainersNext => Inv'
<1> SUFFICES ASSUME Inv, ContainersNext PROVE Inv'
  OBVIOUS
<1>0. ~Idle
  BY DEF ContainersNext, ToInterface, GenericReturn, GenericFollow, GenericToMap,
         GenericMapDone, GenericToSlice, GenericElem, GenericElemDone, GenericElemsDone,
         PointerDone, ToPointer, ToSlice, ToArray, SliceElem, SliceElemDone, SliceElemsEmpty, ToMap,
         MergeMap, MergeMapDone, MergeMapsDone, MapFromMap, MapEntry, MapKeyDone, MapElemDone,
         MapEntriesDone, At
<1> USE <1>0 DEF At, Private, Quiet, Leaves, Pushing
<1>1. CASE ToInterface
  BY <1>1, Turn, End, SetOp DEF ToInterface
<1>2. CASE GenericReturn
  BY <1>2, End DEF GenericReturn
<1>3. CASE GenericFollow
  BY <1>3, Turn, SetSrc DEF GenericFollow
<1>4. CASE GenericToMap
  BY <1>4, CallPlain, Called, SetOp DEF GenericToMap
<1>5. CASE GenericMapDone
  BY <1>5, End DEF GenericMapDone
<1>6. CASE GenericToSlice
  <2> DEFINE f == [Top EXCEPT !.op = "genericElems", !.dt = "sliceAny",
                   !.cur = Holding("sliceAny", [n \in DOMAIN Top.src.kids |-> Nil("any")])]
  <2>1. Become(f)
    BY <1>6 DEF GenericToSlice
  <2>2. path' = path /\ Leaves /\ Top.op = "generic"
    BY <1>6 DEF GenericToSlice
  <2>3. Same(f) /\ f.op = "genericElems"
    BY SetOpDtCur
  <2> HIDE DEF f
  <2> QED BY <2>1, <2>2, <2>3, Turn
<1>7. CASE GenericElem
  <2> DEFINE f == [Top EXCEPT !.op = "genericElemDone"]
             c == Below(ConvertFrame(Top.src.kids[Top.i], Nil("any"), "any", NoTag))
  <2>1. Call(f, c)
    BY <1>7 DEF GenericElem
  <2>2. Push(IndexSeg(Top.i - 1)) /\ Leaves /\ Top.op = "genericElems"
    BY <1>7 DEF GenericElem
  <2>3. Same(f) /\ f.op = "genericElemDone"
    BY SetOp
  <2>4. Fresh(c)
    BY <2>2, Called
  <2> HIDE DEF f, c
  <2> QED BY <2>1, <2>2, <2>3, <2>4, CallPush
<1>8. CASE GenericElemDone
  <2> DEFINE f == [Top EXCEPT !.op = "genericElems", !.cur.kids[Top.i] = ret, !.i = @ + 1]
  <2>1. Become(f)
    BY <1>8 DEF GenericElemDone
  <2>2. Pop /\ Leaves /\ Top.op = "genericElemDone"
    BY <1>8 DEF GenericElemDone
  <2>3. Same(f) /\ f.op = "genericElems"
    BY SetOpCurI
  <2> HIDE DEF f
  <2> QED BY <2>1, <2>2, <2>3, TurnPop
<1>9. CASE GenericElemsDone
  BY <1>9, End DEF GenericElemsDone
<1>10. CASE PointerDone
  BY <1>10, End DEF PointerDone
<1>11. CASE ToPointer
  <2> DEFINE f == [Top EXCEPT !.op = "pointerDone"]
             c == ConvertFrame(Top.src,
                    IF Top.cur.nil \/ cfg.zeroFields THEN ZeroOf[Elem(Top.dt)]
                    ELSE Top.cur.kids[1],
                    Elem(Top.dt), Top.tag)
  <2>1. (\E v : Return(v)) \/ Call(f, c)
    BY <1>11 DEF ToPointer
  <2>2. path' = path /\ Leaves /\ Top.op = "toPointer"
    BY <1>11 DEF ToPointer
  <2>3. Same(f) /\ f.op = "pointerDone"
    BY SetOp
  <2>4. Fresh(c)
    BY <2>2, Called
  <2> HIDE DEF f, c
  <2> QED BY <2>1, <2>2, <2>3, <2>4, CallPlain, End
<1>12. CASE ToSlice
  <2> DEFINE kids == IF IsList(Top.src) THEN Top.src.kids ELSE <<Top.src>>
             from == IF IsList(Top.src) THEN Top.src ELSE Lifted(kids)
             cur == SliceOfLen(Top, Len(kids))
             f == [Top EXCEPT !.op = "sliceElems", !.src = from, !.cur = cur]
  <2>1. (\E v : Return(v)) \/ Become(f)
    BY <1>12 DEF ToSlice
  <2>2. path' = path /\ Leaves /\ Top.op = "toSlice"
    BY <1>12 DEF ToSlice
  <2>3. Same(f) /\ f.op = "sliceElems"
    <3> HIDE DEF from, cur
    <3> QED BY SetOpSrcCur
  <2> HIDE DEF f
  <2> QED BY <2>1, <2>2, <2>3, Turn, End
<1>25. CASE ToArray
  <2> DEFINE letter == IF OfLetters(Top.dt) THEN Elem(Top.dt) ELSE "byte"
             kids == CASE IsList(Top.src)          -> Top.src.kids
                       [] Kind(Top.src) = "string" -> Letters(letter, Top.src.x)
                       [] OTHER                    -> <<Top.src>>
             from == Lifted(kids)
             cur == ArrayToFill(Top)
             f == [Top EXCEPT !.op = "sliceElems", !.src = from, !.cur = cur]
  <2>1. (\E v : Return(v)) \/ Become(f)
    BY <1>25 DEF ToArray
  <2>2. path' = path /\ Leaves /\ Top.op = "toArray"
    BY <1>25 DEF ToArray
  <2>3. Same(f) /\ f.op = "sliceElems"
    <3> HIDE DEF from, cur
    <3> QED BY SetOpSrcCur
  <2> HIDE DEF f
  <2> QED BY <2>1, <2>2, <2>3, Turn, End
<1>13. CASE SliceElem
  <2> DEFINE f == [Top EXCEPT !.op = "sliceElemDone"]
             c == Below(ConvertFrame(Top.src.kids[Top.i], Top.cur.kids[Top.i],
                                     Elem(Top.dt), Top.tag))
  <2>1. Call(f, c)
    BY <1>13 DEF SliceElem
  <2>2. Push(IndexSeg(Top.i - 1)) /\ Leaves /\ Top.op = "sliceElems"
    BY <1>13 DEF SliceElem
  <2>3. Same(f) /\ f.op = "sliceElemDone"
    BY SetOp
  <2>4. Fresh(c)
    BY <2>2, Called
  <2> HIDE DEF f, c
  <2> QED BY <2>1, <2>2, <2>3, <2>4, CallPush
<1>14. CASE SliceElemDone
  <2> DEFINE out == [Top.cur EXCEPT !.kids[Top.i] = ret]
             f == [Top EXCEPT !.op = "sliceElems", !.cur = out, !.i = @ + 1]
  <2>1. (\E v : Return(v)) \/ Become(f)
    BY <1>14 DEF SliceElemDone
  <2>2. Pop /\ Leaves /\ Top.op = "sliceElemDone"
    BY <1>14 DEF SliceElemDone
  <2>3. Same(f) /\ f.op = "sliceElems"
    BY SetOpCurI
  <2> HIDE DEF f
  <2> QED BY <2>1, <2>2, <2>3, TurnPop, EndPop
<1>15. CASE SliceElemsEmpty
  BY <1>15, End DEF SliceElemsEmpty
<1>16. CASE ToMap
  BY <1>16, Turn, End, SetOp, SetOpCur DEF ToMap
<1>17. CASE MergeMap
  <2> DEFINE f == [Top EXCEPT !.op = "mergeMapDone"]
             c == Below(ConvertFrame(Top.src.kids[Top.i], Top.cur, Top.dt, Top.tag))
  <2>1. Call(f, c)
    BY <1>17 DEF MergeMap
  <2>2. Push(IndexSeg(Top.i - 1)) /\ Leaves /\ Top.op = "mergeMaps"
    BY <1>17 DEF MergeMap
  <2>3. Same(f) /\ f.op = "mergeMapDone"
    BY SetOp
  <2>4. Fresh(c)
    BY <2>2, Called
  <2> HIDE DEF f, c
  <2> QED BY <2>1, <2>2, <2>3, <2>4, CallPush
<1>18. CASE MergeMapDone
  <2> DEFINE f == [Top EXCEPT !.op = "mergeMaps", !.cur = ret, !.i = @ + 1]
  <2>1. (\E v : Return(v)) \/ Become(f)
    BY <1>18 DEF MergeMapDone
  <2>2. Pop /\ Leaves /\ Top.op = "mergeMapDone"
    BY <1>18 DEF MergeMapDone
  <2>3. Same(f) /\ f.op = "mergeMaps"
    BY SetOpCurI
  <2> HIDE DEF f
  <2> QED BY <2>1, <2>2, <2>3, TurnPop, EndPop
<1>19. CASE MergeMapsDone
  BY <1>19, End DEF MergeMapsDone
<1>20. CASE MapFromMap
  <2> DEFINE f == [Top EXCEPT !.op = "mapEntries", !.cur = EnsureMap(Top),
                   !.todo = DOMAIN Top.src.kids]
  <2>1. (\E v : Return(v)) \/ Become(f)
    BY <1>20 DEF MapFromMap
  <2>2. path' = path /\ Leaves /\ Top.op = "mapFromMap"
    BY <1>20 DEF MapFromMap
  <2>3. Same(f) /\ f.op = "mapEntries"
    BY SetOpCurTodo
  <2> HIDE DEF f
  <2> QED BY <2>1, <2>2, <2>3, Turn, End
<1>21. CASE MapEntry
  <2>0. PICK k \in Top.todo :
          /\ Call([Top EXCEPT !.op = "mapKeyDone", !.key = k, !.todo = @ \ {k}],
                  Below(ConvertFrame(Scalar(Types[Top.src.t].key, k),
                                     ZeroOf[Types[Top.dt].key], Types[Top.dt].key, NoTag)))
          /\ Push(Seg(k))
    BY <1>21 DEF MapEntry
  <2> DEFINE f == [Top EXCEPT !.op = "mapKeyDone", !.key = k, !.todo = @ \ {k}]
             c == Below(ConvertFrame(Scalar(Types[Top.src.t].key, k),
                       ZeroOf[Types[Top.dt].key], Types[Top.dt].key, NoTag))
  <2>1. Call(f, c)
    BY <2>0
  <2>2. Push(Seg(k)) /\ Leaves /\ Top.op = "mapEntries"
    BY <2>0, <1>21 DEF MapEntry
  <2>3. Same(f) /\ f.op = "mapKeyDone"
    BY SetOpKeyTodo
  <2>4. Fresh(c)
    BY <2>2, Called
  <2> HIDE DEF f, c
  <2> QED BY <2>1, <2>2, <2>3, <2>4, CallPush
<1>22. CASE MapKeyDone
  <2> DEFINE out == IF ret.x \in DOMAIN Top.cur.kids /\ ~cfg.zeroFields
                    THEN Top.cur.kids[ret.x] ELSE ZeroOf[Elem(Top.dt)]
             f == [Top EXCEPT !.op = "mapElemDone", !.val = ret]
             c == ConvertFrame(Top.src.kids[Top.key], out, Elem(Top.dt), NoTag)
  <2>1. Call(f, c)
    BY <1>22 DEF MapKeyDone
  <2>2. path' = path /\ Leaves /\ Top.op = "mapKeyDone"
    BY <1>22 DEF MapKeyDone
  <2>3. Same(f) /\ f.op = "mapElemDone"
    BY SetOpVal
  <2>4. Fresh(c)
    BY <2>2, Called
  <2> HIDE DEF f, c
  <2> QED BY <2>1, <2>2, <2>3, <2>4, CallHeld
<1>23. CASE MapElemDone
  BY <1>23, TurnPop, EndPop, SetOpCur DEF MapElemDone
<1>24. CASE MapEntriesDone
  BY <1>24, End DEF MapEntriesDone
<1> QED BY <1>1, <1>2, <1>3, <1>4, <1>5, <1>6, <1>7, <1>8, <1>9, <1>10, <1>11, <1>12, <1>13,
           <1>14, <1>15, <1>16, <1>17, <1>18, <1>19, <1>20, <1>21, <1>22, <1>23, <1>24, <1>25 DEF
           ContainersNext

\* assignField: the field being assigned holds a path segment, and may have
\* raised the flag.
LEMMA AssignKeeps ==
  ASSUME Inv, ~Idle, scen' = scen, NEW back \in {"assignFields", "walkToStruct"},
         Top.op = back, NEW g, Same(g), g.op = back, NEW i, NEW v, AssignField(g, i, v, back)
  PROVE  Inv'
<1> DEFINE fs      == Fields(g.dt)
           into    == Reach(g.cur, i)
           weakens == "string" \in fs[i].opts /\ ~weak
           next    == [g EXCEPT !.op = back, !.cur = into]
           h       == [next EXCEPT !.op = "fieldDone", !.back = back, !.field = i,
                                   !.weakened = weakens]
           c       == Below(ConvertFrame(v, into.kids[i], fs[i].type, fs[i].opts))
<1>1. FrameOK(Top) /\ weak \in BOOLEAN /\ ~Top.weakened /\ Top.op \notin Pushing
  BY TopIs DEF Pushing
<1>2. CASE ~CanReach(g.cur, i)
  <2>1. /\ (\E w : Return(w)) \/ Become([g EXCEPT !.op = back])
        /\ path' = path /\ Leaves
    BY <1>2 DEF AssignField, Leaves
  <2>2. Same([g EXCEPT !.op = back]) /\ [g EXCEPT !.op = back].op = back
    BY DEF Same, FrameFields
  <2>3. back \notin Pushing \union {"run"}
    BY DEF Pushing
  <2> QED BY <1>1, <2>1, <2>2, <2>3, Turn, End
<1>3. CASE CanReach(g.cur, i) /\ ~fs[i].set
  <2>1. Become(next) /\ path' = path /\ Leaves
    BY <1>3 DEF AssignField, Leaves
  <2>2. Same(next) /\ next.op = back
    <3> HIDE DEF into
    <3> QED BY DEF Same, FrameFields
  <2>3. back \notin Pushing \union {"run"}
    BY DEF Pushing
  <2> HIDE DEF next
  <2> QED BY <1>1, <2>1, <2>2, <2>3, Turn
<1>4. CASE CanReach(g.cur, i) /\ fs[i].set
  <2>1. Call(h, c) /\ Push(Seg(fs[i].name))
    BY <1>4 DEF AssignField
  <2>2. weak' = (weak \/ weakens)
    BY <1>4 DEF AssignField
  <2>3. Fresh(c)
    BY <2>1, Called
  <2>4. weakens \in BOOLEAN /\ (weakens => ~weak)
    OBVIOUS
  <2>5. /\ DOMAIN h = FrameFields /\ h.at = Top.at /\ h.op = "fieldDone"
        /\ h.back = back /\ h.weakened = weakens
    <3> HIDE DEF into, weakens
    <3> QED BY <1>1 DEF Same, FrameFields
  <2> HIDE DEF h, c, weakens
  <2>6. Carries(h)
    BY <1>1, <2>4, <2>5 DEF Carries, FrameOK
  <2>7. PathGoes(h.op \in Pushing)
    BY <1>1, <2>1, <2>5 DEF PathGoes, Pushing
  <2>8. WeakGoes(h.weakened)
    BY <1>1, <2>2, <2>4, <2>5 DEF WeakGoes
  <2> QED BY <2>1, <2>3, <2>6, <2>7, <2>8, CallKeeps
<1> QED BY <1>2, <1>3, <1>4

\* The end of it gives both back.
LEMMA FieldDoneKeeps == Inv /\ FieldDone => Inv'
<1> SUFFICES ASSUME Inv, FieldDone PROVE Inv'
  OBVIOUS
<1> DEFINE out == [Top.cur EXCEPT !.kids[Top.field] = ret]
           f   == [Top EXCEPT !.op = Top.back, !.cur = out, !.weakened = FALSE]
<1>1. ~Idle /\ Top.op = "fieldDone" /\ scen' = scen /\ Pop
  BY DEF FieldDone, At, Quiet
<1>2. weak' = (weak /\ ~Top.weakened)
  BY DEF FieldDone
<1>3. FrameOK(Top) /\ weak \in BOOLEAN
  BY <1>1, TopIs
<1>4. (\E v : Return(v)) \/ Become(f)
  BY DEF FieldDone
<1>5. /\ DOMAIN f = FrameFields /\ f.at = Top.at /\ f.weakened = FALSE /\ f.op = Top.back
  <2> HIDE DEF out
  <2> QED BY <1>3 DEF FrameOK, FrameFields
<1>6. PathGoes(FALSE) /\ WeakGoes(FALSE)
  BY <1>1, <1>2, <1>3 DEF PathGoes, WeakGoes, Pushing
<1> HIDE DEF f
<1>7. Carries(f) /\ f.op \notin Pushing
  BY <1>1, <1>3, <1>5 DEF Carries, FrameOK, Pushing
<1>8. PathGoes(f.op \in Pushing) /\ WeakGoes(f.weakened)
  BY <1>1, <1>2, <1>3, <1>5, <1>7 DEF PathGoes, WeakGoes, Pushing
<1> QED BY <1>1, <1>4, <1>6, <1>7, <1>8, BecomeKeeps, ReturnKeeps

\* The walk over the fields of a struct source changes only its own locals.
LEMMA ItemSame ==
  ASSUME Inv, ~Idle, NEW item \in Items(Top)
  PROVE  Same(item.next) /\ item.next.op = Top.op
<1>2. CASE Top.todo # {}
  <2>1. PICK k \in Top.todo :
          item = [name |-> k, val |-> Top.val.kids[k], tag |-> NoTag,
                  next |-> [Top EXCEPT !.todo = @ \ {k}]]
    BY <1>2 DEF Items
  <2> DEFINE d == Top.todo \ {k}
  <2>2. item.next = [Top EXCEPT !.todo = d]
    BY <2>1
  <2> HIDE DEF d
  <2> QED BY <2>2, SetTodo
<1>3. CASE Top.todo = {}
  <2>1. item.next = [Top EXCEPT !.i = Top.i + 1]
    BY <1>3 DEF Items
  <2> QED BY <2>1, SetI
<1> QED BY <1>2, <1>3

\* So does skipping a field of it.
LEMMA SkipSame ==
  ASSUME Inv, ~Idle
  PROVE  Same(SkipField(Top)) /\ SkipField(Top).op = Top.op
<1> DEFINE m == DerefOrZero(Top.src.kids[Top.i])
           d == DOMAIN m.kids
           n == Top.i + 1
<1>1. SkipField(Top) = [Top EXCEPT !.i = n, !.val = m, !.todo = d]
      \/ SkipField(Top) = [Top EXCEPT !.i = n]
  BY DEF SkipField
<1> HIDE DEF m, d, n
<1>3. /\ Same([Top EXCEPT !.i = n, !.val = m, !.todo = d])
      /\ [Top EXCEPT !.i = n, !.val = m, !.todo = d].op = Top.op
  BY TopIs DEF Same, FrameOK, FrameFields
<1>4. Same([Top EXCEPT !.i = n]) /\ [Top EXCEPT !.i = n].op = Top.op
  BY SetI
<1> QED BY <1>1, <1>3, <1>4

\* The conversion of what nothing claimed into a remain field.
LEMMA RemainKeeps ==
  ASSUME Inv, ~Idle, Leaves, Top.op \in {"finishStruct", "finishPairs"},
         NEW g, Same(g), NEW m, NEW follow, RemainInto(g, m, follow)
  PROVE  Inv'
<1> DEFINE i    == Info[g.dt].remain
           fi   == Fields(g.dt)[i]
           into == Reach(g.cur, i)
           slot == into.kids[i]
           old  == IF ~follow THEN slot
                   ELSE IF slot.nil THEN ZeroOf[Elem(fi.type)] ELSE slot.kids[1]
           f    == [g EXCEPT !.op = "remainDone", !.cur = into]
           c    == Below(ConvertFrame(m, old, IF follow THEN Elem(fi.type) ELSE fi.type, fi.opts))
<1>1. Call(f, c) /\ Push(Seg(fi.name))
  BY DEF RemainInto
<1>2. Same(f) /\ f.op = "remainDone"
  <2> HIDE DEF into
  <2> QED BY DEF Same, FrameFields
<1>3. Fresh(c)
  BY <1>1, Called
<1> HIDE DEF f, c
<1> QED BY <1>1, <1>2, <1>3, CallPush DEF Pushing

\* The remain field of a struct that was filled from a map.
LEMMA FillRemainKeeps == Inv /\ FillRemain => Inv'
<1> SUFFICES ASSUME Inv, FillRemain PROVE Inv'
  OBVIOUS
<1> DEFINE filled == [Top EXCEPT !.left = << >>]
<1>1. ~Idle /\ Leaves /\ Top.op = "finishStruct"
  BY DEF FillRemain, At, Quiet, Leaves
<1>2. \/ Become(filled) /\ path' = path
      \/ (\E v : Become([filled EXCEPT !.cur = v])) /\ path' = path
      \/ \E m, follow : RemainInto(filled, m, follow)
  BY DEF FillRemain
<1>3. Same(filled) /\ filled.op = Top.op
  BY <1>1, SetLeft
<1> HIDE DEF filled
<1>4. CASE Become(filled) /\ path' = path
  BY <1>1, <1>3, <1>4, Turn DEF Pushing
<1>5. CASE (\E v : Become([filled EXCEPT !.cur = v])) /\ path' = path
  <2>1. PICK v : Become([filled EXCEPT !.cur = v])
    BY <1>5
  <2> DEFINE f == [filled EXCEPT !.cur = v]
  <2>2. Same(f) /\ f.op = Top.op
    BY <1>3 DEF Same, FrameFields
  <2>3. Become(f)
    BY <2>1
  <2> HIDE DEF f
  <2> QED BY <1>1, <1>5, <2>2, <2>3, Turn DEF Pushing
<1>6. CASE \E m, follow : RemainInto(filled, m, follow)
  BY <1>1, <1>3, <1>6, RemainKeeps
<1> QED BY <1>2, <1>4, <1>5, <1>6

\* The remain field of a struct that was filled from a struct.
LEMMA FinishPairsKeeps == Inv /\ FinishPairs => Inv'
<1> SUFFICES ASSUME Inv, FinishPairs PROVE Inv'
  OBVIOUS
<1>1. ~Idle /\ Leaves /\ Top.op = "finishPairs"
  BY DEF FinishPairs, At, Quiet, Leaves
<1>2. \/ (\E o : Become([Top EXCEPT !.op = "finishStruct", !.left = o])) /\ path' = path
      \/ (\E v : Return(v)) /\ path' = path
      \/ \E m, follow : RemainInto(Top, m, follow)
  BY DEF FinishPairs
<1>3. CASE (\E o : Become([Top EXCEPT !.op = "finishStruct", !.left = o])) /\ path' = path
  <2>1. PICK o : Become([Top EXCEPT !.op = "finishStruct", !.left = o])
    BY <1>3
  <2> DEFINE f == [Top EXCEPT !.op = "finishStruct", !.left = o]
  <2>2. Same(f) /\ f.op = "finishStruct"
    BY <1>1, SetOpLeft
  <2>3. Become(f)
    BY <2>1
  <2> HIDE DEF f
  <2> QED BY <1>1, <1>3, <2>2, <2>3, Turn DEF Pushing
<1>4. CASE (\E v : Return(v)) /\ path' = path
  BY <1>1, <1>4, End DEF Pushing
<1>5. CASE \E m, follow : RemainInto(Top, m, follow)
  BY <1>1, <1>5, RemainKeeps, TopSame
<1> QED BY <1>2, <1>3, <1>4, <1>5

\* One field of a source struct on its way to a destination struct.
LEMMA WalkToStructKeeps == Inv /\ WalkToStruct => Inv'
<1> SUFFICES ASSUME Inv, WalkToStruct PROVE Inv'
  OBVIOUS
<1>1. ~Idle /\ scen' = scen /\ Top.op = "walkToStruct"
  BY DEF WalkToStruct, At, Quiet
<1>2. PICK item \in Items(Top) :
        \/ \E r : Become([item.next EXCEPT !.rest = r]) /\ UNCHANGED <<path, weak>>
        \/ \E i, v, r : AssignField([item.next EXCEPT !.got = r], i, v, "walkToStruct")
  BY DEF WalkToStruct
<1>3. Same(item.next) /\ item.next.op = "walkToStruct"
  BY <1>1, ItemSame
<1>4. CASE \E r : Become([item.next EXCEPT !.rest = r]) /\ UNCHANGED <<path, weak>>
  <2>1. PICK r : Become([item.next EXCEPT !.rest = r]) /\ UNCHANGED <<path, weak>>
    BY <1>4
  <2> DEFINE f == [item.next EXCEPT !.rest = r]
  <2>2. Same(f) /\ f.op = "walkToStruct"
    BY <1>3 DEF Same, FrameFields
  <2>3. Become(f) /\ Leaves /\ path' = path
    BY <1>1, <2>1 DEF Leaves
  <2> HIDE DEF f
  <2> QED BY <1>1, <2>2, <2>3, Turn DEF Pushing
<1>5. CASE \E i, v, r : AssignField([item.next EXCEPT !.got = r], i, v, "walkToStruct")
  <2>1. PICK i, v, r : AssignField([item.next EXCEPT !.got = r], i, v, "walkToStruct")
    BY <1>5
  <2> DEFINE f == [item.next EXCEPT !.got = r]
  <2>2. Same(f) /\ f.op = "walkToStruct"
    BY <1>3 DEF Same, FrameFields
  <2>3. AssignField(f, i, v, "walkToStruct")
    BY <2>1
  <2> HIDE DEF f
  <2> QED BY <1>1, <2>2, <2>3, AssignKeeps
<1> QED BY <1>2, <1>4, <1>5

\* The actions of struct.go.
LEMMA StructsKeep == Inv /\ StructsNext => Inv'
<1> SUFFICES ASSUME Inv, StructsNext PROVE Inv'
  OBVIOUS
<1>0. ~Idle
  BY DEF StructsNext, ToStruct, SkipInWalk, MapFromStruct, WalkToMap, EntryKeyDone, WriteEntry,
         RefuseEntry, EntryDone, WalkToMapOver, FieldDone, StructFromMap, MatchKey,
         MatchKeysDone, AssignNextField, AssignFieldsDone, FinishStruct, FillRemain, RemainDone,
         StructFromStruct, WalkToStruct, WalkToStructOver, FinishPairs, At
<1> USE <1>0 DEF At, Private, Quiet, Leaves, Pushing
<1>1. CASE ToStruct
  <2>1. \/ \E v : Return(v)
        \/ Become([Top EXCEPT !.op = "structFromMap"])
        \/ Become([Top EXCEPT !.op = "structFromStruct"])
    BY <1>1 DEF ToStruct
  <2>2. path' = path /\ Leaves /\ Top.op = "toStruct"
    BY <1>1 DEF ToStruct
  <2> QED BY <2>1, <2>2, Turn, End, SetOp
<1>2. CASE SkipInWalk
  <2>1. path' = path /\ Leaves /\ Top.op \in {"walkToMap", "walkToStruct"}
    BY <1>2 DEF SkipInWalk
  <2>2. Become(SkipField(Top)) \/ \E item \in Items(Top) : Become(item.next)
    BY <1>2 DEF SkipInWalk
  <2> QED BY <2>1, <2>2, Turn, ItemSame, SkipSame
<1>3. CASE MapFromStruct
  <2> DEFINE cur == IF Top.cur.nil \/ cfg.zeroFields THEN Holding(Top.dt, << >>) ELSE Top.cur
             f   == [Top EXCEPT !.op = "walkToMap", !.cur = cur]
  <2>1. (\E v : Return(v)) \/ Become(f)
    BY <1>3 DEF MapFromStruct
  <2>2. path' = path /\ Leaves /\ Top.op = "mapFromStruct"
    BY <1>3 DEF MapFromStruct
  <2>3. Same(f) /\ f.op = "walkToMap"
    BY SetOpCur
  <2> HIDE DEF f
  <2> QED BY <2>1, <2>2, <2>3, Turn, End
<1>4. CASE WalkToMap
  <2>0. PICK item \in Items(Top) :
          LET f == [item.next EXCEPT !.key = item.name, !.fv = Dereferenced(item),
                                      !.vtag = item.tag]
          IN  /\ \/ Become([f EXCEPT !.op = "entry"])
                 \/ Call([f EXCEPT !.op = "entryKeyDone"],
                         Below(ConvertFrame(Scalar("string", item.name), ZeroOf[Types[Top.dt].key],
                                            Types[Top.dt].key, NoTag)))
              /\ Push(Seg(item.name))
    BY <1>4 DEF WalkToMap
  <2> DEFINE d == Dereferenced(item)
             f == [item.next EXCEPT !.key = item.name, !.fv = d, !.vtag = item.tag]
             e == [f EXCEPT !.op = "entry"]
             k == [f EXCEPT !.op = "entryKeyDone"]
             c == Below(ConvertFrame(Scalar("string", item.name), ZeroOf[Types[Top.dt].key],
                                     Types[Top.dt].key, NoTag))
  <2>1. (Become(e) \/ Call(k, c)) /\ Push(Seg(item.name))
    BY <2>0
  <2>2. Leaves /\ Top.op = "walkToMap"
    BY <1>4 DEF WalkToMap
  <2>3. Same(item.next) /\ item.next.op = Top.op
    BY ItemSame
  <2>4. Same(e) /\ e.op = "entry" /\ Same(k) /\ k.op = "entryKeyDone"
    <3> HIDE DEF d
    <3> QED BY <2>3 DEF Same, FrameFields
  <2>5. Fresh(c)
    BY <2>1, Called
  <2> HIDE DEF e, k, c
  <2> QED BY <2>1, <2>2, <2>4, <2>5, TurnPush, CallPush
<1>5. CASE EntryKeyDone
  <2>1. /\ Become([Top EXCEPT !.op = "entry", !.key = ret.x])
        /\ path' = path /\ Leaves /\ Top.op = "entryKeyDone"
    BY <1>5 DEF EntryKeyDone
  <2> QED BY <2>1, TurnHeld, SetOpKey
<1>6. CASE WriteEntry
  <2> DEFINE f == [Top EXCEPT !.op = "entryDone"]
             c == EntryFrame(Top.fv, Top.vtag, Top.dt)
  <2>1. Call(f, c) /\ path' = path /\ Leaves /\ Top.op = "entry"
    BY <1>6 DEF WriteEntry
  <2>2. Same(f) /\ f.op = "entryDone"
    BY SetOp
  <2>3. Fresh(c)
    BY <2>1, Called DEF EntryFrame
  <2> HIDE DEF f, c
  <2> QED BY <2>1, <2>2, <2>3, CallHeld
<1>7. CASE RefuseEntry
  <2> DEFINE f == [Top EXCEPT !.op = "walkToMap"]
  <2>1. ((\E v : Return(v)) \/ Become(f)) /\ Pop /\ Leaves /\ Top.op = "entry"
    BY <1>7 DEF RefuseEntry
  <2>2. Same(f) /\ f.op = "walkToMap"
    BY SetOp
  <2> HIDE DEF f
  <2> QED BY <2>1, <2>2, TurnPop, EndPop
<1>8. CASE EntryDone
  <2> DEFINE kids == [k \in DOMAIN Top.cur.kids \union {Top.key} |->
                        IF k = Top.key THEN ret ELSE Top.cur.kids[k]]
             f    == [Top EXCEPT !.op = "walkToMap", !.cur.kids = kids]
  <2>1. (\E v : Return(v)) \/ Become(f)
    BY <1>8 DEF EntryDone
  <2>2. Pop /\ Leaves /\ Top.op = "entryDone"
    BY <1>8 DEF EntryDone
  <2>3. Same(f) /\ f.op = "walkToMap"
    <3> HIDE DEF kids
    <3> QED BY SetOpCur
  <2> HIDE DEF f
  <2> QED BY <2>1, <2>2, <2>3, TurnPop, EndPop
<1>9. CASE WalkToMapOver
  BY <1>9, End DEF WalkToMapOver
<1>10. CASE FieldDone
  BY <1>10, FieldDoneKeeps
<1>11. CASE StructFromMap
  <2> DEFINE f == [Top EXCEPT !.op = "matchKeys", !.todo = DOMAIN Top.src.kids]
  <2>1. ((\E v : Return(v)) \/ Become(f)) /\ path' = path /\ Leaves /\ Top.op = "structFromMap"
    BY <1>11 DEF StructFromMap
  <2>2. Same(f) /\ f.op = "matchKeys"
    BY SetOpTodo
  <2> HIDE DEF f
  <2> QED BY <2>1, <2>2, Turn, End
<1>12. CASE MatchKey
  <2>1. path' = path /\ Leaves /\ Top.op = "matchKeys"
    BY <1>12 DEF MatchKey
  <2>2. PICK t, l, m :
          \/ Become([[Top EXCEPT !.todo = t] EXCEPT !.left = l])
          \/ Become([Top EXCEPT !.todo = t])
          \/ Become([[Top EXCEPT !.todo = t] EXCEPT !.got = m])
    BY <1>12 DEF MatchKey
  <2>3. /\ Same([Top EXCEPT !.todo = t]) /\ [Top EXCEPT !.todo = t].op = Top.op
        /\ Same([[Top EXCEPT !.todo = t] EXCEPT !.left = l])
        /\ [[Top EXCEPT !.todo = t] EXCEPT !.left = l].op = Top.op
        /\ Same([[Top EXCEPT !.todo = t] EXCEPT !.got = m])
        /\ [[Top EXCEPT !.todo = t] EXCEPT !.got = m].op = Top.op
    BY TopIs DEF Same, FrameOK, FrameFields
  <2> QED BY <2>1, <2>2, <2>3, Turn
<1>13. CASE MatchKeysDone \/ AssignFieldsDone
  BY <1>13, Turn, SetOp DEF MatchKeysDone, AssignFieldsDone
<1>14. CASE AssignNextField
  <2>1. PICK i : AssignField([Top EXCEPT !.i = i + 1], i, Top.got[i], "assignFields")
    BY <1>14 DEF AssignNextField
  <2>3. scen' = scen /\ Top.op = "assignFields"
    BY <1>14 DEF AssignNextField
  <2>4. Same([Top EXCEPT !.i = i + 1]) /\ [Top EXCEPT !.i = i + 1].op = Top.op
    BY SetI
  <2> QED BY <2>1, <2>3, <2>4, AssignKeeps
<1>15. CASE FinishStruct
  <2>1. (\E v : Return(v)) /\ path' = path /\ Leaves /\ Top.op = "finishStruct"
    BY <1>15 DEF FinishStruct
  <2> QED BY <2>1, End
<1>16. CASE FillRemain
  BY <1>16, FillRemainKeeps
<1>17. CASE RemainDone
  <2> DEFINE slot == IF ret.t = RemainType(Top) THEN ret ELSE Holding(RemainType(Top), <<ret>>)
             f    == [Top EXCEPT !.op = "finishStruct", !.cur.kids[Info[Top.dt].remain] = slot]
  <2>1. Become(f) /\ Pop /\ Leaves /\ Top.op = "remainDone"
    BY <1>17 DEF RemainDone
  <2>2. Same(f) /\ f.op = "finishStruct"
    <3> HIDE DEF slot
    <3> QED BY SetOpCur
  <2> HIDE DEF f
  <2> QED BY <2>1, <2>2, TurnPop
<1>18. CASE StructFromStruct
  <2> DEFINE f == [Top EXCEPT !.op = "walkToStruct"]
  <2>1. ((\E v : Return(v)) \/ Become(f)) /\ path' = path /\ Leaves /\ Top.op = "structFromStruct"
    BY <1>18 DEF StructFromStruct
  <2>2. Same(f) /\ f.op = "walkToStruct"
    BY SetOp
  <2> HIDE DEF f
  <2> QED BY <2>1, <2>2, Turn, End
<1>19. CASE WalkToStruct
  BY <1>19, WalkToStructKeeps
<1>20. CASE WalkToStructOver
  <2> DEFINE f == [Top EXCEPT !.op = "finishPairs"]
  <2>1. ((\E v : Return(v)) \/ Become(f)) /\ path' = path /\ Leaves /\ Top.op = "walkToStruct"
    BY <1>20 DEF WalkToStructOver
  <2>2. Same(f) /\ f.op = "finishPairs"
    BY SetOp
  <2> HIDE DEF f
  <2> QED BY <2>1, <2>2, Turn, End
<1>21. CASE FinishPairs
  BY <1>21, FinishPairsKeeps
<1> QED
  BY <1>1, <1>2, <1>3, <1>4, <1>5, <1>6, <1>7, <1>8, <1>9, <1>10, <1>11, <1>12, <1>13, <1>14,
     <1>15, <1>16, <1>17, <1>18, <1>19, <1>20, <1>21 DEF StructsNext

-----------------------------------------------------------------------------
\* A session starts with nothing running.
LEMMA StackInit == Init => Inv
<1> SUFFICES ASSUME Init PROVE Inv
  OBVIOUS
<1>1. stack = << >> /\ path = << >> /\ weak = cfg.weakTypes
  BY DEF Init, cfg
<1>2. cfg.weakTypes \in BOOLEAN
  BY ScenariosAssumption DEF Init, cfg
<1>3. stack \in Seq({}) /\ path \in Seq({}) /\ Len(stack) = 0
  BY <1>1
<1>4. StackOK
  BY <1>1, <1>2, <1>3 DEF StackOK, IsSeq
<1>5. PathOK
  BY <1>1 DEF PathOK, Idle
<1>6. WeakOK
  BY <1>1, <1>2, <1>3 DEF WeakOK
<1> QED BY <1>4, <1>5, <1>6 DEF Inv

\* A call of the codec starts where none is running, with the weak flag of
\* the codec.
LEMMA StartKeeps == Inv /\ StartCall => Inv'
<1> SUFFICES ASSUME Inv, StartCall PROVE Inv'
  OBVIOUS
<1>1. /\ Idle /\ path = << >> /\ path' = path /\ weak' = cfg.weakTypes /\ scen' = scen
      /\ cfg.weakTypes \in BOOLEAN
  BY DEF StartCall, Inv, PathOK, WeakOK
<1>2. PICK src, cur, dt :
        stack' = <<Frame("run", src, cur, dt, NoTag), ConvertFrame(src, cur, dt, NoTag)>>
  BY DEF StartCall
<1> DEFINE r == Frame("run", src, cur, dt, NoTag)
           c == ConvertFrame(src, cur, dt, NoTag)
<1>3. Len(path) = 0
  BY <1>1
<1>4. /\ FrameOK(r) /\ r.at = 0 /\ ~r.weakened /\ Depth(r) = 0
      /\ FrameOK(c) /\ c.at = 0 /\ ~c.weakened /\ Depth(c) = 0 /\ c.op # "run"
  BY <1>3, FrameIs DEF ConvertFrame, FrameOK, Depth, Pushing
<1> HIDE DEF r, c
<1>5. stack' = <<r, c>>
  BY <1>2 DEF r, c
<1>6. stack' \in Seq({r, c}) /\ Len(stack') = 2 /\ stack'[1] = r /\ stack'[2] = c /\ ~Idle'
  BY <1>5 DEF Idle
<1>7. path' \in Seq({}) /\ Len(path') = 0
  BY <1>1
<1>8. StackOK'
  BY <1>1, <1>4, <1>6, <1>7 DEF StackOK, IsSeq, FrameOK
<1>9. PathOK'
  BY <1>4, <1>6, <1>7 DEF PathOK, Depth
<1>10. WeakOK'
  BY <1>1, <1>4, <1>6 DEF WeakOK, cfg
<1> QED BY <1>8, <1>9, <1>10 DEF Inv

\* It returns when nothing else is running, so it leaves nothing pushed and
\* nothing raised.
LEMMA EndKeeps == Inv /\ EndCall => Inv'
<1> SUFFICES ASSUME Inv, EndCall PROVE Inv'
  OBVIOUS
<1>1. /\ ~Idle /\ Top.op = "run" /\ stack' = << >> /\ path' = path /\ weak' = weak
      /\ scen' = scen
  BY DEF EndCall, At
<1>2. Len(stack) \in Nat \ {0} /\ Top = stack[Len(stack)] /\ FrameOK(Top)
  BY <1>1 DEF Inv, StackOK, IsSeq, Idle, Top
<1>3. Len(stack) = 1
  <2>1. \A n \in 2 .. Len(stack) : stack[n].op # "run"
    BY <1>1 DEF Inv, PathOK
  <2>2. stack[Len(stack)].op = "run"
    BY <1>1, <1>2
  <2>3. Len(stack) \notin 2 .. Len(stack)
    BY <2>1, <2>2
  <2> DEFINE l == Len(stack)
  <2>4. l \in Nat \ {0} /\ l \notin 2 .. l
    BY <1>2, <2>3
  <2> HIDE DEF l
  <2>5. l = 1
    BY <2>4
  <2> QED BY <2>5 DEF l
<1>4. Len(path) = 0 /\ path = << >>
  BY <1>1, <1>2, <1>3 DEF Inv, PathOK, Depth, Pushing, StackOK, IsSeq
<1>5. ~stack[1].weakened
  BY <1>1, <1>2, <1>3 DEF FrameOK
<1>6. weak = cfg.weakTypes /\ cfg.weakTypes \in BOOLEAN
  BY <1>3, <1>5 DEF Inv, WeakOK
<1>7. stack' \in Seq({}) /\ path' \in Seq({}) /\ Len(stack') = 0
  BY <1>1, <1>4
<1>8. StackOK'
  BY <1>1, <1>6, <1>7 DEF StackOK, IsSeq
<1>9. PathOK'
  BY <1>1, <1>4 DEF PathOK, Idle
<1>10. WeakOK'
  BY <1>1, <1>6, <1>7 DEF WeakOK, cfg
<1> QED BY <1>8, <1>9, <1>10 DEF Inv

\* Every step of the engine keeps the invariant.
LEMMA StackStep == Inv /\ [Next]_vars => Inv'
<1>1. Inv /\ (Rest \/ UNCHANGED vars) => Inv'
  BY DEF Rest, vars, Inv, StackOK, PathOK, WeakOK, Idle, cfg
<1> QED
  BY <1>1, StartKeeps, EndKeeps, ConvertKeeps, ContainersKeep, StructsKeep DEF Next

-----------------------------------------------------------------------------
\* Whatever the types, the values, the configuration and the map orders, a
\* function returns with the path as deep as it found it, by every early
\* return of every handler; so an error always names the place it happened at.
THEOREM PathAlwaysBalanced == Spec => []PathBalanced
<1>1. Inv => PathBalanced
  <2>1. Idle => Len(stack) = 0
    BY DEF Idle
  <2> QED BY <2>1 DEF Inv, PathOK, PathBalanced, Top
<1> QED
  BY <1>1, StackInit, StackStep, PTL DEF Spec

\* Whatever is nested in what, weak typing is on for the codec, or for the
\* field with the `string` option being converted, and off again after it.
THEOREM WeakAlwaysScoped == Spec => []WeakScoped
<1>1. Inv => WeakScoped
  <2> SUFFICES ASSUME Inv PROVE WeakScoped
    OBVIOUS
  <2>1. DOMAIN stack = 1 .. Len(stack)
    BY DEF Inv, StackOK, IsSeq
  <2> QED BY <2>1 DEF Inv, WeakOK, WeakScoped
<1> QED
  BY <1>1, StackInit, StackStep, PTL DEF Spec

-----------------------------------------------------------------------------
\* What a handler leaves alone.
LEMMA Undisturbed ==
  ConvertNext \/ ContainersNext \/ StructsNext =>
    ~Idle /\ Top.op # "run" /\ UNCHANGED <<scen, results>>
<1> USE DEF Private, Quiet, At
<1>1. ConvertNext => ~Idle /\ Top.op # "run" /\ UNCHANGED <<scen, results>>
  BY DEF ConvertNext, ConvertEnter, ApplyHooks, ApplyValueDecoder, ApplyValueEncoder,
         UnmarshalText, FollowPointer, Dispatch, ToScalar
<1>2. ContainersNext => ~Idle /\ Top.op # "run" /\ UNCHANGED <<scen, results>>
  BY DEF ContainersNext, ToInterface, GenericReturn, GenericFollow, GenericToMap,
         GenericMapDone, GenericToSlice, GenericElem, GenericElemDone, GenericElemsDone,
         PointerDone, ToPointer, ToSlice, ToArray, SliceElem, SliceElemDone, SliceElemsEmpty, ToMap,
         MergeMap, MergeMapDone, MergeMapsDone, MapFromMap, MapEntry, MapKeyDone, MapElemDone,
         MapEntriesDone
<1>3. StructsNext => ~Idle /\ Top.op # "run" /\ UNCHANGED <<scen, results>>
  BY DEF StructsNext, ToStruct, SkipInWalk, MapFromStruct, WalkToMap, EntryKeyDone, WriteEntry,
         RefuseEntry, EntryDone, WalkToMapOver, FieldDone, StructFromMap, MatchKey,
         MatchKeysDone, AssignNextField, AssignFieldsDone, FinishStruct, FillRemain, RemainDone,
         StructFromStruct, WalkToStruct, WalkToStructOver, FinishPairs
<1> QED BY <1>1, <1>2, <1>3

-----------------------------------------------------------------------------
\* The hooks of a codec are a list.
HooksOK == Len(cfg.hooks) \in Nat /\ DOMAIN cfg.hooks = 1 .. Len(cfg.hooks)

\* There is a first among the hooks that fire.
LEMMA FirstIs ==
  ASSUME NEW S, S \subseteq Nat, S # {}
  PROVE  (CHOOSE j \in S : \A k \in S : j <= k) \in S
<1>1. PICK j \in S : \A k \in S : ~ (<<k, j>> \in OpToRel(<, Nat))
  BY NatLessThanWellFounded, WFMin
<1>2. \A k \in S : ~ (k < j)
  BY <1>1 DEF OpToRel
<1>3. \A k \in S : j <= k
  BY <1>2
<1> QED BY <1>3

\* Calls of user code are counted, and nothing else moves the count.
LEMMA CallsCounted == HooksOK /\ userCalls \in Nat /\ [Next]_vars => userCalls' \in Nat
<1> SUFFICES ASSUME HooksOK, userCalls \in Nat, [Next]_vars PROVE userCalls' \in Nat
  OBVIOUS
<1> DEFINE Counted == userCalls' \in Nat
<1>1. ApplyHooks => Counted
  <2> SUFFICES ASSUME ApplyHooks PROVE Counted
    OBVIOUS
  <2> DEFINE firing == {j \in DOMAIN cfg.hooks : Fires(cfg.hooks[j], Top)}
             first  == CHOOSE j \in firing : \A k \in firing : j <= k
  <2>1. userCalls' = userCalls + IF firing = {} THEN Len(cfg.hooks) ELSE first
    BY DEF ApplyHooks
  <2>2. firing \subseteq Nat
    BY DEF HooksOK
  <2> HIDE DEF firing
  <2>3. firing # {} => first \in Nat
    BY <2>2, FirstIs
  <2> HIDE DEF first
  <2> QED BY <2>1, <2>3 DEF HooksOK
<1>2. ApplyValueDecoder \/ ApplyValueEncoder \/ UnmarshalText => Counted
  BY DEF ApplyValueDecoder, ApplyValueEncoder, UnmarshalText
<1>3. ConvertEnter \/ FollowPointer \/ Dispatch \/ ToScalar => Counted
  BY DEF ConvertEnter, FollowPointer, Dispatch, ToScalar, Private, Quiet
<1>4. ContainersNext => Counted
  BY DEF ContainersNext, ToInterface, GenericReturn, GenericFollow, GenericToMap,
         GenericMapDone, GenericToSlice, GenericElem, GenericElemDone, GenericElemsDone,
         PointerDone, ToPointer, ToSlice, ToArray, SliceElem, SliceElemDone, SliceElemsEmpty, ToMap,
         MergeMap, MergeMapDone, MergeMapsDone, MapFromMap, MapEntry, MapKeyDone, MapElemDone,
         MapEntriesDone, Private, Quiet
<1>5. StructsNext => Counted
  BY DEF StructsNext, ToStruct, SkipInWalk, MapFromStruct, WalkToMap, EntryKeyDone, WriteEntry,
         RefuseEntry, EntryDone, WalkToMapOver, FieldDone, StructFromMap, MatchKey,
         MatchKeysDone, AssignNextField, AssignFieldsDone, FinishStruct, FillRemain, RemainDone,
         StructFromStruct, WalkToStruct, WalkToStructOver, FinishPairs, Private, Quiet
<1>6. StartCall \/ EndCall \/ Rest \/ UNCHANGED vars => Counted
  BY DEF StartCall, EndCall, Rest, vars
<1> QED BY <1>1, <1>2, <1>3, <1>4, <1>5, <1>6 DEF Next, ConvertNext

\* The state of a conversion is of the types the code declares: flags are
\* flags, counts are counts, and every running function knows its place.
THEOREM StateIsTyped == Spec => []StateOK
<1> DEFINE TInv == Inv /\ ErrInv /\ HooksOK /\ userCalls \in Nat
<1>1. Init => TInv
  <2>1. Init => HooksOK /\ userCalls \in Nat
    BY ScenariosAssumption DEF Init, HooksOK, cfg
  <2> QED BY <2>1, StackInit, ErrInit
<1>2. TInv /\ [Next]_vars => TInv'
  <2>1. HooksOK /\ [Next]_vars => HooksOK'
    BY EveryStep DEF HooksOK, cfg, ErrorStep
  <2> QED BY <2>1, StackStep, ReportStep, CallsCounted
<1>3. TInv => StateOK
  <2> SUFFICES ASSUME TInv PROVE StateOK
    OBVIOUS
  <2>1. stopped \in BOOLEAN
    BY DEF ErrInv, LimitMeansStopped
  <2>2. \A n \in DOMAIN stack : FrameOK(stack[n])
    BY DEF Inv, StackOK, IsSeq
  <2>3. \A n \in DOMAIN stack : stack[n].at \in Nat /\ stack[n].weakened \in BOOLEAN
    BY <2>2 DEF FrameOK
  <2> QED BY <2>1, <2>3 DEF StateOK, Inv, StackOK, WeakOK, ErrInv, ConfigOK
<1> HIDE DEF TInv
<1> QED BY <1>1, <1>2, <1>3, PTL DEF Spec

=============================================================================
