---------------------------- MODULE PipelineProofs ----------------------------
(***************************************************************************)
(* Proofs about the pipeline of convert.go and the user code in it: hooks, *)
(* ValueDecoder, ValueEncoder and TextUnmarshaler, for every list of       *)
(* hooks, every configuration and every session.                           *)
(*                                                                         *)
(* What Promises says of a finished call is carried through the call.  Its *)
(* one frame above "run" is at a stage of the pipeline (Stage), and what   *)
(* has spoken before that stage leaves one value to be read (Word); with   *)
(* the last step the call owes its caller nothing more than what it        *)
(* returns (Owed).  A finished call keeps it, as its input is what earlier *)
(* calls left behind and no later one takes that away.                     *)
(***************************************************************************)
EXTENDS EngineProofs, Promises

\* The stages a value goes through when the destination is no container.
Stages == {"convert", "hooks", "decode", "encode", "text", "dispatch", "toScalar"}

\* The calls the promises are about.
Tracked(n) ==
  /\ Speaking(n)
  /\ HookFails(n) => Limit = 1
  /\ HookAnswers(n) /\ IsValid(Answer(n)) => Kind(Answer(n)) # "ptr"

\* What call n is to leave in its destination and in the list of errors: the
\* value v read, or its destination left as it was.
Gets(n, v, dst, es) ==
  /\ (es = << >>) = IsValid(Read(v, Into(n)))
  /\ dst = IF es = << >> THEN Read(v, Into(n)) ELSE Before(n)

Owed(n, dst, es) ==
  /\ HookFails(n) => Paths(es) = << << >> >> /\ dst = Before(n)
  /\ HookAnswers(n) =>
       IF IsValid(Answer(n)) THEN Gets(n, Answer(n), dst, es)
       ELSE es = << >> /\ dst = IF cfg.zeroFields THEN ZeroOf[Into(n)] ELSE Before(n)
  /\ ~HookSpeaks(n) /\ DecoderSpeaks(n) =>
       IF scen.user.decode = "err" THEN Len(es) = 1 /\ dst = Before(n)
       ELSE es = << >> /\ dst = Scalar(Into(n), "decoded")
  /\ ~HookSpeaks(n) /\ ~DecoderSpeaks(n) /\ EncoderSpeaks(n) =>
       /\ scen.user.encode = "ok"  => Gets(n, Scalar("string", "encoded"), dst, es)
       /\ scen.user.encode = "nil" => es = << >> /\ dst = Before(n)
       /\ scen.user.encode = "err" => Len(es) = 1 /\ dst = Before(n)
  /\ ~HookSpeaks(n) /\ ~DecoderSpeaks(n) /\ ~EncoderSpeaks(n) => Gets(n, Given(n), dst, es)

\* The value nobody replaces any more.
Word(n, v) ==
  /\ IsValid(v) /\ Kind(v) # "ptr"
  /\ \/ HookAnswers(n) /\ v = Answer(n)
     \/ /\ ~HookSpeaks(n) /\ ~DecoderSpeaks(n) /\ EncoderSpeaks(n) /\ scen.user.encode = "ok"
        /\ v = Scalar("string", "encoded")
     \/ ~HookSpeaks(n) /\ ~DecoderSpeaks(n) /\ ~EncoderSpeaks(n) /\ v = Given(n)

\* A text given to a destination that reads text.
ReadsText(v, t) ==
  Kind(v) = "string" /\ Types[t].kind # "string" /\ "Text" \in Types[t].has

\* The frame of call n on its way through the pipeline.
Stage(n, f) ==
  /\ f.op \in Stages /\ f.dt = Into(n) /\ f.cur = Before(n)
  /\ f.op \in {"convert", "hooks", "decode", "encode"} => f.src = Given(n)
  /\ f.op \in {"decode", "encode"} => ~HookSpeaks(n)
  /\ f.op = "encode" => ~DecoderSpeaks(n)
  /\ f.op \in {"text", "dispatch", "toScalar"} => Word(n, f.src)
  /\ f.op \in {"dispatch", "toScalar"} => ~ReadsText(f.src, Into(n))

\* The call being made.
Current == Len(results) + 1

Underway(n) ==
  /\ path = << >> /\ weak = cfg.weakTypes
  /\ \/ /\ Len(stack) = 1 /\ Top.op = "run"
        /\ \E dst, es : dst = ret /\ es = errs /\ Owed(n, dst, es)
     \/ /\ Len(stack) = 2 /\ stack[1].op = "run" /\ errs = << >> /\ stopped = FALSE
        /\ \E f : f = Top /\ Stage(n, f)

\* The session: what has been promised was kept, and is about to be.
SessionOK ==
  /\ scen \in Scenarios /\ IsSeq(results)
  /\ ~Idle => Len(results) < Len(Plan)

CallsOK ==
  \A n, dst, es :
    n \in 1 .. Len(results) /\ dst = results[n].dst /\ es = results[n].errs /\ Tracked(n)
    => Owed(n, dst, es)

RunningOK == \A n : ~Idle /\ n = Current /\ Tracked(n) => Underway(n)

PipelineInv == Inv /\ SessionOK /\ CallsOK /\ RunningOK

-----------------------------------------------------------------------------
\* The handlers of containers are no stages of the pipeline.
LEMMA NoStage == ContainersNext \/ StructsNext => Top.op \notin Stages \union {"run"}
<1> USE DEF Stages, At
<1>1. ContainersNext => Top.op \notin Stages \union {"run"}
  BY DEF ContainersNext, ToInterface, GenericReturn, GenericFollow, GenericToMap,
         GenericMapDone, GenericToSlice, GenericElem, GenericElemDone, GenericElemsDone,
         PointerDone, ToPointer, ToSlice, ToArray, SliceElem, SliceElemDone, SliceElemsEmpty, ToMap,
         MergeMap, MergeMapDone, MergeMapsDone, MapFromMap, MapEntry, MapKeyDone, MapElemDone,
         MapEntriesDone
<1>2. StructsNext => Top.op \notin Stages \union {"run"}
  BY DEF StructsNext, ToStruct, SkipInWalk, MapFromStruct, WalkToMap, EntryKeyDone, WriteEntry,
         RefuseEntry, EntryDone, WalkToMapOver, FieldDone, StructFromMap, MatchKey,
         MatchKeysDone, AssignNextField, AssignFieldsDone, FinishStruct, FillRemain, RemainDone,
         StructFromStruct, WalkToStruct, WalkToStructOver, FinishPairs
<1> QED BY <1>1, <1>2

\* The outcomes there are stay, so what they feed stays what it is.
Outcomes(s) == IsSeq(s) /\ Len(results) <= Len(s) /\ \A n \in 1 .. Len(results) : s[n] = results[n]

\* What a call was given stays while its session goes on.
LEMMA InputsStay ==
  ASSUME SessionOK, scen' = scen, Outcomes(results'),
         NEW n \in 1 .. Len(results) + 1, n <= Len(Plan)
  PROVE  Given(n)' = Given(n) /\ Before(n)' = Before(n) /\ Into(n)' = Into(n)
<1>1. Plan' = Plan /\ Len(results) \in Nat
  BY DEF Plan, SessionOK, IsSeq
<1>2. n \in DOMAIN Plan
  BY <1>1, ScenariosAssumption DEF SessionOK, Plan
<1>3. Plan[n].from \in 0 .. n - 1 /\ Plan[n].into \in 0 .. n - 1
  BY <1>2, ScenariosAssumption DEF SessionOK, Plan
<1>4. \A m \in 0 .. n - 1 : m # 0 => results'[m] = results[m]
  BY <1>1 DEF Outcomes
<1> QED BY <1>1, <1>3, <1>4 DEF Given, Before, Into

\* So does what is said of them.
LEMMA SaysTheSame ==
  ASSUME scen' = scen, NEW n,
         Given(n)' = Given(n), Before(n)' = Before(n), Into(n)' = Into(n)
  PROVE  /\ Tracked(n)' <=> Tracked(n)
         /\ \A f : Stage(n, f)' <=> Stage(n, f)
         /\ \A dst, es : Owed(n, dst, es)' <=> Owed(n, dst, es)
<1>1. cfg' = cfg /\ Limit' = Limit
  BY DEF cfg, Limit
<1>2. FiringHooks(n)' = FiringHooks(n)
  BY <1>1 DEF FiringHooks
<1>3. FirstHook(n)' = FirstHook(n)
  BY <1>1, <1>2 DEF FirstHook
<1>4. /\ HookSpeaks(n)' = HookSpeaks(n) /\ HookFails(n)' = HookFails(n)
      /\ HookAnswers(n)' = HookAnswers(n) /\ Answer(n)' = Answer(n)
  BY <1>2, <1>3 DEF HookSpeaks, HookFails, HookAnswers, Answer
<1>5. /\ Speaking(n)' = Speaking(n)
      /\ DecoderSpeaks(n)' = DecoderSpeaks(n) /\ EncoderSpeaks(n)' = EncoderSpeaks(n)
  BY DEF Speaking, DecoderSpeaks, EncoderSpeaks
<1>6. \A v, t : Read(v, t)' = Read(v, t)
  BY <1>1 DEF Read
<1>7. \A v, dst, es : Gets(n, v, dst, es)' <=> Gets(n, v, dst, es)
  BY <1>6 DEF Gets
<1>8. \A v : Word(n, v)' <=> Word(n, v)
  BY <1>4, <1>5 DEF Word
<1>9. Tracked(n)' <=> Tracked(n)
  BY <1>1, <1>4, <1>5 DEF Tracked
<1>10. \A f : Stage(n, f)' <=> Stage(n, f)
  BY <1>4, <1>5, <1>8 DEF Stage
<1>11. \A dst, es : Owed(n, dst, es)' <=> Owed(n, dst, es)
  BY <1>1, <1>4, <1>5, <1>7 DEF Owed
<1> QED BY <1>9, <1>10, <1>11

\* The call being made is given the same as long as no call ends.
LEMMA CurrentSame ==
  ASSUME SessionOK, ~Idle, scen' = scen, results' = results, NEW n, n = Current
  PROVE  /\ Tracked(n)' <=> Tracked(n)
         /\ \A f : Stage(n, f)' <=> Stage(n, f)
         /\ \A dst, es : Owed(n, dst, es)' <=> Owed(n, dst, es)
<1>1. Len(results) \in Nat /\ Len(Plan) \in Nat /\ Len(results) < Len(Plan)
  BY ScenariosAssumption DEF SessionOK, IsSeq, Plan
<1>2. n \in 1 .. Len(results) + 1 /\ n <= Len(Plan) /\ Outcomes(results')
  BY <1>1 DEF Current, Outcomes, SessionOK
<1>3. Given(n)' = Given(n) /\ Before(n)' = Before(n) /\ Into(n)' = Into(n)
  BY <1>2, InputsStay
<1> QED BY <1>3, SaysTheSame

-----------------------------------------------------------------------------
\* The frame of call n is at a stage.
InCall(n) ==
  /\ path = << >> /\ weak = cfg.weakTypes
  /\ Len(stack) = 2 /\ stack[1].op = "run" /\ errs = << >> /\ stopped = FALSE
  /\ Stage(n, Top)

\* It goes on to the next stage, or returns what the call owes.
Goes(n) ==
  /\ UNCHANGED <<path, weak, scen, results>>
  /\ \/ \E g : Become(g) /\ Stage(n, g) /\ errs' = << >> /\ stopped' = FALSE
     \/ \E v, es : Return(v) /\ errs' = es /\ Owed(n, v, es)

\* A call that goes from one stage to the next is still under way.
LEMMA GoesOn ==
  ASSUME Inv, SessionOK, ~Idle, NEW n, n = Current, InCall(n), Goes(n)
  PROVE  Underway(n)'
<1>1. UNCHANGED <<path, weak, scen, results>> /\ weak = cfg.weakTypes /\ path = << >>
  BY DEF Goes, InCall
<1>2. path' = << >> /\ weak' = cfg'.weakTypes
  BY <1>1 DEF cfg
<1>5. /\ \A f : Stage(n, f)' <=> Stage(n, f)
      /\ \A dst, es : Owed(n, dst, es)' <=> Owed(n, dst, es)
  BY <1>1, CurrentSame
<1>6. ASSUME NEW g, Become(g), Stage(n, g), errs' = << >>, stopped' = FALSE
      PROVE  Underway(n)'
  <2>1. /\ Len(stack') = Len(stack) /\ stack'[Len(stack)] = g
        /\ \A m \in 1 .. Len(stack) - 1 : stack'[m] = stack[m]
    BY <1>6, BecomeIs DEF Inv
  <2>2. Len(stack') = 2 /\ stack'[1].op = "run" /\ g = Top'
    BY <2>1 DEF InCall, Top
  <2>3. \E f : f = Top' /\ Stage(n, f)'
    BY <1>5, <1>6, <2>2
  <2> QED BY <1>2, <1>6, <2>2, <2>3 DEF Underway
<1>7. ASSUME NEW v, NEW es, Return(v), errs' = es, Owed(n, v, es)
      PROVE  Underway(n)'
  <2>1. /\ Len(stack') = Len(stack) - 1 /\ \A m \in 1 .. Len(stack) - 1 : stack'[m] = stack[m]
    BY <1>7, ReturnIs DEF Inv
  <2>2. Len(stack') = 1 /\ Top'.op = "run"
    BY <2>1 DEF InCall, Top
  <2>3. \E d, e : d = ret' /\ e = errs' /\ Owed(n, d, e)'
    BY <1>5, <1>7 DEF Return
  <2> QED BY <1>2, <2>2, <2>3 DEF Underway
<1> QED BY <1>6, <1>7 DEF Goes

\* A frame with another place and another source.
LEMMA NextStage ==
  ASSUME Inv, ~Idle, NEW a, NEW b
  PROVE  /\ [Top EXCEPT !.op = a, !.src = b].op = a /\ [Top EXCEPT !.op = a, !.src = b].src = b
         /\ [Top EXCEPT !.op = a, !.src = b].dt = Top.dt
         /\ [Top EXCEPT !.op = a, !.src = b].cur = Top.cur
         /\ [Top EXCEPT !.op = a].op = a /\ [Top EXCEPT !.op = a].src = Top.src
         /\ [Top EXCEPT !.op = a].dt = Top.dt /\ [Top EXCEPT !.op = a].cur = Top.cur
BY TopIs DEF FrameOK, FrameFields

\* What reports an error in a list that is empty and open.
LEMMA FirstError ==
  ASSUME errs = << >>, stopped = FALSE, path = << >>, NEW e, Fail(e)
  PROVE  Len(errs') = 1 /\ Paths(errs') = << << >> >> /\ errs' # << >>
<1>1. errs' = <<[path |-> << >>, err |-> e]>>
  BY DEF Fail, AddError
<1>2. Len(errs') = 1 /\ errs' # << >>
  BY <1>1
<1>3. Paths(errs') = << << >> >>
  BY <1>1 DEF Paths
<1> QED BY <1>2, <1>3

\* A call is entered with a source that is neither nil nor an interface.
LEMMA Entered ==
  ASSUME Inv, ~Idle, NEW n, Tracked(n), InCall(n), ConvertEnter
  PROVE  Goes(n)
<1>1. Top.op = "convert" /\ Top.src = Given(n)
  BY DEF ConvertEnter, At, InCall, Stage
<1>2. IsValid(Given(n)) /\ Kind(Given(n)) # "iface"
  BY DEF Tracked, Speaking
<1>3. Unwrap(Top.src) = Given(n)
  BY <1>1, <1>2 DEF Unwrap
<1> DEFINE g == [Top EXCEPT !.op = "hooks", !.src = Given(n)]
<1>4. Become(g) /\ errs' = << >> /\ stopped' = FALSE /\ UNCHANGED <<path, weak, scen, results>>
  BY <1>2, <1>3 DEF ConvertEnter, NoErrors, Private, Quiet, InCall
<1>5. Stage(n, g)
  BY NextStage DEF Stage, Stages, InCall
<1> QED BY <1>4, <1>5 DEF Goes

\* The hooks are asked: the first that fires answers, fails or yields nothing.
LEMMA HooksAsked ==
  ASSUME Inv, ~Idle, NEW n, Tracked(n), InCall(n), ApplyHooks
  PROVE  Goes(n)
<1>1. Top.op = "hooks" /\ Top.src = Given(n) /\ Top.dt = Into(n) /\ Top.cur = Before(n)
  BY DEF ApplyHooks, At, InCall, Stage
<1> DEFINE firing == {j \in DOMAIN cfg.hooks : Fires(cfg.hooks[j], Top)}
           first  == CHOOSE j \in firing : \A k \in firing : j <= k
           hook   == cfg.hooks[first]
           Go(op, src) == Become([Top EXCEPT !.op = op, !.src = src]) /\ UNCHANGED ret
<1>2. /\ UNCHANGED <<scen, weak, path, results>>
      /\ firing = {} => NoErrors /\ Go("decode", Top.src)
      /\ firing # {} /\ hook.err =>
           Fail("hook") /\ IF StopsAfterFail THEN Return(Top.cur) ELSE Go("decode", Top.src)
      /\ firing # {} /\ ~hook.err /\ ~IsValid(Unwrap(hook.val)) => NoErrors /\ Return(Untouched(Top))
      /\ firing # {} /\ ~hook.err /\ IsValid(Unwrap(hook.val)) => NoErrors /\ Go("text", Unwrap(hook.val))
  BY DEF ApplyHooks
<1>3. firing = FiringHooks(n)
  BY <1>1 DEF FiringHooks, Fires
<1>4. firing # {} => hook = FirstHook(n)
  BY <1>3 DEF FirstHook
<1> HIDE DEF firing, first, hook
<1>5. /\ (firing # {}) = HookSpeaks(n)
      /\ (firing # {} /\ hook.err) = HookFails(n)
      /\ (firing # {} /\ ~hook.err) = HookAnswers(n)
      /\ firing # {} => Unwrap(hook.val) = Answer(n)
  BY <1>3, <1>4 DEF HookSpeaks, HookFails, HookAnswers, Answer
<1>6. errs = << >> /\ stopped = FALSE
  BY DEF InCall
<1>7. CASE ~HookSpeaks(n)
  <2> DEFINE g == [Top EXCEPT !.op = "decode", !.src = Top.src]
  <2>1. Become(g) /\ errs' = << >> /\ stopped' = FALSE
    BY <1>2, <1>5, <1>6, <1>7 DEF NoErrors
  <2>2. g.op = "decode" /\ g.src = Given(n) /\ g.dt = Into(n) /\ g.cur = Before(n)
    BY <1>1, NextStage
  <2> HIDE DEF g
  <2>3. Stage(n, g)
    BY <2>2, <1>7 DEF Stage, Stages
  <2> QED BY <1>2, <2>1, <2>3 DEF Goes
<1>8. CASE HookFails(n)
  <2>1. Fail("hook") /\ Limit = 1
    BY <1>2, <1>5, <1>8 DEF Tracked
  <2>2. StopsAfterFail
    <3>1. Len(errs) + 1 = 1
      BY <1>6
    <3>2. cfg.failFast \/ cfg.max = 1
      BY <2>1 DEF Limit
    <3> QED BY <3>1, <3>2 DEF StopsAfterFail, LimitReached
  <2>3. Return(Before(n))
    BY <1>1, <1>2, <1>5, <1>8, <2>2
  <2>4. Paths(errs') = << << >> >>
    BY <1>6, <2>1, FirstError DEF InCall
  <2>5. HookSpeaks(n) /\ ~HookAnswers(n)
    BY <1>8 DEF HookFails, HookAnswers
  <2>6. Owed(n, Before(n), errs')
    BY <2>4, <2>5 DEF Owed
  <2> QED BY <1>2, <2>3, <2>6 DEF Goes
<1>9. CASE HookAnswers(n) /\ ~IsValid(Answer(n))
  <2>1. NoErrors /\ Return(Untouched(Top))
    BY <1>2, <1>5, <1>9
  <2>2. Untouched(Top) = IF cfg.zeroFields THEN ZeroOf[Into(n)] ELSE Before(n)
    BY <1>1 DEF Untouched
  <2>3. HookSpeaks(n) /\ ~HookFails(n)
    BY <1>9 DEF HookFails, HookAnswers
  <2>4. Owed(n, Untouched(Top), << >>)
    BY <1>9, <2>2, <2>3 DEF Owed
  <2> QED BY <1>2, <1>6, <2>1, <2>4 DEF Goes, NoErrors
<1>10. CASE HookAnswers(n) /\ IsValid(Answer(n))
  <2> DEFINE g == [Top EXCEPT !.op = "text", !.src = Answer(n)]
  <2>1. Become(g) /\ errs' = << >> /\ stopped' = FALSE
    BY <1>2, <1>5, <1>6, <1>10 DEF NoErrors
  <2>2. g.op = "text" /\ g.src = Answer(n) /\ g.dt = Into(n) /\ g.cur = Before(n)
    BY <1>1, NextStage
  <2> HIDE DEF g
  <2>3. Word(n, Answer(n))
    BY <1>10 DEF Word, Tracked
  <2>4. Stage(n, g)
    BY <2>2, <2>3 DEF Stage, Stages
  <2> QED BY <1>2, <2>1, <2>4 DEF Goes
<1> QED BY <1>7, <1>8, <1>9, <1>10 DEF HookFails, HookAnswers

\* The destination is asked to read itself.
LEMMA DecoderAsked ==
  ASSUME Inv, ~Idle, SessionOK, NEW n, Tracked(n), InCall(n), ApplyValueDecoder
  PROVE  Goes(n)
<1>1. /\ Top.op = "decode" /\ Top.src = Given(n) /\ Top.dt = Into(n) /\ Top.cur = Before(n)
      /\ ~HookSpeaks(n) /\ ~HookFails(n) /\ ~HookAnswers(n)
  BY DEF ApplyValueDecoder, At, InCall, Stage, HookFails, HookAnswers
<1>2. /\ UNCHANGED <<scen, weak, path, results>>
      /\ ~DecoderSpeaks(n) => NoErrors /\ Become([Top EXCEPT !.op = "encode"])
      /\ DecoderSpeaks(n) /\ scen.user.decode = "err" => Fail("decode") /\ Return(Before(n))
      /\ DecoderSpeaks(n) /\ scen.user.decode # "err" => NoErrors /\ Return(Scalar(Into(n), "decoded"))
  BY <1>1 DEF ApplyValueDecoder, DecoderSpeaks
<1>3. errs = << >> /\ stopped = FALSE
  BY DEF InCall
<1>4. CASE ~DecoderSpeaks(n)
  <2> DEFINE g == [Top EXCEPT !.op = "encode"]
  <2>1. Become(g) /\ errs' = << >> /\ stopped' = FALSE
    BY <1>2, <1>3, <1>4 DEF NoErrors
  <2>2. g.op = "encode" /\ g.src = Given(n) /\ g.dt = Into(n) /\ g.cur = Before(n)
    BY <1>1, NextStage
  <2> HIDE DEF g
  <2>3. Stage(n, g)
    BY <1>1, <1>4, <2>2 DEF Stage, Stages
  <2> QED BY <1>2, <2>1, <2>3 DEF Goes
<1>5. CASE DecoderSpeaks(n) /\ scen.user.decode = "err"
  <2>1. Fail("decode") /\ Return(Before(n))
    BY <1>2, <1>5
  <2>2. Len(errs') = 1
    BY <1>3, <2>1, FirstError DEF InCall
  <2>3. Owed(n, Before(n), errs')
    BY <1>1, <1>5, <2>2 DEF Owed
  <2> QED BY <1>2, <2>1, <2>3 DEF Goes
<1>6. CASE DecoderSpeaks(n) /\ scen.user.decode # "err"
  <2>1. Owed(n, Scalar(Into(n), "decoded"), << >>)
    BY <1>1, <1>6 DEF Owed
  <2> QED BY <1>2, <1>3, <1>6, <2>1 DEF Goes, NoErrors
<1> QED BY <1>4, <1>5, <1>6

\* The source is asked to write itself.
LEMMA EncoderAsked ==
  ASSUME Inv, ~Idle, SessionOK, NEW n, Tracked(n), InCall(n), ApplyValueEncoder
  PROVE  Goes(n)
<1>1. /\ Top.op = "encode" /\ Top.src = Given(n) /\ Top.dt = Into(n) /\ Top.cur = Before(n)
      /\ ~HookSpeaks(n) /\ ~HookFails(n) /\ ~HookAnswers(n) /\ ~DecoderSpeaks(n)
  BY DEF ApplyValueEncoder, At, InCall, Stage, HookFails, HookAnswers
<1>2. IsValid(Given(n)) /\ Kind(Given(n)) # "ptr"
  BY DEF Tracked, Speaking
<1> DEFINE Go(src) == Become([Top EXCEPT !.op = "text", !.src = src])
<1>3. /\ UNCHANGED <<scen, weak, path, results>>
      /\ ~EncoderSpeaks(n) => NoErrors /\ Go(Top.src)
      /\ EncoderSpeaks(n) /\ scen.user.encode = "err" => Fail("encode") /\ Return(Before(n))
      /\ EncoderSpeaks(n) /\ scen.user.encode = "nil" => NoErrors /\ Return(Before(n))
      /\ EncoderSpeaks(n) /\ scen.user.encode \notin {"err", "nil"} =>
           NoErrors /\ Go(Scalar("string", "encoded"))
  BY <1>1, <1>2 DEF ApplyValueEncoder, EncoderSpeaks
<1>4. errs = << >> /\ stopped = FALSE
  BY DEF InCall
<1>5. ASSUME NEW v, Go(v), NoErrors, Word(n, v) PROVE Goes(n)
  <2> DEFINE g == [Top EXCEPT !.op = "text", !.src = v]
  <2>1. Become(g) /\ errs' = << >> /\ stopped' = FALSE
    BY <1>4, <1>5 DEF NoErrors
  <2>2. g.op = "text" /\ g.src = v /\ g.dt = Into(n) /\ g.cur = Before(n)
    BY <1>1, NextStage
  <2> HIDE DEF g
  <2>3. Stage(n, g)
    BY <1>5, <2>2 DEF Stage, Stages
  <2> QED BY <1>3, <2>1, <2>3 DEF Goes
<1>6. CASE ~EncoderSpeaks(n)
  <2>1. Word(n, Given(n))
    BY <1>1, <1>2, <1>6 DEF Word
  <2> QED BY <1>1, <1>3, <1>5, <1>6, <2>1
<1>7. CASE EncoderSpeaks(n) /\ scen.user.encode = "err"
  <2>1. Fail("encode") /\ Return(Before(n))
    BY <1>3, <1>7
  <2>2. Len(errs') = 1
    BY <1>4, <2>1, FirstError DEF InCall
  <2>3. Owed(n, Before(n), errs')
    BY <1>1, <1>7, <2>2 DEF Owed
  <2> QED BY <1>3, <2>1, <2>3 DEF Goes
<1>8. CASE EncoderSpeaks(n) /\ scen.user.encode = "nil"
  <2>1. Owed(n, Before(n), << >>)
    BY <1>1, <1>8 DEF Owed
  <2> QED BY <1>3, <1>4, <1>8, <2>1 DEF Goes, NoErrors
<1>9. CASE EncoderSpeaks(n) /\ scen.user.encode \notin {"err", "nil"}
  <2>1. scen.user.encode = "ok"
    BY <1>9, ScenariosAssumption DEF SessionOK, EncoderSpeaks
  <2> DEFINE v == Scalar("string", "encoded")
  <2>2. IsValid(v) /\ Kind(v) = "string"
    BY TypesAssumption DEF Scalar, IsValid, Kind
  <2>3. Word(n, v)
    BY <1>1, <1>9, <2>1, <2>2 DEF Word
  <2> HIDE DEF v
  <2>4. NoErrors /\ Go(v)
    BY <1>3, <1>9 DEF v
  <2> QED BY <1>5, <2>3, <2>4
<1> QED BY <1>6, <1>7, <1>8, <1>9

\* Whoever reads the word that stands pays what the call owes.
LEMMA WordRead ==
  ASSUME NEW n, Tracked(n), NEW v, Word(n, v), NEW dst, NEW es, Gets(n, v, dst, es)
  PROVE  Owed(n, dst, es)
<1>1. CASE HookAnswers(n) /\ v = Answer(n)
  BY <1>1 DEF Word, Owed, HookAnswers, HookFails
<1>2. CASE /\ ~HookSpeaks(n) /\ ~DecoderSpeaks(n) /\ EncoderSpeaks(n) /\ scen.user.encode = "ok"
           /\ v = Scalar("string", "encoded")
  BY <1>2 DEF Owed, HookAnswers, HookFails
<1>3. CASE ~HookSpeaks(n) /\ ~DecoderSpeaks(n) /\ ~EncoderSpeaks(n) /\ v = Given(n)
  BY <1>3 DEF Owed, HookAnswers, HookFails
<1> QED BY <1>1, <1>2, <1>3 DEF Word

\* A destination that reads text is given it.
LEMMA TextRead ==
  ASSUME Inv, ~Idle, SessionOK, NEW n \in DOMAIN Plan, Tracked(n), InCall(n), UnmarshalText
  PROVE  Goes(n)
<1>1. /\ Top.op = "text" /\ Top.dt = Into(n) /\ Top.cur = Before(n) /\ Word(n, Top.src)
  BY DEF UnmarshalText, At, InCall, Stage
<1>2. Types[Into(n)].kind # "iface" /\ Into(n) # "invalid"
  BY TypesAssumption, ScenariosAssumption DEF Tracked, Speaking, SessionOK, Plan, Into
<1> DEFINE asks == ReadsText(Top.src, Into(n))
<1>3. /\ UNCHANGED <<scen, weak, path, results>>
      /\ ~asks => NoErrors /\ Become([Top EXCEPT !.op = "dispatch"])
      /\ asks /\ scen.user.text = "err" => Fail("text") /\ Return(Before(n))
      /\ asks /\ scen.user.text # "err" => NoErrors /\ Return(Scalar(Into(n), Top.src.x))
  BY <1>1, <1>2 DEF UnmarshalText, ReadsText
<1>4. errs = << >> /\ stopped = FALSE
  BY DEF InCall
<1>5. CASE ~asks
  <2> DEFINE g == [Top EXCEPT !.op = "dispatch"]
  <2>1. Become(g) /\ errs' = << >> /\ stopped' = FALSE
    BY <1>3, <1>4, <1>5 DEF NoErrors
  <2>2. g.op = "dispatch" /\ g.src = Top.src /\ g.dt = Into(n) /\ g.cur = Before(n)
    BY <1>1, NextStage
  <2> HIDE DEF g
  <2>3. Stage(n, g)
    BY <1>1, <1>5, <2>2 DEF Stage, Stages
  <2> QED BY <1>3, <2>1, <2>3 DEF Goes
<1>6. CASE asks /\ scen.user.text = "err"
  <2>1. Fail("text") /\ Return(Before(n))
    BY <1>3, <1>6
  <2>2. errs' # << >>
    BY <1>4, <2>1, FirstError DEF InCall
  <2>3. Read(Top.src, Into(n)) = NoValue /\ ~IsValid(NoValue)
    BY <1>6 DEF Read, ReadsText, NoValue, IsValid, Scalar
  <2>4. Gets(n, Top.src, Before(n), errs')
    BY <2>2, <2>3 DEF Gets, IsValid
  <2>5. Owed(n, Before(n), errs')
    BY <1>1, <2>4, WordRead
  <2> QED BY <1>3, <2>1, <2>5 DEF Goes
<1>7. CASE asks /\ scen.user.text # "err"
  <2> DEFINE v == Scalar(Into(n), Top.src.x)
  <2>1. scen.user.text = "ok"
    BY <1>7, ScenariosAssumption DEF SessionOK
  <2>2. Read(Top.src, Into(n)) = v /\ IsValid(v)
    BY <1>2, <1>7, <2>1 DEF Read, ReadsText, IsValid, Scalar
  <2>3. NoErrors /\ Return(v)
    BY <1>3, <1>7
  <2> HIDE DEF v
  <2>4. Gets(n, Top.src, v, << >>)
    BY <2>2 DEF Gets
  <2>5. Owed(n, v, << >>)
    BY <1>1, <2>4, WordRead
  <2> QED BY <1>3, <1>4, <2>3, <2>5 DEF Goes, NoErrors
<1> QED BY <1>5, <1>6, <1>7

\* A destination that is no container is a scalar to dispatch.
LEMMA Dispatched ==
  ASSUME Inv, ~Idle, NEW n, Tracked(n), InCall(n), Dispatch
  PROVE  Goes(n)
<1>1. /\ Top.op = "dispatch" /\ Top.dt = Into(n) /\ Top.cur = Before(n) /\ Word(n, Top.src)
      /\ ~ReadsText(Top.src, Into(n))
  BY DEF Dispatch, At, InCall, Stage
<1>2. Types[Into(n)].kind \in {"int", "string", "other"}
  BY DEF Tracked, Speaking
<1>3. Handler(Types[Into(n)].kind) = "toScalar"
  BY <1>2 DEF Handler
<1> DEFINE g == [Top EXCEPT !.op = "toScalar"]
<1>4. Become(g) /\ errs' = << >> /\ stopped' = FALSE /\ UNCHANGED <<path, weak, scen, results>>
  BY <1>1, <1>3 DEF Dispatch, NoErrors, Private, Quiet, InCall
<1>5. g.op = "toScalar" /\ g.src = Top.src /\ g.dt = Into(n) /\ g.cur = Before(n)
  BY <1>1, NextStage
<1> HIDE DEF g
<1>6. Stage(n, g)
  BY <1>1, <1>5 DEF Stage, Stages
<1> QED BY <1>4, <1>6 DEF Goes

\* It is copied or cast.
LEMMA ScalarRead ==
  ASSUME Inv, ~Idle, SessionOK, NEW n, Tracked(n), InCall(n), ToScalar
  PROVE  Goes(n)
<1>1. /\ Top.op = "toScalar" /\ Top.dt = Into(n) /\ Top.cur = Before(n) /\ Word(n, Top.src)
      /\ ~ReadsText(Top.src, Into(n)) /\ weak = cfg.weakTypes
  BY DEF ToScalar, At, InCall, Stage
<1> DEFINE v == IF Top.src.t = Top.dt THEN Top.src ELSE Cast(Top.src, Top.dt, weak)
<1>2. v = Read(Top.src, Into(n))
  BY <1>1 DEF Read, ReadsText
<1>3. /\ UNCHANGED <<scen, weak, path, results>>
      /\ IsValid(v) => NoErrors /\ Return(v)
      /\ ~IsValid(v) => Fail("cast") /\ Return(Before(n))
  BY <1>1 DEF ToScalar, Private, Quiet
<1>4. errs = << >> /\ stopped = FALSE
  BY DEF InCall
<1> HIDE DEF v
<1>5. CASE IsValid(v)
  <2>1. Gets(n, Top.src, v, << >>)
    BY <1>2, <1>5 DEF Gets
  <2>2. Owed(n, v, << >>)
    BY <1>1, <2>1, WordRead
  <2> QED BY <1>3, <1>4, <1>5, <2>2 DEF Goes, NoErrors
<1>6. CASE ~IsValid(v)
  <2>1. Fail("cast") /\ Return(Before(n))
    BY <1>3, <1>6
  <2>2. errs' # << >>
    BY <1>4, <2>1, FirstError DEF InCall
  <2>3. Gets(n, Top.src, Before(n), errs')
    BY <1>2, <1>6, <2>2 DEF Gets, IsValid
  <2>4. Owed(n, Before(n), errs')
    BY <1>1, <2>3, WordRead
  <2> QED BY <1>3, <2>1, <2>4 DEF Goes
<1> QED BY <1>5, <1>6

\* No pointer is left to follow.
LEMMA NoPointer ==
  ASSUME NEW n, Tracked(n), InCall(n)
  PROVE  ~FollowPointer
BY DEF FollowPointer, FollowsPointer, At, InCall, Stage, Word

-----------------------------------------------------------------------------
\* A call under way stays so, whatever step it takes.
LEMMA CallGoesOn ==
  ASSUME Inv, SessionOK, ~Idle, NEW n, n = Current, Tracked(n), Underway(n),
         ConvertNext \/ ContainersNext \/ StructsNext
  PROVE  Underway(n)'
<1>1. n \in DOMAIN Plan
  <2>1. Len(results) \in Nat /\ Len(results) < Len(Plan)
    BY DEF SessionOK, IsSeq
  <2>2. Len(Plan) \in Nat /\ DOMAIN Plan = 1 .. Len(Plan)
    BY ScenariosAssumption DEF SessionOK, Plan
  <2> QED BY <2>1, <2>2 DEF Current
<1>2. Top.op # "run"
  BY NoStage DEF ConvertNext, ConvertEnter, ApplyHooks, ApplyValueDecoder, ApplyValueEncoder,
         UnmarshalText, FollowPointer, Dispatch, ToScalar, At
<1>3. InCall(n)
  BY <1>2 DEF Underway, InCall
<1>4. Top.op \in Stages
  BY <1>3 DEF InCall, Stage
<1>5. ConvertNext
  BY <1>4, NoStage
<1>6. Goes(n)
  BY <1>1, <1>3, <1>5, Entered, HooksAsked, DecoderAsked, EncoderAsked, TextRead, NoPointer,
     Dispatched, ScalarRead DEF ConvertNext
<1> QED BY <1>3, <1>6, GoesOn

\* What was promised of a finished call stays kept when calls are added.
LEMMA KeptStays ==
  ASSUME SessionOK, CallsOK, scen' = scen, Outcomes(results'), Len(results) <= Len(Plan),
         NEW n \in 1 .. Len(results), Tracked(n)'
  PROVE  \A dst, es : dst = results'[n].dst /\ es = results'[n].errs => Owed(n, dst, es)'
<1>1. Len(results) \in Nat
  BY DEF SessionOK, IsSeq
<1>2. n \in 1 .. Len(results) + 1 /\ n <= Len(Plan)
  <2>1. Len(Plan) \in Nat
    BY ScenariosAssumption DEF SessionOK, Plan
  <2> QED BY <1>1, <2>1
<1>3. Given(n)' = Given(n) /\ Before(n)' = Before(n) /\ Into(n)' = Into(n)
  BY <1>2, InputsStay
<1>4. Tracked(n) /\ \A dst, es : Owed(n, dst, es)' <=> Owed(n, dst, es)
  BY <1>3, SaysTheSame
<1>5. results'[n] = results[n]
  BY DEF Outcomes
<1> QED BY <1>4, <1>5 DEF CallsOK

\* Nothing has been called yet.
LEMMA PipelineInit == Init => SessionOK /\ CallsOK /\ RunningOK
<1> SUFFICES ASSUME Init PROVE SessionOK /\ CallsOK /\ RunningOK
  OBVIOUS
<1>1. results \in Seq({}) /\ Len(results) = 0 /\ Idle /\ scen \in Scenarios
  BY DEF Init, Idle
<1> QED BY <1>1 DEF SessionOK, IsSeq, CallsOK, RunningOK

\* As many calls are made as the plan has.
SessionWithin == Len(results) <= Len(Plan)

\* A call starts with what it is given, where it is to go.
LEMMA CallStarts ==
  ASSUME PipelineInv, SessionWithin, StartCall
  PROVE  SessionOK' /\ CallsOK' /\ RunningOK' /\ SessionWithin'
<1>1. /\ Idle /\ Len(results) < Len(Plan) /\ scen' = scen /\ results' = results
      /\ errs' = << >> /\ stopped' = FALSE /\ weak' = cfg.weakTypes /\ path' = path
  BY DEF StartCall
<1>2. Outcomes(results') /\ Len(results) \in Nat
  BY <1>1 DEF Outcomes, PipelineInv, SessionOK, IsSeq
<1>3. SessionOK' /\ SessionWithin'
  BY <1>1 DEF PipelineInv, SessionOK, IsSeq, SessionWithin, Plan
<1>4. CallsOK'
  BY <1>1, <1>2, KeptStays DEF PipelineInv, CallsOK, SessionWithin
<1>5. ASSUME NEW n, n = Current', Tracked(n)' PROVE Underway(n)'
  <2>1. n = Len(results) + 1 /\ n \in 1 .. Len(results) + 1 /\ n <= Len(Plan)
    <3>1. Len(Plan) \in Nat
      BY ScenariosAssumption DEF PipelineInv, SessionOK, Plan
    <3> QED BY <1>1, <1>2, <1>5, <3>1 DEF Current
  <2>2. Given(n)' = Given(n) /\ Before(n)' = Before(n) /\ Into(n)' = Into(n)
    BY <1>1, <1>2, <2>1, InputsStay DEF PipelineInv
  <2>3. \A f : Stage(n, f)' <=> Stage(n, f)
    BY <1>1, <2>2, SaysTheSame
  <2> DEFINE r == Frame("run", Given(n), Before(n), Into(n), NoTag)
             c == ConvertFrame(Given(n), Before(n), Into(n), NoTag)
  <2>4. stack' = <<r, c>>
    BY <2>1 DEF StartCall, Given, Before, Into
  <2>5. r.op = "run" /\ c.op = "convert" /\ c.src = Given(n) /\ c.cur = Before(n) /\ c.dt = Into(n)
    BY DEF Frame, ConvertFrame
  <2> HIDE DEF r, c
  <2>6. Len(stack') = 2 /\ stack'[1].op = "run" /\ Top' = c
    BY <2>4, <2>5 DEF Top
  <2>7. Stage(n, c)
    BY <2>5 DEF Stage, Stages
  <2>8. \E f : f = Top' /\ Stage(n, f)'
    BY <2>3, <2>6, <2>7
  <2>9. path' = << >> /\ weak' = cfg'.weakTypes
    BY <1>1 DEF PipelineInv, Inv, PathOK, cfg
  <2> QED BY <1>1, <2>6, <2>8, <2>9 DEF Underway
<1>6. RunningOK'
  BY <1>5 DEF RunningOK
<1> QED BY <1>3, <1>4, <1>6

\* It ends with what it owes.
LEMMA CallEnds ==
  ASSUME PipelineInv, SessionWithin, EndCall
  PROVE  SessionOK' /\ CallsOK' /\ RunningOK' /\ SessionWithin'
<1> DEFINE r == [dst |-> ret, errs |-> errs, meta |-> meta]
<1>1. /\ ~Idle /\ Top.op = "run" /\ results' = Append(results, r) /\ stack' = << >> /\ Idle'
      /\ scen' = scen
  BY DEF EndCall, At, Idle
<1>2. /\ r.dst = ret /\ r.errs = errs
  OBVIOUS
<1> HIDE DEF r
<1>3. PICK S : results \in Seq(S)
  BY DEF PipelineInv, SessionOK, IsSeq
<1>4. results \in Seq(S \union {r}) /\ Len(results) \in Nat
  BY <1>3
<1>5. /\ results' \in Seq(S \union {r}) /\ Len(results') = Len(results) + 1
      /\ \A m \in 1 .. Len(results) : results'[m] = results[m]
      /\ results'[Len(results) + 1] = r
  BY <1>1, <1>4
<1>6. Outcomes(results') /\ SessionOK'
  BY <1>1, <1>4, <1>5 DEF Outcomes, IsSeq, PipelineInv, SessionOK
<1>7. Len(results) < Len(Plan) /\ Len(Plan) \in Nat
  BY <1>1, ScenariosAssumption DEF PipelineInv, SessionOK, Plan
<1>8. SessionWithin'
  BY <1>1, <1>4, <1>5, <1>7 DEF SessionWithin, Plan
<1>9. ASSUME NEW n, n = Len(results) + 1, Tracked(n)'
      PROVE  \A dst, es : dst = ret /\ es = errs => Owed(n, dst, es)'
  <2>1. n \in 1 .. Len(results) + 1 /\ n <= Len(Plan)
    BY <1>4, <1>7, <1>9
  <2>2. Given(n)' = Given(n) /\ Before(n)' = Before(n) /\ Into(n)' = Into(n)
    BY <1>1, <1>6, <2>1, InputsStay DEF PipelineInv
  <2>3. Tracked(n) /\ \A dst, es : Owed(n, dst, es)' <=> Owed(n, dst, es)
    BY <1>1, <1>9, <2>2, SaysTheSame
  <2>4. Underway(n)
    BY <1>1, <1>9, <2>3 DEF PipelineInv, RunningOK, Current
  <2>5. \E dst, es : dst = ret /\ es = errs /\ Owed(n, dst, es)
    BY <1>1, <2>4 DEF Underway, Stage, Stages
  <2> QED BY <2>3, <2>5
<1>10. CallsOK'
  <2> SUFFICES ASSUME NEW n \in 1 .. Len(results'), Tracked(n)'
               PROVE  \A dst, es : dst = results'[n].dst /\ es = results'[n].errs => Owed(n, dst, es)'
    BY DEF CallsOK
  <2>1. CASE n \in 1 .. Len(results)
    BY <1>1, <1>6, <1>7, <2>1, KeptStays DEF PipelineInv, SessionWithin
  <2>2. CASE n = Len(results) + 1
    BY <1>2, <1>5, <1>9, <2>2
  <2> QED BY <1>4, <1>5, <2>1, <2>2
<1>11. RunningOK'
  BY <1>1 DEF RunningOK
<1> QED BY <1>6, <1>8, <1>10, <1>11

\* Every step of the engine keeps all of it.
LEMMA PipelineStep ==
  ASSUME PipelineInv, SessionWithin, [Next]_vars
  PROVE  PipelineInv' /\ SessionWithin'
<1>1. Inv'
  BY StackStep DEF PipelineInv
<1>2. CASE StartCall
  BY <1>1, <1>2, CallStarts DEF PipelineInv
<1>3. CASE EndCall
  BY <1>1, <1>3, CallEnds DEF PipelineInv
<1>4. ASSUME scen' = scen, results' = results
      PROVE  CallsOK' /\ SessionWithin'
  <2>1. Outcomes(results')
    BY <1>4 DEF Outcomes, PipelineInv, SessionOK
  <2> QED BY <1>4, <2>1, KeptStays DEF PipelineInv, CallsOK, SessionWithin, Plan
<1>5. CASE ConvertNext \/ ContainersNext \/ StructsNext
  <2>1. ~Idle /\ scen' = scen /\ results' = results
    BY <1>5, Undisturbed
  <2>2. SessionOK'
    BY <2>1 DEF PipelineInv, SessionOK, IsSeq, Plan
  <2>3. ASSUME NEW n, n = Current', Tracked(n)' PROVE Underway(n)'
    <3>1. n = Current
      BY <2>1, <2>3 DEF Current
    <3>3. Tracked(n)
      BY <2>1, <2>3, <3>1, CurrentSame DEF PipelineInv
    <3>4. Underway(n)
      BY <2>1, <3>1, <3>3 DEF PipelineInv, RunningOK
    <3> QED BY <1>5, <2>1, <3>1, <3>3, <3>4, CallGoesOn DEF PipelineInv
  <2>4. RunningOK'
    BY <2>3 DEF RunningOK
  <2> QED BY <1>1, <1>4, <2>1, <2>2, <2>4 DEF PipelineInv
<1>6. CASE Rest \/ UNCHANGED vars
  <2>1. UNCHANGED vars
    BY <1>6 DEF Rest
  <2>2. SessionOK' /\ SessionWithin'
    BY <2>1 DEF vars, PipelineInv, SessionOK, SessionWithin, Plan, Idle
  <2>3. CallsOK'
    BY <1>4, <2>1 DEF vars
  <2>4. ASSUME NEW n, n = Current', Tracked(n)', ~Idle' PROVE Underway(n)'
    <3>1. n = Current /\ ~Idle /\ scen' = scen /\ results' = results
      BY <2>1, <2>4 DEF vars, Current, Idle
    <3>2. /\ Tracked(n) /\ \A f : Stage(n, f)' <=> Stage(n, f)
          /\ \A dst, es : Owed(n, dst, es)' <=> Owed(n, dst, es)
      BY <2>4, <3>1, CurrentSame DEF PipelineInv
    <3>3. Underway(n)
      BY <3>1, <3>2 DEF PipelineInv, RunningOK
    <3> QED BY <2>1, <3>2, <3>3 DEF Underway, vars, Top, cfg
  <2>5. RunningOK'
    BY <2>4 DEF RunningOK
  <2> QED BY <1>1, <2>2, <2>3, <2>5 DEF PipelineInv
<1> QED BY <1>2, <1>3, <1>5, <1>6 DEF Next

-----------------------------------------------------------------------------
\* What a call that is over owed its caller, it has paid.
LEMMA CallsPaid ==
  ASSUME PipelineInv, NEW n \in Calls, Tracked(n)
  PROVE  Owed(n, results[n].dst, results[n].errs)
<1>1. n \in 1 .. Len(results)
  BY DEF Calls, PipelineInv, SessionOK, IsSeq
<1> QED BY <1>1 DEF PipelineInv, CallsOK

\* A session starts with no call made.
LEMMA PipelineStart == Init => PipelineInv /\ SessionWithin
<1> SUFFICES ASSUME Init PROVE PipelineInv /\ SessionWithin
  OBVIOUS
<1>1. Len(Plan) \in Nat /\ Len(results) = 0
  BY ScenariosAssumption DEF Init, Plan
<1> QED BY <1>1, StackInit, PipelineInit DEF PipelineInv, SessionWithin

\* For any hooks, codec methods and values: a hook's answer is read instead of
\* the value and shown to neither codec method, the destination's decoder
\* beats the source's encoder, and nobody is asked twice.
THEOREM PrecedenceAlwaysKept == Spec => []PrecedenceKept
<1>1. PipelineInv => PrecedenceKept
  <2> SUFFICES ASSUME PipelineInv, NEW n \in Calls, Speaking(n)
               PROVE  /\ HookAnswers(n) =>
                           IF IsValid(Answer(n)) THEN Kind(Answer(n)) # "ptr" => Reads(n, Answer(n))
                           ELSE Clean(n) /\ results[n].dst = IF cfg.zeroFields THEN ZeroOf[Into(n)] ELSE Before(n)
                      /\ ~HookSpeaks(n) /\ DecoderSpeaks(n) =>
                           IF scen.user.decode = "err" THEN Len(results[n].errs) = 1 /\ results[n].dst = Before(n)
                           ELSE Clean(n) /\ results[n].dst = Scalar(Into(n), "decoded")
                      /\ ~HookSpeaks(n) /\ ~DecoderSpeaks(n) /\ EncoderSpeaks(n) =>
                           CASE scen.user.encode = "ok"  -> Reads(n, Scalar("string", "encoded"))
                             [] scen.user.encode = "nil" -> Clean(n) /\ results[n].dst = Before(n)
                             [] OTHER                    -> Len(results[n].errs) = 1 /\ results[n].dst = Before(n)
                      /\ ~HookSpeaks(n) /\ ~DecoderSpeaks(n) /\ ~EncoderSpeaks(n) => Reads(n, Given(n))
    BY DEF PrecedenceKept
  <2>1. Tracked(n) => Owed(n, results[n].dst, results[n].errs)
    BY CallsPaid
  <2>2. \A v : Gets(n, v, results[n].dst, results[n].errs) <=> Reads(n, v)
    BY DEF Gets, Reads, Clean
  <2>3. CASE HookAnswers(n)
    <3>1. HookSpeaks(n) /\ ~HookFails(n)
      BY <2>3 DEF HookAnswers, HookFails
    <3>2. CASE IsValid(Answer(n)) /\ Kind(Answer(n)) = "ptr"
      BY <3>1, <3>2
    <3>3. CASE ~(IsValid(Answer(n)) /\ Kind(Answer(n)) = "ptr")
      <4>1. Owed(n, results[n].dst, results[n].errs)
        BY <2>1, <3>1, <3>3 DEF Tracked
      <4> QED BY <2>2, <2>3, <3>1, <4>1 DEF Owed, Clean
    <3> QED BY <3>2, <3>3
  <2>4. CASE ~HookSpeaks(n)
    <3>1. ~HookAnswers(n) /\ ~HookFails(n)
      BY <2>4 DEF HookAnswers, HookFails
    <3>2. Owed(n, results[n].dst, results[n].errs)
      BY <2>1, <3>1 DEF Tracked
    <3>3. EncoderSpeaks(n) => scen.user.encode \in {"err", "nil", "ok"}
      BY ScenariosAssumption DEF PipelineInv, SessionOK, EncoderSpeaks
    <3> QED BY <2>2, <2>4, <3>1, <3>2, <3>3 DEF Owed, Clean
  <2>5. CASE HookSpeaks(n) /\ ~HookAnswers(n)
    BY <2>5
  <2> QED BY <2>3, <2>4, <2>5
<1> QED BY <1>1, PipelineStart, PipelineStep, PTL DEF Spec

\* For any hooks and configuration: with a limit of one error, a hook that fails
\* ends the conversion there, its error the only one, the destination untouched.
THEOREM FailedHookAlwaysStops == Spec => []FailedHookStops
<1>1. PipelineInv => FailedHookStops
  <2> SUFFICES ASSUME PipelineInv, NEW n \in Calls, Speaking(n), HookFails(n), Limit = 1
               PROVE  Paths(results[n].errs) = << << >> >> /\ results[n].dst = Before(n)
    BY DEF FailedHookStops
  <2>1. Tracked(n)
    BY DEF Tracked, HookAnswers, HookFails
  <2> QED BY <2>1, CallsPaid DEF Owed
<1> QED BY <1>1, PipelineStart, PipelineStep, PTL DEF Spec

=============================================================================
