------------------------------- MODULE Convert -------------------------------
(***************************************************************************)
(* state.convert and dispatch (convert.go): the pipeline every value goes  *)
(* through.  hooks -> ValueDecoder -> ValueEncoder -> TextUnmarshaler ->   *)
(* the handler the kind of the destination selects.                        *)
(*                                                                         *)
(* User code is part of the session: cfg.hooks is the list of hooks, each  *)
(* firing on a source and a destination type as HookBetween does, and      *)
(* scen.user says what the codec methods of a type do when called.         *)
(***************************************************************************)
EXTENDS ConvState

\* What a destination holds when the source gives it nothing.
Untouched(f) == IF cfg.zeroFields THEN ZeroOf[f.dt] ELSE f.cur

\* Mutant: an absent source clears the destination.
ConvertEnterZeroing ==
  /\ At("convert")
  /\ LET src == Unwrap(Top.src)
     IN  IF ~IsValid(src)
         THEN Return(ZeroOf[Top.dt])
         ELSE Become([Top EXCEPT !.op = "hooks", !.src = src]) /\ UNCHANGED ret
  /\ NoErrors /\ Private

\* convert, up to the hooks: an absent source leaves the destination alone.
ConvertEnter ==
  /\ At("convert")
  /\ LET src == Unwrap(Top.src)
     IN  IF ~IsValid(src)
         THEN Return(Untouched(Top))
         ELSE Become([Top EXCEPT !.op = "hooks", !.src = src]) /\ UNCHANGED ret
  /\ NoErrors /\ Private

Fires(h, f) == h.from \in {"*", f.src.t} /\ h.to \in {"*", f.dt}

\* applyHooks: the first hook that does not decline decides.  Its value skips
\* the ValueDecoder and ValueEncoder; a nil ends the conversion.  After an
\* error the built-in conversion goes on unless the error limit was reached.
ApplyHooks ==
  /\ At("hooks")
  /\ LET hs     == cfg.hooks
         firing == {j \in DOMAIN hs : Fires(hs[j], Top)}
         first  == CHOOSE j \in firing : \A k \in firing : j <= k
         value  == Unwrap(hs[first].val)
         Go(op, src) == Become([Top EXCEPT !.op = op, !.src = src]) /\ UNCHANGED ret
     IN  /\ userCalls' = userCalls + IF firing = {} THEN Len(hs) ELSE first
         /\ IF firing = {} THEN NoErrors /\ Go("decode", Top.src)
            ELSE IF hs[first].err
            THEN /\ Fail("hook")
                 /\ IF StopsAfterFail THEN Return(Top.cur) ELSE Go("decode", Top.src)
            ELSE IF ~IsValid(value)
            THEN NoErrors /\ Return(Untouched(Top))
            ELSE NoErrors /\ Go("text", value)
  /\ UNCHANGED <<scen, weak, path, meta, results>>

\* Mutant: after a decoder failed the pipeline goes on.
ApplyValueDecoderGoesOn ==
  /\ At("decode")
  /\ LET asks == "Decoder" \in Types[Top.dt].has
     IN  /\ userCalls' = IF asks THEN userCalls + 1 ELSE userCalls
         /\ IF ~asks \/ scen.user.decode # "ok"
            THEN /\ IF asks /\ scen.user.decode = "err" THEN Fail("decode") ELSE NoErrors
                 /\ Become([Top EXCEPT !.op = "encode"]) /\ UNCHANGED ret
            ELSE NoErrors /\ Return(Scalar(Top.dt, "decoded"))
  /\ UNCHANGED <<scen, weak, path, meta, results>>

\* applyValueDecoder: a destination that reads itself takes charge, with its
\* error if it has one; ErrSkip declines.
ApplyValueDecoder ==
  /\ At("decode")
  /\ LET asks == "Decoder" \in Types[Top.dt].has
     IN  /\ userCalls' = IF asks THEN userCalls + 1 ELSE userCalls
         /\ IF ~asks \/ scen.user.decode = "skip"
            THEN NoErrors /\ Become([Top EXCEPT !.op = "encode"]) /\ UNCHANGED ret
            ELSE IF scen.user.decode = "err"
            THEN Fail("decode") /\ Return(Top.cur)
            ELSE NoErrors /\ Return(Scalar(Top.dt, "decoded"))
  /\ UNCHANGED <<scen, weak, path, meta, results>>

\* applyValueEncoder: a source that writes itself is replaced by what it
\* yields (a string here); a nil pointer is not asked, an error ends it.
ApplyValueEncoder ==
  /\ At("encode")
  /\ LET asks == "Encoder" \in Types[Top.src.t].has /\ ~(Kind(Top.src) = "ptr" /\ Top.src.nil)
         Go(src) == Become([Top EXCEPT !.op = "text", !.src = src]) /\ UNCHANGED ret
     IN  /\ userCalls' = IF asks THEN userCalls + 1 ELSE userCalls
         /\ IF ~asks \/ scen.user.encode = "skip" THEN NoErrors /\ Go(Top.src)
            ELSE IF scen.user.encode = "err" THEN Fail("encode") /\ Return(Top.cur)
            ELSE IF scen.user.encode = "nil" THEN NoErrors /\ Return(Top.cur)
            ELSE NoErrors /\ Go(Scalar("string", "encoded"))
  /\ UNCHANGED <<scen, weak, path, meta, results>>

\* unmarshalText: text reaches a destination that reads itself from text.
UnmarshalText ==
  /\ At("text")
  /\ LET asks == /\ Kind(Top.src) = "string"
                 /\ Types[Top.dt].kind \notin {"string", "iface"}
                 /\ "Text" \in Types[Top.dt].has
     IN  /\ userCalls' = IF asks THEN userCalls + 1 ELSE userCalls
         /\ IF ~asks
            THEN NoErrors /\ Become([Top EXCEPT !.op = "dispatch"]) /\ UNCHANGED ret
            ELSE IF scen.user.text = "err"
            THEN Fail("text") /\ Return(Top.cur)
            ELSE NoErrors /\ Return(Scalar(Top.dt, Top.src.x))
  /\ UNCHANGED <<scen, weak, path, meta, results>>

-----------------------------------------------------------------------------
(* dispatch.                                                               *)

FollowsPointer(f) ==
  Types[f.dt].kind \notin {"ptr", "iface"} /\ Kind(f.src) = "ptr"

\* The loop that follows a pointer source.
FollowPointer ==
  /\ At("dispatch") /\ FollowsPointer(Top)
  /\ LET src == Top.src
         to  == Unwrap(src.kids[1])
     IN  IF src.nil THEN Return(Untouched(Top))
         ELSE IF ~IsValid(to) THEN Return(Top.cur)
         ELSE Become([Top EXCEPT !.src = to]) /\ UNCHANGED ret
  /\ NoErrors /\ Private

\* The switch on the kind of the destination.
Handler(kind) ==
  CASE kind = "iface"  -> "toInterface"
    [] kind = "ptr"    -> "toPointer"
    [] kind = "map"    -> "toMap"
    [] kind = "slice"  -> "toSlice"
    [] kind = "array"  -> "toArray"
    [] kind = "struct" -> "toStruct"
    [] OTHER           -> "toScalar"

Dispatch ==
  /\ At("dispatch") /\ ~FollowsPointer(Top)
  /\ Become([Top EXCEPT !.op = Handler(Types[Top.dt].kind)])
  /\ NoErrors /\ Private /\ UNCHANGED ret

\* Identical types copy across; the rest is cast or refused (toScalar).
ToScalar ==
  /\ At("toScalar")
  /\ LET v == IF Top.src.t = Top.dt THEN Top.src ELSE Cast(Top.src, Top.dt, weak)
     IN  IF IsValid(v) THEN NoErrors /\ Return(v)
         ELSE Fail("cast") /\ Return(Top.cur)
  /\ Private

ConvertNext ==
  \/ ConvertEnter \/ ApplyHooks \/ ApplyValueDecoder \/ ApplyValueEncoder
  \/ UnmarshalText \/ FollowPointer \/ Dispatch \/ ToScalar

=============================================================================
