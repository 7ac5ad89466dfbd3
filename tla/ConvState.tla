------------------------------ MODULE ConvState ------------------------------
(***************************************************************************)
(* The state one top-level conversion owns (convert.go "type state"), and  *)
(* the primitives every handler is built from: the call stack of the       *)
(* recursive engine, the error list, the path and the metadata.            *)
(*                                                                         *)
(* The engine is recursive Go code.  Each running function is a frame; the *)
(* function on top acts, calls a child conversion, or returns the content  *)
(* it leaves in its destination.                                           *)
(***************************************************************************)
EXTENDS Values

CONSTANT Scenarios  \* the sessions a client may run, see Engine

VARIABLES
  scen,     \* the session being run: its configuration, input and plan
  stack,    \* frames, the running function last
  ret,      \* content handed back by the function that returned last
  errs,     \* errorList.errs: [path, err]
  stopped,  \* errorList.stopped
  weak,     \* state.weak
  path,     \* state.path
  meta,     \* Metadata: keys, unused, unset
  userCalls,\* how many times user code (hooks, codecs of a type) was invoked
  results   \* outcomes of the finished conversions of the session

vars == <<scen, stack, ret, errs, stopped, weak, path, meta, userCalls, results>>

cfg == scen.cfg

NoTag == {}

-----------------------------------------------------------------------------
(* The call stack.                                                         *)

\* at is the depth of the path when the function was entered, an auxiliary;
\* the other fields are the locals of the handlers:
\*   i, todo    where the loop is: an index, the keys not visited yet
\*   got        values matched to a field, by field number
\*   left, rest input nothing claimed: keys in order, values by name
\*   key, fv, vtag  the entry being written: its key, value and tag
\*   val        a converted key, or the remain map being walked
\*   field, back, weakened  the field being assigned, where to go on, and
\*              whether it raised the weak flag
Frame(op, src, cur, dt, tag) ==
  [op |-> op, src |-> src, cur |-> cur, dt |-> dt, tag |-> tag, at |-> Len(path),
   i |-> 1, todo |-> {}, got |-> << >>, left |-> << >>, rest |-> << >>,
   key |-> "", val |-> NoValue, fv |-> NoValue, vtag |-> NoTag,
   field |-> 0, back |-> "", weakened |-> FALSE]

Top     == stack[Len(stack)]
Idle    == stack = << >>
At(op)  == ~Idle /\ Top.op = op

Become(f)      == stack' = [stack EXCEPT ![Len(stack)] = f]
Call(f, child) == stack' = Append([stack EXCEPT ![Len(stack)] = f], child)
Return(v) ==
  /\ stack' = SubSeq(stack, 1, Len(stack) - 1)
  /\ ret'   = v

\* The child conversions a handler starts, one path segment further down or
\* at the same place.
Seg(name)     == [name |-> name, idx |-> 0, isIdx |-> FALSE]
IndexSeg(i)   == [name |-> "", idx |-> i, isIdx |-> TRUE]
ConvertFrame(src, cur, dt, tag) == Frame("convert", src, cur, dt, tag)
Below(child)  == [child EXCEPT !.at = Len(path) + 1]
Push(seg)     == path' = Append(path, seg)
Pop           == path' = SubSeq(path, 1, Len(path) - 1)

-----------------------------------------------------------------------------
(* errorList.add.                                                          *)

LimitReached(n) == cfg.failFast \/ (cfg.max > 0 /\ n >= cfg.max)

\* Mutant: an error after the limit is still recorded.
AddErrorAlways(p, e) ==
  /\ errs'    = Append(errs, [path |-> p, err |-> e])
  /\ stopped' = (stopped \/ LimitReached(Len(errs) + 1))

AddError(p, e) ==
  IF stopped THEN UNCHANGED <<errs, stopped>>
  ELSE /\ errs'    = Append(errs, [path |-> p, err |-> e])
       /\ stopped' = LimitReached(Len(errs) + 1)

Fail(e)  == AddError(path, e)
NoErrors == UNCHANGED <<errs, stopped>>

\* Mutant: a caller of fail does not look at what it reports back.
StopsAfterFailNever == FALSE

\* What fail reports back: whether collection has to stop.
StopsAfterFail == stopped \/ LimitReached(Len(errs) + 1)

-----------------------------------------------------------------------------
(* Metadata: recordKey, recordUnused, recordUnset.  p is a rendered path;  *)
(* nothing is tracked unless the caller asked for it.                      *)

NoMeta == [keys |-> << >>, unused |-> << >>, unset |-> << >>]

RecordKey(p) ==
  meta' = IF cfg.meta THEN [meta EXCEPT !.keys = Append(@, p)] ELSE meta

\* The unclaimed input keys and the unsupplied fields of one struct.
RecordLeft(unused, unset) ==
  LET At1(name) == Append(path, Seg(name))
  IN  meta' = IF cfg.meta
              THEN [meta EXCEPT
                      !.unused = @ \o [n \in DOMAIN unused |-> At1(unused[n])],
                      !.unset  = @ \o [n \in DOMAIN unset  |-> At1(unset[n])]]
              ELSE meta

-----------------------------------------------------------------------------
(* Shorthands for what a step leaves alone.                                *)

Quiet    == UNCHANGED <<scen, userCalls, results>>
Private  == Quiet /\ UNCHANGED <<weak, path, meta>>

=============================================================================
