-------------------------------- MODULE Engine --------------------------------
(***************************************************************************)
(* A client's session with one Codec (codec.go): the conversions of its    *)
(* plan run one after the other, each with a state of its own.             *)
(*                                                                         *)
(* A scenario is a record of three fields.                                 *)
(*   cfg    the configuration of the codec                                 *)
(*   user   what the codec methods of user types do when called            *)
(*   plan   the calls of To / ToInto / ToIntoMeta, in order: the input     *)
(*          src (or the destination of call number from), the destination  *)
(*          before the call cur (or that of call number into), its type dt *)
(***************************************************************************)
EXTENDS Convert, Containers, Structs

CONSTANT Inputs  \* every value a client or a hook puts in, with all it holds

ASSUME InputsAssumption ==
  \A v \in Inputs : Shaped(v) /\ \A k \in DOMAIN v.kids : v.kids[k] \in Inputs

ASSUME ScenariosAssumption ==
  \A s \in Scenarios :
    /\ s.cfg.failFast \in BOOLEAN /\ s.cfg.max \in Nat /\ s.cfg.weakTypes \in BOOLEAN
    /\ Len(s.cfg.hooks) \in Nat /\ DOMAIN s.cfg.hooks = 1 .. Len(s.cfg.hooks)
    /\ \A n \in DOMAIN s.cfg.hooks : s.cfg.hooks[n].val = NoValue \/ s.cfg.hooks[n].val \in Inputs
    /\ s.user.decode \in {"skip", "err", "ok"} /\ s.user.text \in {"err", "ok"}
    /\ s.user.encode \in {"skip", "err", "nil", "ok"}
    /\ Len(s.plan) \in Nat /\ DOMAIN s.plan = 1 .. Len(s.plan)
    /\ \A n \in DOMAIN s.plan :
         /\ s.plan[n].from \in 0 .. n - 1 /\ s.plan[n].into \in 0 .. n - 1
         /\ s.plan[n].src = NoValue \/ s.plan[n].src \in Inputs
         /\ s.plan[n].cur \in Inputs /\ s.plan[n].cur.t = s.plan[n].dt
         /\ s.plan[n].into # 0 => s.plan[s.plan[n].into].dt = s.plan[n].dt
         /\ s.plan[n].dt \in DOMAIN Types

Plan == scen.plan

Init ==
  /\ scen \in Scenarios
  /\ stack = << >> /\ ret = NoValue
  /\ errs = << >> /\ stopped = FALSE
  /\ weak = scen.cfg.weakTypes
  /\ path = << >> /\ meta = NoMeta
  /\ userCalls = 0 /\ results = << >>

\* Codec.run: a fresh state, then convert.
StartCall ==
  /\ Idle /\ Len(results) < Len(Plan)
  /\ LET step == Plan[Len(results) + 1]
         src  == IF step.from = 0 THEN step.src ELSE results[step.from].dst
         cur  == IF step.into = 0 THEN step.cur ELSE results[step.into].dst
     IN  stack' = <<Frame("run", src, cur, step.dt, NoTag),
                    ConvertFrame(src, cur, step.dt, NoTag)>>
  /\ errs' = << >> /\ stopped' = FALSE
  /\ weak' = cfg.weakTypes
  /\ meta' = NoMeta
  /\ UNCHANGED <<scen, ret, path, userCalls, results>>

\* run returns; the caller keeps what the call left behind.
EndCall ==
  /\ At("run")
  /\ results' = Append(results, [dst |-> ret, errs |-> errs, meta |-> meta])
  /\ stack' = << >>
  /\ UNCHANGED <<scen, ret, errs, stopped, weak, path, meta, userCalls>>

SessionOver == Idle /\ Len(results) = Len(Plan)
Rest == SessionOver /\ UNCHANGED vars

Next ==
  \/ StartCall \/ EndCall \/ Rest
  \/ ConvertNext \/ ContainersNext \/ StructsNext

\* The session runs in one goroutine that is never preempted for good.
Spec == Init /\ [][Next]_vars /\ WF_vars(Next)

-----------------------------------------------------------------------------
(* Properties of the engine itself.                                        *)

\* The operations during which a handler keeps a path segment of its own.
Pushing == {"genericElemDone", "sliceElemDone", "mergeMapDone", "mapKeyDone", "mapElemDone",
            "entryKeyDone", "entry", "entryDone", "fieldDone", "remainDone"}

Depth(f) == f.at + IF f.op \in Pushing THEN 1 ELSE 0

\* Type correctness of the state, and of the content the frames build.
StateOK ==
  /\ cfg.failFast \in BOOLEAN /\ cfg.max \in Nat /\ cfg.weakTypes \in BOOLEAN
  /\ stopped \in BOOLEAN /\ weak \in BOOLEAN /\ userCalls \in Nat
  /\ \A n \in DOMAIN stack : stack[n].at \in Nat /\ stack[n].weakened \in BOOLEAN
ContentOK == \A n \in DOMAIN stack : stack[n].cur.t = stack[n].dt /\ Shaped(stack[n].cur)
TypeOK == StateOK /\ ContentOK

\* Every push of a path segment is matched by a pop on every way out of a
\* handler (the early returns of mapFromMap, assignField, writeMapEntry, ...):
\* a running function always finds the path as deep as its callers left it, so
\* an error names the place it happened at.
PathBalanced ==
  /\ Idle => path = << >>
  /\ ~Idle => Len(path) = Depth(Top)
  /\ \A n \in 1 .. Len(stack) - 1 : stack[n + 1].at = Depth(stack[n])

\* The weak typing a `string` field turns on (convertField) lasts exactly as
\* long as the conversion of that field, nested string fields included.
WeakScoped == weak = (cfg.weakTypes \/ \E n \in DOMAIN stack : stack[n].weakened)

\* errorList keeps the promise of an error report: WithMaxErrors is never
\* exceeded, and what was reported stays (error.go add).
Limit  == IF cfg.failFast THEN 1 ELSE cfg.max
Report == INSTANCE ErrorReport WITH list <- errs, closed <- stopped, limit <- Limit,
                               running <- ~Idle
ReportsErrors == Report!Spec

\* The stop flag is raised by the error that met the limit and by nothing else.
LimitMeansStopped == stopped = (Limit > 0 /\ Len(errs) >= Limit)

\* Every session of conversions comes to its end.
Termination == <>SessionOver

=============================================================================
