------------------------------- MODULE Structs -------------------------------
(***************************************************************************)
(* The handlers of struct.go: struct -> map, map -> struct and             *)
(* struct -> struct, all driven by the cached analysis of the type.        *)
(***************************************************************************)
EXTENDS ConvState

\* toStruct: an identical type is copied whole.
ToStruct ==
  /\ At("toStruct")
  /\ LET Go(op) == Become([Top EXCEPT !.op = op]) /\ UNCHANGED ret /\ NoErrors
     IN  CASE Top.src.t = Top.dt        -> Return(Top.src) /\ NoErrors
           [] Top.src.t # Top.dt /\ Kind(Top.src) = "map"    -> Go("structFromMap")
           [] Top.src.t # Top.dt /\ Kind(Top.src) = "struct" -> Go("structFromStruct")
           [] OTHER -> Fail("nomap") /\ Return(Top.cur)
  /\ Private

-----------------------------------------------------------------------------
(* eachField and eachRemain: the readable fields of a struct source, in    *)
(* declaration order, the entries of the remain map in any order.          *)

\* The loop turns on field i; while todo is not empty it is inside the remain
\* map, kept in val.  An item carries the frame that goes on after it.
Items(f) ==
  LET fs == Fields(f.src.t)
  IN  IF f.todo # {}
      THEN {[name |-> k, val |-> f.val.kids[k], tag |-> NoTag,
              next |-> [f EXCEPT !.todo = @ \ {k}]] : k \in f.todo}
      ELSE IF f.i \in DOMAIN f.src.kids /\ f.i # Info[f.src.t].remain
      THEN {[name |-> fs[f.i].name, val |-> f.src.kids[f.i], tag |-> fs[f.i].opts,
             next |-> [f EXCEPT !.i = @ + 1]]}
      ELSE {}

\* The turns that offer no item: a field behind a nil embedded pointer is
\* passed over, the remain field opens its map (if it holds one).
SkipsField(f) ==
  /\ f.todo = {} /\ f.i <= Len(Fields(f.src.t))
  /\ f.i \notin DOMAIN f.src.kids \/ f.i = Info[f.src.t].remain

\* Mutant: the remain field of a source is passed over like any other.
SkipFieldClosed(f) == [f EXCEPT !.i = @ + 1]

\* Mutant: a field behind a nil embedded pointer does not end its turn.
SkipFieldStuck(f) ==
  LET m == DerefOrZero(f.src.kids[f.i])
  IN  IF f.i \notin DOMAIN f.src.kids THEN f
      ELSE IF Kind(m) = "map"
      THEN [f EXCEPT !.i = @ + 1, !.val = m, !.todo = DOMAIN m.kids]
      ELSE [f EXCEPT !.i = @ + 1]

SkipField(f) ==
  LET m == DerefOrZero(f.src.kids[f.i])
  IN  IF f.i \in DOMAIN f.src.kids /\ Kind(m) = "map"
      THEN [f EXCEPT !.i = @ + 1, !.val = m, !.todo = DOMAIN m.kids]
      ELSE [f EXCEPT !.i = @ + 1]

WalkIsOver(f) == f.todo = {} /\ f.i > Len(Fields(f.src.t))

\* What both callbacks do first: omitempty, WithOmitNil, deref.
Omitted(item) ==
  \/ "omitempty" \in item.tag /\ IsEmptyValue(item.val)
  \/ cfg.omitNil /\ IsNilLike(item.val)

Dereferenced(item) ==
  IF "deref" \in item.tag \/ cfg.deref THEN DerefOrZero(item.val) ELSE item.val

SkipInWalk ==
  /\ At("walkToMap") \/ At("walkToStruct")
  /\ \/ SkipsField(Top) /\ Become(SkipField(Top))
     \/ \E item \in Items(Top) : Omitted(item) /\ Become(item.next)
  /\ UNCHANGED ret /\ NoErrors /\ Private

-----------------------------------------------------------------------------
(* struct -> map: mapFromStruct and writeMapEntry.                         *)

PlainKey(dt) == Types[dt].key = "string"

\* The entry's element: rendered as text under the string option.
EntryFrame(v, tag, dt) ==
  ConvertFrame(IF "string" \in tag THEN Stringify(v) ELSE v,
               ZeroOf[Elem(dt)], Elem(dt), IF "string" \in tag THEN NoTag ELSE tag)

EntryRefused(v, tag) == "string" \in tag /\ ~IsValid(Stringify(v))

MapFromStruct ==
  /\ At("mapFromStruct")
  /\ IF Info[Top.src.t].err
     THEN Fail("badtag") /\ Return(Top.cur)
     ELSE /\ Become([Top EXCEPT !.op = "walkToMap",
                       !.cur = IF @.nil \/ cfg.zeroFields THEN Holding(Top.dt, << >>) ELSE @])
          /\ UNCHANGED ret /\ NoErrors
  /\ Private

\* writeMapEntry up to its first child: the key of a map that is not keyed by
\* plain strings is converted first.
WalkToMap ==
  /\ At("walkToMap")
  /\ \E item \in Items(Top) :
       LET v == Dereferenced(item)
           f == [item.next EXCEPT !.key = item.name, !.fv = v, !.vtag = item.tag]
           key == Scalar("string", item.name)
       IN  /\ ~Omitted(item)
           /\ IF PlainKey(Top.dt)
              THEN Become([f EXCEPT !.op = "entry"])
              ELSE Call([f EXCEPT !.op = "entryKeyDone"],
                        Below(ConvertFrame(key, ZeroOf[Types[Top.dt].key], Types[Top.dt].key, NoTag)))
           /\ Push(Seg(item.name))
  /\ UNCHANGED <<ret, weak, meta>> /\ NoErrors /\ Quiet

EntryKeyDone ==
  /\ At("entryKeyDone")
  /\ Become([Top EXCEPT !.op = "entry", !.key = ret.x])
  /\ UNCHANGED ret /\ NoErrors /\ Private

\* The element: converted, or refused when it has no text to render.
WriteEntry ==
  /\ At("entry") /\ ~EntryRefused(Top.fv, Top.vtag)
  /\ Call([Top EXCEPT !.op = "entryDone"], EntryFrame(Top.fv, Top.vtag, Top.dt))
  /\ UNCHANGED ret /\ NoErrors /\ Private

RefuseEntry ==
  /\ At("entry") /\ EntryRefused(Top.fv, Top.vtag)
  /\ Fail("notext")
  /\ IF StopsAfterFail THEN Return(Top.cur)
     ELSE Become([Top EXCEPT !.op = "walkToMap"]) /\ UNCHANGED ret
  /\ Pop
  /\ UNCHANGED <<weak, meta>> /\ Quiet

\* The limit ends the walk before the entry is recorded and stored.
EntryDone ==
  /\ At("entryDone")
  /\ IF stopped THEN Return(Top.cur) /\ UNCHANGED meta
     ELSE /\ RecordKey(path)
          /\ Become([Top EXCEPT !.op = "walkToMap",
               !.cur.kids = [k \in DOMAIN @ \union {Top.key} |-> IF k = Top.key THEN ret ELSE @[k]]])
          /\ UNCHANGED ret
  /\ Pop
  /\ UNCHANGED weak /\ NoErrors /\ Quiet

WalkToMapOver ==
  /\ At("walkToMap") /\ WalkIsOver(Top)
  /\ Return(Top.cur)
  /\ NoErrors /\ Private

-----------------------------------------------------------------------------
(* assignField: one value into one field of a struct destination.          *)

\* f.i is the field, f.val the value; back is where the caller goes on.
\* A field that cannot be set is passed over; the weak flag is raised for the
\* child of a field with the string option.
AssignField(f, i, v, back) ==
  LET fs      == Fields(f.dt)
      into    == Reach(f.cur, i)
      weakens == "string" \in fs[i].opts /\ ~weak
      next    == [f EXCEPT !.op = back, !.cur = into]
  IN  IF ~CanReach(f.cur, i)
      THEN /\ Fail("alloc")
           /\ IF StopsAfterFail THEN Return(f.cur) ELSE Become([f EXCEPT !.op = back]) /\ UNCHANGED ret
           /\ UNCHANGED <<path, weak>>
      ELSE IF ~fs[i].set
      THEN Become(next) /\ NoErrors /\ UNCHANGED <<ret, path, weak>>
      ELSE /\ Call([next EXCEPT !.op = "fieldDone", !.back = back, !.field = i, !.weakened = weakens],
                   Below(ConvertFrame(v, into.kids[i], fs[i].type, fs[i].opts)))
           /\ Push(Seg(fs[i].name))
           /\ weak' = (weak \/ weakens)
           /\ NoErrors /\ UNCHANGED ret

\* Mutant: the flag raised for a string field is never lowered again.
FieldDoneStaysWeak ==
  /\ At("fieldDone")
  /\ LET out == [Top.cur EXCEPT !.kids[Top.field] = ret]
     IN  IF stopped THEN Return(out)
         ELSE Become([Top EXCEPT !.op = Top.back, !.cur = out, !.weakened = FALSE]) /\ UNCHANGED ret
  /\ UNCHANGED weak
  /\ RecordKey(path)
  /\ Pop
  /\ NoErrors /\ Quiet

\* Mutant: the limit is looked at before the key is recorded.
FieldDoneRecordsLate ==
  /\ At("fieldDone")
  /\ LET out == [Top.cur EXCEPT !.kids[Top.field] = ret]
     IN  IF stopped THEN Return(out) /\ UNCHANGED meta
         ELSE /\ Become([Top EXCEPT !.op = Top.back, !.cur = out, !.weakened = FALSE])
              /\ RecordKey(path) /\ UNCHANGED ret
  /\ weak' = (weak /\ ~Top.weakened)
  /\ Pop
  /\ NoErrors /\ Quiet

\* The child of assignField is back: the weak flag is restored, the key
\* recorded whether or not the value converted, and the limit ends the walk.
FieldDone ==
  /\ At("fieldDone")
  /\ LET out == [Top.cur EXCEPT !.kids[Top.field] = ret]
     IN  IF stopped THEN Return(out)
         ELSE Become([Top EXCEPT !.op = Top.back, !.cur = out, !.weakened = FALSE]) /\ UNCHANGED ret
  /\ weak' = (weak /\ ~Top.weakened)
  /\ RecordKey(path)
  /\ Pop
  /\ NoErrors /\ Quiet

-----------------------------------------------------------------------------
(* map -> struct: structFromMap, finishStruct, fillRemain.                 *)

StructFromMap ==
  /\ At("structFromMap")
  /\ IF Info[Top.dt].err
     THEN Fail("badtag") /\ Return(Top.cur)
     ELSE /\ Become([Top EXCEPT !.op = "matchKeys", !.todo = DOMAIN Top.src.kids])
          /\ UNCHANGED ret /\ NoErrors
  /\ Private

Supplied(f) == DOMAIN f.got

\* Mutant: the value of the key visited last takes the field.
MatchKeyLastWins ==
  /\ At("matchKeys")
  /\ \E k \in Top.todo :
       LET i == Lookup(Top.dt, k, cfg.loose)
           f == [Top EXCEPT !.todo = @ \ {k}]
       IN  Become(IF i = 0 THEN [f EXCEPT !.left = Append(@, k)]
                  ELSE [f EXCEPT !.got = [j \in DOMAIN @ \union {i} |->
                          IF j = i THEN Top.src.kids[k] ELSE @[j]]])
  /\ UNCHANGED ret /\ NoErrors /\ Private

\* Mutant: the value of the key visited first keeps the field.
MatchKeyFirstWins ==
  /\ At("matchKeys")
  /\ \E k \in Top.todo :
       LET i == Lookup(Top.dt, k, cfg.loose)
           f == [Top EXCEPT !.todo = @ \ {k}]
       IN  Become(IF i = 0 THEN [f EXCEPT !.left = Append(@, k)]
                  ELSE IF i \in Supplied(Top) THEN f
                  ELSE [f EXCEPT !.got = [j \in DOMAIN @ \union {i} |->
                          IF j = i THEN Top.src.kids[k] ELSE @[j]]])
  /\ UNCHANGED ret /\ NoErrors /\ Private

\* One turn of the match loop, over any key not visited yet.  got holds the
\* matched values by field; an exact name takes the slot in either order.
MatchKey ==
  /\ At("matchKeys")
  /\ \E k \in Top.todo :
       LET i == Lookup(Top.dt, k, cfg.loose)
           f == [Top EXCEPT !.todo = @ \ {k}]
           keeps == i \in Supplied(Top) /\ ~ExactMatch(Top.dt, k)
       IN  Become(IF i = 0 THEN [f EXCEPT !.left = Append(@, k)]
                  ELSE IF keeps THEN f
                  ELSE [f EXCEPT !.got = [j \in DOMAIN @ \union {i} |->
                          IF j = i THEN Top.src.kids[k] ELSE @[j]]])
  /\ UNCHANGED ret /\ NoErrors /\ Private

MatchKeysDone ==
  /\ At("matchKeys") /\ Top.todo = {}
  /\ Become([Top EXCEPT !.op = "assignFields"])
  /\ UNCHANGED ret /\ NoErrors /\ Private

\* The fields that got a value, in declaration order.
PendingFields(f) == {j \in Supplied(f) : j >= f.i}

\* Mutant: in whatever order the map of matched values is walked.
AssignNextFieldAnyOrder ==
  /\ At("assignFields")
  /\ \E i \in PendingFields(Top) : AssignField([Top EXCEPT !.i = i + 1], i, Top.got[i], "assignFields")
  /\ UNCHANGED meta /\ Quiet

AssignNextField ==
  /\ At("assignFields")
  /\ \E i \in PendingFields(Top) :
       /\ \A j \in PendingFields(Top) : i <= j
       /\ AssignField([Top EXCEPT !.i = i + 1], i, Top.got[i], "assignFields")
  /\ UNCHANGED meta /\ Quiet

AssignFieldsDone ==
  /\ At("assignFields") /\ PendingFields(Top) = {}
  /\ Become([Top EXCEPT !.op = "finishStruct"])
  /\ UNCHANGED ret /\ NoErrors /\ Private

\* The fields nothing supplied, in declaration order.
UnsetFields(f) ==
  LET fs == Fields(f.dt)
      unset[j \in 0 .. Len(fs)] ==
        IF j = 0 THEN << >>
        ELSE IF j \in Supplied(f) \/ j = Info[f.dt].remain THEN unset[j - 1]
        ELSE Append(unset[j - 1], fs[j].name)
  IN  unset[Len(fs)]

\* Mutant: WithErrorUnused fails a struct that used every key.
FinishStructAlwaysFails ==
  /\ At("finishStruct")
  /\ Top.left = << >> \/ Info[Top.dt].remain = 0
  /\ IF cfg.errorUnused THEN Fail("unused") ELSE NoErrors
  /\ RecordLeft(Top.left, UnsetFields(Top))
  /\ Return(Top.cur)
  /\ UNCHANGED <<path, weak>> /\ Quiet

\* finishStruct, without a remain field or after it was filled: unclaimed
\* keys are unused, in the order they were met, and may be an error.
FinishStruct ==
  /\ At("finishStruct")
  /\ Top.left = << >> \/ Info[Top.dt].remain = 0
  /\ IF Top.left # << >> /\ cfg.errorUnused THEN Fail("unused") ELSE NoErrors
  /\ RecordLeft(Top.left, UnsetFields(Top))
  /\ Return(Top.cur)
  /\ UNCHANGED <<path, weak>> /\ Quiet

\* The conversion of m into the remain field of f, whose pointer (if it is
\* one and it is followed) is allocated first.
RemainType(f) == Fields(f.dt)[Info[f.dt].remain].type
RemainInto(f, m, follow) ==
  LET i    == Info[f.dt].remain
      fi   == Fields(f.dt)[i]
      into == Reach(f.cur, i)
      slot == into.kids[i]
      old  == IF ~follow THEN slot
              ELSE IF slot.nil THEN ZeroOf[Elem(fi.type)] ELSE slot.kids[1]
  IN  /\ Call([f EXCEPT !.op = "remainDone", !.cur = into],
              Below(ConvertFrame(m, old, IF follow THEN Elem(fi.type) ELSE fi.type, fi.opts)))
      /\ Push(Seg(fi.name))

RemainReachable(f) == CanReach(f.cur, Info[f.dt].remain)
RemainIsPointer(f) == Types[RemainType(f)].kind = "ptr"
RemainIsMap(f) ==
  Types[IF RemainIsPointer(f) THEN Elem(RemainType(f)) ELSE RemainType(f)].kind = "map"

\* What a remain field that takes nothing leaves behind: the embedded pointers
\* it was reached through and, of one that is no map, its own.
RemainSettable(f) == Fields(f.dt)[Info[f.dt].remain].set
RemainReached(f)  == Reach(f.cur, Info[f.dt].remain)
RemainAllocated(f) ==
  LET i    == Info[f.dt].remain
      into == RemainReached(f)
  IN  IF RemainIsPointer(f) /\ into.kids[i].nil
      THEN [into EXCEPT !.kids[i] = Holding(RemainType(f), <<ZeroOf[Elem(RemainType(f))]>>)]
      ELSE into

\* Mutant: the loop over the unclaimed entries ends after one.
FillRemainOne ==
  /\ At("finishStruct") /\ Top.left # << >> /\ Info[Top.dt].remain # 0
  /\ LET entries == Holding(Top.src.t, [k \in {Top.left[1]} |-> Top.src.kids[k]])
         filled  == [Top EXCEPT !.left = << >>]
     IN  IF ~RemainReachable(Top)
         THEN Fail("remain") /\ Become(filled) /\ UNCHANGED path
         ELSE IF ~RemainSettable(Top)
         THEN Become([filled EXCEPT !.cur = RemainReached(Top)]) /\ NoErrors /\ UNCHANGED path
         ELSE IF ~RemainIsMap(Top)
         THEN Fail("remain") /\ Become([filled EXCEPT !.cur = RemainAllocated(Top)]) /\ UNCHANGED path
         ELSE RemainInto(filled, entries, RemainIsPointer(Top)) /\ NoErrors
  /\ UNCHANGED <<ret, weak, meta>> /\ Quiet

\* fillRemain: the unclaimed entries, as a map of the source's type. What it
\* allocates on the way stays, also when the field turns out to be unfit.
FillRemain ==
  /\ At("finishStruct") /\ Top.left # << >> /\ Info[Top.dt].remain # 0
  /\ LET keys    == {Top.left[n] : n \in DOMAIN Top.left}
         entries == Holding(Top.src.t, [k \in keys |-> Top.src.kids[k]])
         filled  == [Top EXCEPT !.left = << >>]
     IN  IF ~RemainReachable(Top)
         THEN Fail("remain") /\ Become(filled) /\ UNCHANGED path
         ELSE IF ~RemainSettable(Top)
         THEN Become([filled EXCEPT !.cur = RemainReached(Top)]) /\ NoErrors /\ UNCHANGED path
         ELSE IF ~RemainIsMap(Top)
         THEN Fail("remain") /\ Become([filled EXCEPT !.cur = RemainAllocated(Top)]) /\ UNCHANGED path
         ELSE RemainInto(filled, entries, RemainIsPointer(Top)) /\ NoErrors
  /\ UNCHANGED <<ret, weak, meta>> /\ Quiet

\* Back in finishStruct (or finishStructPairs), only the unset fields remain.
RemainDone ==
  /\ At("remainDone")
  /\ LET slot == IF ret.t = RemainType(Top) THEN ret ELSE Holding(RemainType(Top), <<ret>>)
     IN  Become([Top EXCEPT !.op = "finishStruct", !.cur.kids[Info[Top.dt].remain] = slot])
  /\ Pop
  /\ UNCHANGED <<ret, weak, meta>> /\ NoErrors /\ Quiet

-----------------------------------------------------------------------------
(* struct -> struct: structFromStruct, finishStructPairs.                  *)

StructFromStruct ==
  /\ At("structFromStruct")
  /\ IF Info[Top.src.t].err \/ Info[Top.dt].err
     THEN Fail("badtag") /\ Return(Top.cur)
     ELSE Become([Top EXCEPT !.op = "walkToStruct"]) /\ UNCHANGED ret /\ NoErrors
  /\ Private

\* Mutant: the shortcut forgets the deref option.
WalkToStructNoDeref ==
  /\ At("walkToStruct")
  /\ \E item \in Items(Top) :
       LET v == item.val
           i == Lookup(Top.dt, item.name, cfg.loose)
           f == item.next
       IN  /\ ~Omitted(item)
           /\ IF i = 0
              THEN /\ Become([f EXCEPT !.rest = [k \in DOMAIN @ \union {item.name} |->
                                                  IF k = item.name THEN v ELSE @[k]]])
                   /\ NoErrors /\ UNCHANGED <<ret, path, weak>>
              ELSE AssignField([f EXCEPT !.got = [j \in DOMAIN @ \union {i} |->
                                                  IF j = i THEN v ELSE @[j]]],
                               i, v, "walkToStruct")
  /\ UNCHANGED meta /\ Quiet

\* A field of the source: kept aside when no field of the destination claims
\* its name, assigned at once otherwise.
WalkToStruct ==
  /\ At("walkToStruct")
  /\ \E item \in Items(Top) :
       LET v == Dereferenced(item)
           i == Lookup(Top.dt, item.name, cfg.loose)
           f == item.next
       IN  /\ ~Omitted(item)
           /\ IF i = 0
              THEN /\ Become([f EXCEPT !.rest = [k \in DOMAIN @ \union {item.name} |->
                                                  IF k = item.name THEN v ELSE @[k]]])
                   /\ NoErrors /\ UNCHANGED <<ret, path, weak>>
              ELSE AssignField([f EXCEPT !.got = [j \in DOMAIN @ \union {i} |->
                                                  IF j = i THEN v ELSE @[j]]],
                               i, v, "walkToStruct")
  /\ UNCHANGED meta /\ Quiet

WalkToStructOver ==
  /\ At("walkToStruct") /\ WalkIsOver(Top)
  /\ IF stopped THEN Return(Top.cur)
     ELSE Become([Top EXCEPT !.op = "finishPairs"]) /\ UNCHANGED ret
  /\ NoErrors /\ Private

\* The orders a Go map with these keys may be walked in.
Orders(S) ==
  {o \in UNION {[1 .. m -> S] : m \in 0 .. Cardinality(S)} :
     Len(o) = Cardinality(S) /\ \A k \in S : \E n \in DOMAIN o : o[n] = k}

\* finishStructPairs: the values nothing claimed go into the remain field, or
\* are unused, in whatever order the map of them is walked.
FinishPairs ==
  /\ At("finishPairs")
  /\ IF DOMAIN Top.rest = {} \/ Info[Top.dt].remain = 0
     THEN /\ \E order \in Orders(DOMAIN Top.rest) :
               Become([Top EXCEPT !.op = "finishStruct", !.left = order])
          /\ NoErrors /\ UNCHANGED <<ret, path>>
     ELSE IF ~RemainReachable(Top)
     THEN Fail("remain") /\ Return(Top.cur) /\ UNCHANGED path
     ELSE /\ RemainInto(Top, Holding("mapStringAny",
                          [k \in DOMAIN Top.rest |-> Any(Top.rest[k])]), FALSE)
          /\ NoErrors /\ UNCHANGED ret
  /\ UNCHANGED <<weak, meta>> /\ Quiet

StructsNext ==
  \/ ToStruct \/ SkipInWalk
  \/ MapFromStruct \/ WalkToMap \/ EntryKeyDone \/ WriteEntry \/ RefuseEntry
  \/ EntryDone \/ WalkToMapOver
  \/ FieldDone
  \/ StructFromMap \/ MatchKey \/ MatchKeysDone \/ AssignNextField \/ AssignFieldsDone
  \/ FinishStruct \/ FillRemain \/ RemainDone
  \/ StructFromStruct \/ WalkToStruct \/ WalkToStructOver \/ FinishPairs

=============================================================================
