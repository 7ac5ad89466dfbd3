----------------------------- MODULE Containers -----------------------------
(***************************************************************************)
(* The handlers of container.go: interface, pointer, slice, array and map  *)
(* destinations.  A handler that converts its elements one by one is a     *)
(* loop of two steps, start the child and take what it returned.           *)
(***************************************************************************)
EXTENDS ConvState

-----------------------------------------------------------------------------
(* toInterface and generic: the generic form for an empty interface.       *)

\* toInterface: keep and WithShallow pass the value through unconverted.
ToInterface ==
  /\ At("toInterface")
  /\ IF "keep" \in Top.tag \/ cfg.shallow
     THEN Return(Any(Top.src))
     ELSE Become([Top EXCEPT !.op = "generic"]) /\ UNCHANGED ret
  /\ NoErrors /\ Private

\* generic, the cases with an answer at once.
GenericAtOnce(src) ==
  \/ ~NeedsGeneric(src.t)
  \/ IsNilLike(src)
  \/ Kind(src) = "map" /\ Types[Types[src.t].key].kind # "string"

GenericReturn ==
  /\ At("generic") /\ GenericAtOnce(Top.src)
  /\ Return(IF NeedsGeneric(Top.src.t) /\ IsNilLike(Top.src)
            THEN Nil("any") ELSE Any(Top.src))
  /\ NoErrors /\ Private

\* generic through a pointer or an interface to what it holds.
GenericFollow ==
  /\ At("generic") /\ ~GenericAtOnce(Top.src)
  /\ Kind(Top.src) \in {"ptr", "iface"}
  /\ Become([Top EXCEPT !.src = Top.src.kids[1]])
  /\ UNCHANGED ret /\ NoErrors /\ Private

\* generic of a struct or of a map keyed by strings: toMap into a fresh
\* map[string]any, without the tag.
GenericToMap ==
  /\ At("generic") /\ ~GenericAtOnce(Top.src)
  /\ Kind(Top.src) \in {"struct", "map"}
  /\ Call([Top EXCEPT !.op = "genericMapDone"],
          Frame("toMap", Top.src, Nil("mapStringAny"), "mapStringAny", NoTag))
  /\ UNCHANGED ret /\ NoErrors /\ Private

GenericMapDone ==
  /\ At("genericMapDone")
  /\ Return(Any(ret))
  /\ NoErrors /\ Private

\* generic of a slice or an array: a fresh []any of the same length.
GenericToSlice ==
  /\ At("generic") /\ ~GenericAtOnce(Top.src)
  /\ IsList(Top.src)
  /\ Become([Top EXCEPT !.op = "genericElems", !.dt = "sliceAny",
               !.cur = Holding("sliceAny", [n \in DOMAIN Top.src.kids |-> Nil("any")])])
  /\ UNCHANGED ret /\ NoErrors /\ Private

\* Its loop does not look at the error limit.
GenericElem ==
  /\ At("genericElems") /\ Top.i <= Len(Top.src.kids)
  /\ Call([Top EXCEPT !.op = "genericElemDone"],
          Below(ConvertFrame(Top.src.kids[Top.i], Nil("any"), "any", NoTag)))
  /\ Push(IndexSeg(Top.i - 1))
  /\ UNCHANGED <<ret, weak, meta>> /\ NoErrors /\ Quiet

GenericElemDone ==
  /\ At("genericElemDone")
  /\ Become([Top EXCEPT !.op = "genericElems", !.cur.kids[Top.i] = ret, !.i = @ + 1])
  /\ Pop
  /\ UNCHANGED <<ret, weak, meta>> /\ NoErrors /\ Quiet

GenericElemsDone ==
  /\ At("genericElems") /\ Top.i > Len(Top.src.kids)
  /\ Return(Any(Top.cur))
  /\ NoErrors /\ Private

-----------------------------------------------------------------------------
(* toPointer.                                                              *)

\* A nil source clears, an identical type is shared; otherwise the pointee
\* (a fresh one if there is none, or when zeroing) is converted into.
ToPointer ==
  /\ At("toPointer")
  /\ IF IsNilLike(Top.src) THEN Return(Nil(Top.dt))
     ELSE IF Top.src.t = Top.dt THEN Return(Top.src)
     ELSE /\ Call([Top EXCEPT !.op = "pointerDone"],
                  ConvertFrame(Top.src,
                    IF Top.cur.nil \/ cfg.zeroFields THEN ZeroOf[Elem(Top.dt)]
                    ELSE Top.cur.kids[1],
                    Elem(Top.dt), Top.tag))
          /\ UNCHANGED ret
  /\ NoErrors /\ Private

\* Mutant: the converted pointee is stored without a pointer to it.
PointerDoneBare ==
  /\ At("pointerDone")
  /\ Return(ret)
  /\ NoErrors /\ Private

\* The pointer is set whether or not its pointee converted.
PointerDone ==
  /\ At("pointerDone")
  /\ Return(Holding(Top.dt, <<ret>>))
  /\ NoErrors /\ Private

-----------------------------------------------------------------------------
(* toSlice and toArray.                                                    *)

\* Mutant: new elements are put in front of the ones that are there.
SliceOfLenKeepsOld(f, n) ==
  LET old == IF f.cur.nil \/ cfg.zeroFields THEN << >> ELSE f.cur.kids
  IN  Holding(f.dt, [j \in 1 .. n + Len(old) |->
                       IF j > n THEN old[j - n] ELSE ZeroOf[Elem(f.dt)]])

\* The slice the loop starts from: fresh, truncated to n, or grown to n.
SliceOfLen(f, n) ==
  LET old == IF f.cur.nil \/ cfg.zeroFields THEN << >> ELSE f.cur.kids
  IN  Holding(f.dt, [j \in 1 .. n |-> IF j <= Len(old) THEN old[j] ELSE ZeroOf[Elem(f.dt)]])

\* reflect.SliceOf: the unnamed slice type of an element type, if the model
\* has it among its types.
IsSliceOf(t, elem) == Types[t].kind = "slice" /\ Elem(t) = elem /\ "named" \notin Types[t].has

\* The slice made of a single value, or of the letters of a text.
Lifted(kids) == Holding("lifted", kids)

IsEmptyMap(v) == Kind(v) = "map" /\ DOMAIN v.kids = {}

\* A list, a text that is spelled out, or a single value lifted into a slice
\* when typing is weak.
ToSlice ==
  /\ At("toSlice")
  /\ LET src    == Top.src
         kids   == IF IsList(src) THEN src.kids ELSE <<src>>
         same   == IF IsList(src) THEN src.t = Top.dt ELSE IsSliceOf(Top.dt, src.t)
     IN  IF Kind(src) = "string" /\ OfLetters(Top.dt)
         THEN NoErrors /\ Return(Holding(Top.dt, Letters(Elem(Top.dt), src.x)))
         ELSE IF ~IsList(src) /\ ~weak
         THEN Fail("lift") /\ Return(Top.cur)
         ELSE IF IsEmptyMap(src)
         THEN NoErrors /\ Return(Holding(Top.dt, << >>))
         ELSE IF IsList(src) /\ src.nil
         THEN NoErrors /\ Return(Nil(Top.dt))
         ELSE IF same /\ (Top.cur.nil \/ cfg.zeroFields)
         THEN NoErrors /\ Return(Holding(Top.dt, kids))
         ELSE /\ Become([Top EXCEPT !.op = "sliceElems", !.src = IF IsList(src) THEN src ELSE Lifted(kids),
                                    !.cur = SliceOfLen(Top, Len(kids))])
              /\ UNCHANGED ret /\ NoErrors
  /\ Private

\* Mutant: the loop starts from an empty array.
ArrayToFillFresh(f) == ZeroOf[f.dt]

\* The array the loop starts from.
ArrayToFill(f) == IF cfg.zeroFields THEN ZeroOf[f.dt] ELSE f.cur

\* An array takes a list, a text, or a single value when typing is weak, if
\* all of it fits; what it does not reach stays.  A text spells its bytes, for
\* weak typing into an array of anything.
ToArray ==
  /\ At("toArray")
  /\ LET src  == Top.src
         text == Kind(src) = "string"
         kids == CASE IsList(src) -> src.kids
                   [] text        -> Letters(IF OfLetters(Top.dt) THEN Elem(Top.dt) ELSE "byte", src.x)
                   [] OTHER       -> <<src>>
     IN  IF ~IsList(src) /\ ~weak /\ ~(text /\ OfLetters(Top.dt))
         THEN Fail("lift") /\ Return(Top.cur)
         ELSE IF IsEmptyMap(src)
         THEN NoErrors /\ Return(ZeroOf[Top.dt])
         ELSE IF Len(kids) > Types[Top.dt].size
         THEN Fail("overflow") /\ Return(Top.cur)
         ELSE /\ Become([Top EXCEPT !.op = "sliceElems", !.src = Lifted(kids),
                                    !.cur = ArrayToFill(Top)])
              /\ UNCHANGED ret /\ NoErrors
  /\ Private

\* The loop of both.
SliceElem ==
  /\ At("sliceElems") /\ Top.i <= Len(Top.src.kids)
  /\ Call([Top EXCEPT !.op = "sliceElemDone"],
          Below(ConvertFrame(Top.src.kids[Top.i], Top.cur.kids[Top.i], Elem(Top.dt), Top.tag)))
  /\ Push(IndexSeg(Top.i - 1))
  /\ UNCHANGED <<ret, weak, meta>> /\ NoErrors /\ Quiet

\* Mutant: the loop does not look at the limit.
SliceElemDoneGoesOn ==
  /\ At("sliceElemDone")
  /\ LET out == [Top.cur EXCEPT !.kids[Top.i] = ret]
     IN  IF Top.i = Len(Top.src.kids) THEN Return(out)
         ELSE /\ Become([Top EXCEPT !.op = "sliceElems", !.cur = out, !.i = @ + 1])
              /\ UNCHANGED ret
  /\ Pop
  /\ UNCHANGED <<weak, meta>> /\ NoErrors /\ Quiet

\* One element is done; the limit ends the loop, never the assignment.
SliceElemDone ==
  /\ At("sliceElemDone")
  /\ LET out == [Top.cur EXCEPT !.kids[Top.i] = ret]
     IN  IF stopped \/ Top.i = Len(Top.src.kids) THEN Return(out)
         ELSE /\ Become([Top EXCEPT !.op = "sliceElems", !.cur = out, !.i = @ + 1])
              /\ UNCHANGED ret
  /\ Pop
  /\ UNCHANGED <<weak, meta>> /\ NoErrors /\ Quiet

SliceElemsEmpty ==
  /\ At("sliceElems") /\ Top.i > Len(Top.src.kids)
  /\ Return(Top.cur)
  /\ NoErrors /\ Private

-----------------------------------------------------------------------------
(* toMap and mapFromMap.                                                   *)

\* Mutant: every map starts empty.
EnsureMapFresh(f) == Holding(f.dt, << >>)

\* ensureMap.
EnsureMap(f) == IF f.cur.nil \/ cfg.zeroFields THEN Holding(f.dt, << >>) ELSE f.cur

ToMap ==
  /\ At("toMap")
  /\ LET Go(f) == Become(f) /\ UNCHANGED ret /\ NoErrors
     IN  CASE Kind(Top.src) = "struct" -> Go([Top EXCEPT !.op = "mapFromStruct"])
           [] Kind(Top.src) = "map"    -> Go([Top EXCEPT !.op = "mapFromMap"])
           [] IsList(Top.src) /\ weak ->
                Go([Top EXCEPT !.op = "mergeMaps", !.cur = EnsureMap(Top)])
           [] OTHER -> Fail("notmap") /\ Return(Top.cur)
  /\ Private

\* A slice of maps is merged into one map, each converted into dst in turn.
MergeMap ==
  /\ At("mergeMaps") /\ Top.i <= Len(Top.src.kids)
  /\ Call([Top EXCEPT !.op = "mergeMapDone"],
          Below(ConvertFrame(Top.src.kids[Top.i], Top.cur, Top.dt, Top.tag)))
  /\ Push(IndexSeg(Top.i - 1))
  /\ UNCHANGED <<ret, weak, meta>> /\ NoErrors /\ Quiet

MergeMapDone ==
  /\ At("mergeMapDone")
  /\ IF stopped THEN Return(ret)
     ELSE Become([Top EXCEPT !.op = "mergeMaps", !.cur = ret, !.i = @ + 1]) /\ UNCHANGED ret
  /\ Pop
  /\ UNCHANGED <<weak, meta>> /\ NoErrors /\ Quiet

MergeMapsDone ==
  /\ At("mergeMaps") /\ Top.i > Len(Top.src.kids)
  /\ Return(Top.cur)
  /\ NoErrors /\ Private

MapFromMap ==
  /\ At("mapFromMap")
  /\ IF Top.src.nil THEN Return(Nil(Top.dt))
     ELSE /\ Become([Top EXCEPT !.op = "mapEntries", !.cur = EnsureMap(Top),
                                !.todo = DOMAIN Top.src.kids])
          /\ UNCHANGED ret
  /\ NoErrors /\ Private

\* One turn of the iteration, over any key not visited yet: the key first...
MapEntry ==
  /\ At("mapEntries")
  /\ \E k \in Top.todo :
       /\ Call([Top EXCEPT !.op = "mapKeyDone", !.key = k, !.todo = @ \ {k}],
               Below(ConvertFrame(Scalar(Types[Top.src.t].key, k),
                                  ZeroOf[Types[Top.dt].key], Types[Top.dt].key, NoTag)))
       /\ Push(Seg(k))
  /\ UNCHANGED <<ret, weak, meta>> /\ NoErrors /\ Quiet

\* ... then the element, merged into what the map holds under the converted
\* key unless zeroing.  val keeps that key.
MapKeyDone ==
  /\ At("mapKeyDone")
  /\ LET old == IF ret.x \in DOMAIN Top.cur.kids /\ ~cfg.zeroFields
                THEN Top.cur.kids[ret.x] ELSE ZeroOf[Elem(Top.dt)]
     IN  Call([Top EXCEPT !.op = "mapElemDone", !.val = ret],
              ConvertFrame(Top.src.kids[Top.key], old, Elem(Top.dt), NoTag))
  /\ UNCHANGED ret /\ NoErrors /\ Private

\* SetMapIndex.
Stored(m, k, v) ==
  [m EXCEPT !.kids = [j \in DOMAIN m.kids \union {k} |-> IF j = k THEN v ELSE m.kids[j]]]

\* Mutant: the early return leaves the path segment on the stack.
MapElemDoneKeepsPath ==
  /\ At("mapElemDone")
  /\ RecordKey(path)
  /\ IF stopped THEN Return(Top.cur) /\ UNCHANGED path
     ELSE /\ Become([Top EXCEPT !.op = "mapEntries", !.cur = Stored(Top.cur, Top.val.x, ret)])
          /\ Pop /\ UNCHANGED ret
  /\ UNCHANGED weak /\ NoErrors /\ Quiet

MapElemDone ==
  /\ At("mapElemDone")
  /\ RecordKey(path)
  /\ IF stopped THEN Return(Top.cur)
     ELSE /\ Become([Top EXCEPT !.op = "mapEntries", !.cur = Stored(Top.cur, Top.val.x, ret)])
          /\ UNCHANGED ret
  /\ Pop
  /\ UNCHANGED weak /\ NoErrors /\ Quiet

MapEntriesDone ==
  /\ At("mapEntries") /\ Top.todo = {}
  /\ Return(Top.cur)
  /\ NoErrors /\ Private

ContainersNext ==
  \/ ToInterface \/ GenericReturn \/ GenericFollow \/ GenericToMap \/ GenericMapDone
  \/ GenericToSlice \/ GenericElem \/ GenericElemDone \/ GenericElemsDone
  \/ ToPointer \/ PointerDone
  \/ ToSlice \/ ToArray \/ SliceElem \/ SliceElemDone \/ SliceElemsEmpty
  \/ ToMap \/ MergeMap \/ MergeMapDone \/ MergeMapsDone
  \/ MapFromMap \/ MapEntry \/ MapKeyDone \/ MapElemDone \/ MapEntriesDone

=============================================================================
