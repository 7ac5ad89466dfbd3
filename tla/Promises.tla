------------------------------- MODULE Promises -------------------------------
(***************************************************************************)
(* What the callers of a Codec are promised about the calls they made,     *)
(* stated over the outcomes of a session and never over the steps of the   *)
(* engine.  The promises are those of README.md, doc.go and option.go.     *)
(***************************************************************************)
EXTENDS Engine

\* The calls made so far, looked at between two: during one, no outcome changes.
Calls == IF Idle THEN DOMAIN results ELSE {}

\* What call n was given: its source and its destination before the call.
Given(n)  == IF Plan[n].from = 0 THEN Plan[n].src ELSE results[Plan[n].from].dst
Before(n) == IF Plan[n].into = 0 THEN Plan[n].cur ELSE results[Plan[n].into].dst
Into(n)   == Plan[n].dt
Names(t)  == [i \in DOMAIN Fields(t) |-> Fields(t)[i].name]
Clean(n)  == results[n].errs = << >>
Paths(es) == [m \in DOMAIN es |-> es[m].path]

-----------------------------------------------------------------------------
(* A reference for map -> struct when every field is a scalar: each field  *)
(* on its own, without the two loops, the stack, or an order of the keys.  *)

Keys(n)         == DOMAIN Given(n).kids
Claimants(n, i) == {k \in Keys(n) : Lookup(Into(n), k, cfg.loose) = i}
Unclaimed(n)    == Claimants(n, 0)
Given1(n)       == {i \in Named(Into(n)) : Claimants(n, i) # {}}

\* Nobody speaks for a value of type t.
Mute(t) == Types[t].has \intersect {"Decoder", "Encoder", "Text"} = {}

\* The fields and the values are scalars no user code has a say in, the fields
\* can be set, and no field is left to the order its keys are met in: of two
\* keys that claim it one has its very name.
FlatField(n, i) ==
  LET f == Fields(Into(n))[i]
  IN  /\ Types[f.type].kind \in {"int", "string"} /\ Mute(f.type)
      /\ f.set /\ (f.alloc \/ i \in DOMAIN Before(n).kids)
      /\ \A k, l \in Claimants(n, i) :
           k = l \/ ExactMatch(Into(n), k) \/ ExactMatch(Into(n), l)

FlatValue(v) == IsValid(v) => Kind(v) # "ptr" /\ Mute(v.t)

Flattish(n) ==
  /\ cfg.hooks = << >>
  /\ IsValid(Given(n)) /\ Kind(Given(n)) = "map" /\ Mute(Given(n).t)
  /\ Types[Into(n)].kind = "struct" /\ ~Info[Into(n)].err /\ Mute(Into(n))
  /\ \A i \in Named(Into(n)) : FlatField(n, i)
  /\ \A k \in Keys(n) : FlatValue(Unwrap(Given(n).kids[k]))

FlatCalls == {n \in Calls : Flattish(n)}

\* The value for field i: the key that names it exactly, else the one that
\* folds to it.
Chosen(ks, name) == CHOOSE k \in ks : name \in ks => k = name
ValueFor(n, i) ==
  Unwrap(Given(n).kids[Chosen(Claimants(n, i), Fields(Into(n))[i].name)])

Converted(v, t, weakly) == IF v.t = t THEN v ELSE Cast(v, t, weakly)
CastFor(n, i) ==
  Converted(ValueFor(n, i), Fields(Into(n))[i].type,
            cfg.weakTypes \/ "string" \in Fields(Into(n))[i].opts)

Misfits(n) == {i \in Given1(n) : IsValid(ValueFor(n, i)) /\ ~IsValid(CastFor(n, i))}

\* The limit cuts the work after the field that met it.
Reached(n) ==
  {i \in DOMAIN Fields(Into(n)) :
     Limit = 0 \/ Cardinality({j \in Misfits(n) : j < i}) < Limit}
CutShort(n) == Limit > 0 /\ Cardinality(Misfits(n)) >= Limit

\* What a field held, or would if the pointer it is behind were not nil.
Old(n, i) ==
  IF i \in DOMAIN Before(n).kids THEN Before(n).kids[i] ELSE ZeroOf[Fields(Into(n))[i].type]

\* What it holds afterwards.
After(n, i) ==
  IF i \notin Given1(n) \intersect Reached(n) \/ i \in Misfits(n) THEN Old(n, i)
  ELSE IF IsValid(ValueFor(n, i)) THEN CastFor(n, i)
  ELSE IF cfg.zeroFields THEN ZeroOf[Fields(Into(n))[i].type] ELSE Old(n, i)

\* The entries a to b of s are what e has for the members of S, in order.
Lists(s, a, b, S, e) ==
  \E o \in [a .. b -> S] :
    /\ \A m \in a .. b : s[m] = e[o[m]]
    /\ \A i \in S : \E m \in a .. b : o[m] = i
    /\ \A m, k \in a .. b : m < k => o[m] < o[k]

FieldPaths(n) == [i \in Named(Into(n)) |-> <<Seg(Fields(Into(n))[i].name)>>]
CastErrors(n) == [i \in Named(Into(n)) |-> [path |-> FieldPaths(n)[i], err |-> "cast"]]

\* Whatever the conversion of the remain field reports or records is below it.
InRemain(n, p) ==
  LET i == Info[Into(n)].remain
  IN  i # 0 /\ p # << >> /\ p[1] = Seg(Fields(Into(n))[i].name)

FieldsFilled(n, dst) ==
  \A i \in Named(Into(n)) :
    IF i \in DOMAIN dst.kids THEN dst.kids[i] = After(n, i)
    ELSE i \notin DOMAIN Before(n).kids /\ i \notin Given1(n) \intersect Reached(n)

MisfitsReported(n, es) ==
  \E k \in 0 .. Len(es) :
    /\ Lists(es, 1, k, Misfits(n) \intersect Reached(n), CastErrors(n))
    /\ \A m \in k + 1 .. Len(es) : es[m].err = "cast" => InRemain(n, es[m].path)

UnusedReported(n, es) ==
  (\E m \in DOMAIN es : es[m].err = "unused" /\ es[m].path = << >>)
    <=> /\ cfg.errorUnused /\ Unclaimed(n) # {}
        /\ Info[Into(n)].remain = 0 /\ ~CutShort(n)

AccountedFor(n, mt) ==
  /\ \E k \in 0 .. Len(mt.keys) :
       /\ Lists(mt.keys, 1, k, Given1(n) \intersect Reached(n), FieldPaths(n))
       /\ \A m \in k + 1 .. Len(mt.keys) : InRemain(n, mt.keys[m])
  /\ \E k \in 0 .. Len(mt.unset) :
       /\ \A m \in 1 .. k : InRemain(n, mt.unset[m])
       /\ Lists(mt.unset, k + 1, Len(mt.unset),
                IF CutShort(n) THEN {} ELSE Named(Into(n)) \ Given1(n), FieldPaths(n))
  /\ IF CutShort(n) \/ Info[Into(n)].remain # 0
     THEN \A m \in DOMAIN mt.unused : InRemain(n, mt.unused[m])
     ELSE {mt.unused[m] : m \in DOMAIN mt.unused} = {<<Seg(k)>> : k \in Unclaimed(n)}

\* Every field a key supplies receives the converted value, an exactly named
\* key before one that merely folds, and what it is embedded in is allocated
\* for it; any other field, one given a nil and one given a misfit included,
\* keeps what it held (or is zeroed on a nil, with WithZeroFields).
FillsEveryField == \A n \in FlatCalls : FieldsFilled(n, results[n].dst)

\* Failures are collected, all of them up to the limit, in the order the
\* destination declares its fields whatever order the map was walked in, each
\* at the path of its field; after them only what the remain field reports.
ReportsEveryMisfit == \A n \in FlatCalls : MisfitsReported(n, results[n].errs)

\* WithErrorUnused fails exactly when a key was left over and nothing took it.
UnusedIsAnError == \A n \in FlatCalls : UnusedReported(n, results[n].errs)

\* Metadata accounts for every field once and in field order: as a key if the
\* input supplied it, whether or not its value converted (struct.go:257, see
\* KeysWereWritten), else as unset; and for every key nothing claims as unused,
\* unless a remain field took it.
AccountsForEverything == \A n \in FlatCalls : cfg.meta => AccountedFor(n, results[n].meta)

-----------------------------------------------------------------------------
(* A reference for lists of scalars: each element on its own, without the  *)
(* loop, the stack or the copy an array is converted in.                   *)

ListOfScalars(n) ==
  /\ cfg.hooks = << >>
  /\ IsValid(Given(n)) /\ IsList(Given(n)) /\ Mute(Given(n).t)
  /\ Types[Into(n)].kind \in {"slice", "array"} /\ Mute(Into(n))
  /\ Types[Elem(Into(n))].kind \in {"int", "string"} /\ Mute(Elem(Into(n)))
  /\ \A j \in DOMAIN Given(n).kids : FlatValue(Unwrap(Given(n).kids[j]))
  /\ Types[Into(n)].kind = "array" => Len(Given(n).kids) <= Types[Into(n)].size

ListCalls == {n \in Calls : ListOfScalars(n)}

Element(n, j) == Unwrap(Given(n).kids[j])
ElementCast(n, j) == Converted(Element(n, j), Elem(Into(n)), cfg.weakTypes)
ElementMisfits(n) ==
  {j \in DOMAIN Given(n).kids : IsValid(Element(n, j)) /\ ~IsValid(ElementCast(n, j))}
ElementsReached(n) ==
  {j \in DOMAIN Given(n).kids :
     Limit = 0 \/ Cardinality({k \in ElementMisfits(n) : k < j}) < Limit}

ElementAfter(n, j) ==
  IF j \in ElementsReached(n) \ ElementMisfits(n) /\ IsValid(Element(n, j)) THEN ElementCast(n, j)
  ELSE IF j \in DOMAIN Before(n).kids /\ ~cfg.zeroFields THEN Before(n).kids[j]
  ELSE ZeroOf[Elem(Into(n))]

ElementErrors(n) == [j \in DOMAIN Given(n).kids |-> [path |-> <<IndexSeg(j - 1)>>, err |-> "cast"]]

\* A list that reaches a slice or an array is stored although elements of it
\* failed (container.go:283, 337): a slice has its length, an array its own;
\* each element that converts arrives, a failed one or one behind the limit
\* keeps what the destination held there (or is zero), and the failures are
\* those elements, in order, as many as the limit allows.
FillsEveryElement ==
  \A n \in ListCalls :
    LET dst == results[n].dst
        es  == results[n].errs
    IN  /\ DOMAIN dst.kids = 1 .. (IF Types[Into(n)].kind = "array" THEN Types[Into(n)].size
                                   ELSE Len(Given(n).kids))
        /\ \A j \in DOMAIN dst.kids : dst.kids[j] = ElementAfter(n, j)
        /\ Lists(es, 1, Len(es), ElementMisfits(n) \intersect ElementsReached(n), ElementErrors(n))

-----------------------------------------------------------------------------
(* Several calls, none of them with hooks or types that speak for          *)
(* themselves.                                                             *)

SameCall(m, n) == Plan[m] = Plan[n] /\ Plan[m].from = 0 /\ Plan[m].into = 0

\* The same input always reports the same thing: the order a map is walked in
\* shows neither in the result, nor in the failures, nor in the metadata.
SameAnswer == \A m, n \in Calls : SameCall(m, n) => results[m] = results[n]

\* Giving a destination the same input again changes nothing.
Idempotent ==
  \A n \in Calls :
    Plan[n].into # 0 /\ Plan[Plan[n].into].src = Plan[n].src
      /\ Plan[n].from = 0 /\ Clean(n)
    => results[n].dst = Before(n)

\* A list given to an array arrives as it does in a slice (calls n and m), behind
\* it what the array held; a list that is too long is refused as a whole.  Not
\* so a text, which an array takes byte by byte.
SameStart(m, n) ==
  \A i \in DOMAIN Before(n).kids :
    Before(n).kids[i] = IF i \in DOMAIN Before(m).kids THEN Before(m).kids[i] ELSE ZeroOf[Elem(Into(n))]

ArrayHoldsList ==
  \A m, n \in Calls :
    LET list == results[m].dst.kids
        left == IF cfg.zeroFields \/ (IsValid(Given(n)) /\ Kind(Given(n)) = "map") THEN ZeroOf[Into(n)] ELSE Before(n)
    IN  /\ Types[Into(m)].kind = "slice" /\ Types[Into(n)].kind = "array" /\ Elem(Into(m)) = Elem(Into(n))
        /\ Plan[m].src = Plan[n].src /\ Kind(Given(n)) # "string" /\ SameStart(m, n) /\ Clean(m)
        => IF Len(list) > Types[Into(n)].size
           THEN ~Clean(n) /\ results[n].dst = Before(n)
           ELSE /\ Clean(n)
                /\ \A i \in DOMAIN results[n].dst.kids :
                     results[n].dst.kids[i] = IF i \in DOMAIN list THEN list[i] ELSE left.kids[i]

\* What a value is made of, itself included, down to a bound.
PartsDepth == 6
PartsOf(v) ==
  LET down[n \in 0 .. PartsDepth] ==
        IF n = 0 THEN {v}
        ELSE down[n - 1] \union UNION {{w.kids[k] : k \in DOMAIN w.kids} : w \in down[n - 1]}
  IN  down[PartsDepth]

\* The fields of s that go out, and those of them that do through deref.
GoesOut(s) ==
  {i \in DOMAIN s.kids \ {Info[s.t].remain} : ~Omitted([val |-> s.kids[i], tag |-> Fields(s.t)[i].opts])}
Opened(s) == {i \in GoesOut(s) : cfg.deref \/ "deref" \in Fields(s.t)[i].opts}

\* What cannot come back, as it goes out as something else: a nil pointer that
\* is dereferenced, as the zero value; a text rendered of what is no scalar;
\* what an interface holds that is not in the generic form yet (unless it is
\* kept); a remain map without a key, with that of a field, or with a nil that
\* is left out.
NilsSurvive(s)  == \A i \in Opened(s) : Kind(Target(s.kids[i], {"ptr"})) # "ptr"
TextsSurvive(s) ==
  \A i \in GoesOut(s) :
    "string" \in Fields(s.t)[i].opts => Kind(Target(s.kids[i], {"ptr"})) \in {"int", "string"}
HoldsGeneric(v) ==
  \A w \in PartsOf(v) : Kind(w) = "iface" /\ ~w.nil =>
    LET held == w.kids[1]
    IN  ~NeedsGeneric(held.t) \/ (held.t \in {"mapStringAny", "sliceAny"} /\ ~held.nil)
FormsSurvive(s) ==
  \A i \in DOMAIN s.kids : "keep" \in Fields(s.t)[i].opts \/ HoldsGeneric(s.kids[i])
RemainSurvives(s) ==
  LET i == Info[s.t].remain
      m == DerefOrZero(s.kids[i])
  IN  i \in DOMAIN s.kids =>
        /\ s.kids[i] # ZeroOf[s.kids[i].t] => DOMAIN m.kids # {}
        /\ \A k \in DOMAIN m.kids :
             Lookup(s.t, k, cfg.loose) = 0 /\ ~(cfg.omitNil /\ IsNilLike(m.kids[k]))

Survives(v) ==
  \A s \in {w \in PartsOf(v) : Kind(w) = "struct"} : TextsSurvive(s) /\ FormsSurvive(s) /\ RemainSurvives(s)
NilsStay(v) == \A s \in {w \in PartsOf(v) : Kind(w) = "struct"} : NilsSurvive(s)

\* Call n reads a value of the type m wrote it from: a struct that m wrote to a
\* map, or a text it spelled out as bytes or runes.
ReadBack(m, n) ==
  /\ m # 0 /\ Into(n) = Given(m).t /\ Clean(m) /\ Clean(n)
  /\ \/ Kind(Given(m)) = "struct" /\ Into(m) = "mapStringAny" /\ Survives(Given(m))
     \/ Kind(Given(m)) = "string" /\ Types[Into(m)].kind = "slice" /\ OfLetters(Into(m))

\* A struct written to a map and read back is the struct it was, whatever its
\* tags, its embedded pointers and what it holds, and so is a text spelled out
\* as bytes or runes; save for a nil pointer that went out through deref: doc.go:15
\* makes no such exception, but doc.go:47 says it becomes the zero value.
RoundTrip ==
  \A n \in Calls :
    LET m == Plan[n].from
    IN  ReadBack(m, n) /\ (Kind(Given(m)) = "struct" => NilsStay(Given(m)))
        => results[n].dst = Given(m)

\* A map read into a struct of scalars with a remain field and written back
\* (calls m and n) has every key it came with: one a field claims under the name
\* of the field, with the value the field made of it (of several, that of the
\* exact name); one nothing claims as it is, with the very value it came with.
Takes(m, k, i) ==
  /\ IsValid(Unwrap(Given(m).kids[k]))
  /\ k = Names(Into(m))[i] \/ Claimants(m, i) = {k}

NothingLost ==
  \A n \in Calls :
    LET m   == Plan[n].from
        t   == Into(m)
        out == results[n].dst.kids
    IN  /\ m # 0 /\ Into(n) = "mapStringAny" /\ Given(m).t = Into(n) /\ Clean(m) /\ Clean(n)
        /\ Types[t].kind = "struct" /\ Info[t].remain # 0 /\ ~cfg.omitNil
        /\ \A i \in Named(t) : Types[Fields(t)[i].type].kind \in {"int", "string"} /\ Fields(t)[i].opts = {}
        => \A k \in Keys(m) :
             LET i    == Lookup(t, k, cfg.loose)
                 name == IF i = 0 THEN k ELSE Names(t)[i]
             IN  /\ name \in DOMAIN out
                 /\ i = 0 /\ HoldsGeneric(Given(m).kids[k]) => out[name] = Given(m).kids[k]
                 /\ i # 0 /\ Takes(m, k, i) =>
                      Unwrap(out[name]) = Converted(Unwrap(Given(m).kids[k]), Fields(t)[i].type, cfg.weakTypes)

\* Struct to struct takes the shortcut past the map and ends where the way
\* through the map ends: calls l (to a map), m (that map to a struct) and n
\* (the struct directly) fill the fields alike, and keep the same texts under
\* the same keys in a remain field.  Of two names that claim one field the
\* shortcut takes the last (struct.go:385), not the exact one: left out here.
SameTexts(v, w) ==
  /\ DOMAIN v.kids = DOMAIN w.kids
  /\ \A k \in DOMAIN v.kids : Stringify(v.kids[k]) = Stringify(w.kids[k])

SameRoute ==
  \A m, n \in Calls :
    LET l == Plan[m].from
        v == results[m].dst
        w == results[n].dst
    IN  /\ l # 0 /\ Plan[n].from = 0 /\ Plan[n].src = Plan[l].src /\ Into(m) = Into(n)
        /\ Kind(Given(n)) = "struct" /\ Clean(l) /\ Clean(m) /\ Clean(n)
        /\ Survives(Given(n)) /\ \A i \in Named(Into(n)) : Cardinality(Claimants(m, i)) <= 1
        /\ Into(n) = Given(n).t => NilsStay(Given(n))
        => /\ DOMAIN v.kids = DOMAIN w.kids
           /\ \A i \in DOMAIN v.kids :
                IF i = Info[Into(n)].remain THEN SameTexts(v.kids[i], w.kids[i])
                ELSE v.kids[i] = w.kids[i]

-----------------------------------------------------------------------------
(* User code: hooks, ValueDecoder, ValueEncoder, TextUnmarshaler, and who  *)
(* has the word, for calls whose destination is not a container.           *)

Speaking(n) ==
  /\ IsValid(Given(n)) /\ Kind(Given(n)) \notin {"iface", "ptr"}
  /\ Types[Into(n)].kind \in {"int", "string", "other"}

FiringHooks(n) ==
  {j \in DOMAIN cfg.hooks : Fires(cfg.hooks[j], [src |-> Given(n), dt |-> Into(n)])}
FirstHook(n)   == cfg.hooks[CHOOSE j \in FiringHooks(n) : \A k \in FiringHooks(n) : j <= k]
HookSpeaks(n)  == FiringHooks(n) # {}
HookFails(n)   == HookSpeaks(n) /\ FirstHook(n).err
HookAnswers(n) == HookSpeaks(n) /\ ~FirstHook(n).err
Answer(n)      == Unwrap(FirstHook(n).val)
DecoderSpeaks(n) == "Decoder" \in Types[Into(n)].has /\ scen.user.decode # "skip"
EncoderSpeaks(n) == "Encoder" \in Types[Given(n).t].has /\ scen.user.encode # "skip"

\* What a value is to a destination once nobody replaces it any more: text for
\* one that reads text, else itself or its cast; NoValue is a failure.
Read(v, t) ==
  IF Kind(v) = "string" /\ Types[t].kind # "string" /\ "Text" \in Types[t].has
  THEN IF scen.user.text = "ok" THEN Scalar(t, v.x) ELSE NoValue
  ELSE IF v.t = t THEN v ELSE Cast(v, t, cfg.weakTypes)

Reads(n, v) ==
  /\ Clean(n) = IsValid(Read(v, Into(n)))
  /\ results[n].dst = IF Clean(n) THEN Read(v, Into(n)) ELSE Before(n)

\* A hook beats the codec methods of both types, which see nothing of a value
\* it answered for; the destination's decoder beats the source's encoder; a
\* nil answer leaves the destination what it was, or zeroes it.  (A pointer
\* would be read through: that is another matter.)
PrecedenceKept ==
  \A n \in {m \in Calls : Speaking(m)} :
    /\ HookAnswers(n) =>
         IF IsValid(Answer(n)) THEN Kind(Answer(n)) # "ptr" => Reads(n, Answer(n))
         ELSE Clean(n) /\ results[n].dst = IF cfg.zeroFields THEN ZeroOf[Into(n)] ELSE Before(n)
    /\ ~HookSpeaks(n) /\ DecoderSpeaks(n) =>
         IF scen.user.decode = "err" THEN Len(results[n].errs) = 1 /\ results[n].dst = Before(n)
         ELSE Clean(n) /\ results[n].dst = Scalar(Into(n), "decoded")
    /\ ~HookSpeaks(n) /\ ~DecoderSpeaks(n) /\ EncoderSpeaks(n) =>
         CASE scen.user.encode = "ok"  -> Reads(n, Scalar("string", "encoded"))
           [] scen.user.encode = "nil" -> Clean(n) /\ results[n].dst = Before(n)
           [] OTHER                    -> Len(results[n].errs) = 1 /\ results[n].dst = Before(n)
    /\ ~HookSpeaks(n) /\ ~DecoderSpeaks(n) /\ ~EncoderSpeaks(n) => Reads(n, Given(n))

\* A hook that fails ends the conversion it was asked about when the limit is
\* met: its error is the only one and the destination is untouched.
FailedHookStops ==
  \A n \in {m \in Calls : Speaking(m) /\ HookFails(m)} :
    Limit = 1 => Paths(results[n].errs) = << << >> >> /\ results[n].dst = Before(n)

-----------------------------------------------------------------------------
(* Claims of the documentation the code does not keep; each is checked by  *)
(* a run of its own.                                                       *)

\* README.md: any other error of a hook aborts the conversion.
FailedHookAborts ==
  \A n \in {m \in Calls : Speaking(m) /\ HookFails(m)} :
    Len(results[n].errs) = 1 /\ results[n].dst = Before(n)

\* option.go: WithFailFast stops at the first error, so no user code runs on
\* behalf of the conversion after it.
NothingRunsAfterStop == [][stopped /\ stopped' => userCalls' = userCalls]_vars

\* metadata.go: Keys holds the path of every destination field that was
\* written, hence of none whose value could not be converted.
KeysWereWritten ==
  \A n \in FlatCalls : \A i \in Misfits(n) :
    FieldPaths(n)[i] \notin {results[n].meta.keys[k] : k \in DOMAIN results[n].meta.keys}

\* container.go toMap: a slice of maps is merged into one map.
SliceOfMapsMerges ==
  \A n \in Calls :
    Kind(Given(n)) = "slice" /\ Types[Into(n)].kind = "map" /\ Clean(n)
    => \A e \in DOMAIN Given(n).kids :
         LET m == Unwrap(Given(n).kids[e])
         IN  IsValid(m) /\ Kind(m) = "map" => DOMAIN m.kids \subseteq DOMAIN results[n].dst.kids

=============================================================================
