# gofret in TLA+

gofret converts Go values between shapes: maps to structs, structs to maps, structs to
other structs, through hooks, tags and weak or strict typing. It is a library without
threads or I/O of its own, so what can go wrong in it is of four kinds:

* a **recursive engine with shared mutable state**: one error list with a limit, one path,
  one weak flag and one `Metadata` are pushed, popped, raised and lowered by some fifty
  handlers that call each other and leave early in many places;
* **Go's random map order**, which must not be visible in what a caller gets;
* **two lock-free caches** in a `Codec` that any number of goroutines share;
* **rules that must fit each other**: which field a key belongs to, which number a value
  stands for, which words a name is made of, each worked out in one place of the code and
  relied on in another.

The modules here describe those four, TLC checks them on small types and values, and
TLAPS proves the central invariants for all of them.

## 1. Inventory

| component | source | state | operations | modelled |
|---|---|---|---|---|
| conversion engine | `convert.go` | one `state` per call: `errs`, `path`, `weak`, `meta`; the Go call stack | `convert`, `applyHooks`, `applyValueDecoder`, `applyValueEncoder`, `unmarshalText`, `dispatch` | `Convert`, `ConvState`, `Engine` |
| container handlers | `container.go` | the destination being filled | `toInterface`, `generic`, `needsGeneric`, `toPointer`, `toSlice`, `toArray`, `toMap`, `mapFromMap`, `ensureMap` | `Containers` |
| struct handlers | `struct.go` | matched values, unclaimed keys | `mapFromStruct`, `writeMapEntry`, `structFromMap`, `assignField`, `finishStruct`, `fillRemain`, `structFromStruct`, `finishStructPairs`, `eachField` | `Structs` |
| error list | `error.go` | `errs`, `stopped` | `add`, `Errors` | `ConvState`, against `ErrorReport` |
| metadata | `metadata.go` | `Keys`, `Unused`, `Unset` | `recordKey`, `recordUnused`, `recordUnset`, `Reset` | `ConvState` |
| codec and caches | `codec.go`, parts of `structinfo.go` and `container.go` | `cache`, `generics` (`sync.Map`) | `To`, `ToInto`, `ToIntoMeta`, `structInfoOf`, `needsGeneric` | `Engine`, `CodecCache`, against `Memo` |
| struct analysis | `structinfo.go` | `level`, `next`, `expanded`, `Fields`, `byName`, `byNorm` | `analyze`, `analyzeField`, `addField`, `lookupTag`, `keyName`, `lookup`, `fieldByIndexRead`, `fieldByIndexWrite` | `StructInfo`, against `Promotion`; the reading side in `Values` |
| scalar casts | `cast.go` | none | `toBool`, `toInt`, `toUint`, `toFloat`, `toComplex`, `toString`, `stringify`, `selfText` | `Casts`; int and string in `Values` for the engine |
| options | `option.go` | `config` | `With...` | fields of a scenario's `cfg` |
| hooks | `hook.go` | none | `HookBetween`, `coerce`, `HookCtx.Convert` | firing and outcome, in `Convert` |
| built-in hooks | `builtin.go` | none | parsers of times, durations, addresses | no |
| tag parsing | `tag.go` | none | `parseTag` | `StructInfo` |
| key functions | `keyfunc.go` | the scan of `splitWords` | `splitWords`, `joinWords`, `title`, `SnakeCase`, `KebabCase`, `CamelCase`, `PascalCase`, `LowerCase`, `LooseKey`, `FoldKey` | `Words`, `Keys` |

### How they interact

`Codec.run` builds a fresh `state` and calls `convert` on the root. `convert` offers the
value to the hooks, then to a `ValueDecoder` destination, a `ValueEncoder` source and a
`TextUnmarshaler` destination, each of which may answer, decline, fail or yield nil;
`dispatch` then selects a handler by the kind of the destination. Handlers call `convert`
again for every element, entry or field, around a push and a pop of `path`. `fail` appends
to the one error list; once its limit is met (`WithFailFast`, `WithMaxErrors`) the list is
closed and the handlers are expected to unwind. Struct handlers ask the codec for the
analysis of a type (`structInfoOf`), the generic form for one more bit per type
(`needsGeneric`); both answers are cached in `sync.Map`s, without locks.

### What is hard, and what makes each part correct

* **Unwinding.** Each handler has several ways out, some of them with a path segment
  pushed or the weak flag raised. *Correct:* the path is as deep on return as on entry; the
  weak flag lasts exactly as long as the `string` field that raised it; nothing is dropped
  or reported twice when the limit cuts a loop.
* **Partial failure.** A field fails and the rest goes on. *Correct:* every failure up to
  the limit is reported at its own path, in field order; every other field has its value;
  the metadata accounts for each field and key once.
* **Map order.** *Correct:* same input, same content, failures and metadata; an exactly
  named key beats one that folds to the field, in either order.
* **Merging.** Destinations are filled, not replaced, and stored although a part failed.
  *Correct:* the same input twice is the same as once; leftovers neither stay nor pile up; a
  failed element keeps what was there and spoils no other.
* **Options on the way out and in.** *Correct:* what goes out through `omitempty`, `string`,
  `remain` or embedded pointers comes back the same, and so does what goes out through
  `deref` unless it is a nil pointer, which comes back as one to zero (section 4); the shortcut
  from struct to struct ends where the way through a map ends; a remain field loses no key.
* **User code.** *Correct:* a hook beats the codec methods, the decoder beats the encoder,
  whoever answered is the only one to be asked.
* **The analysis.** Types inline each other, themselves, or one type by two ways, each is
  expanded once, keys clash, tags are bad. *Correct:* a key belongs to the shallowest and
  then first of all fields that could have it; every bad tag is reported, once; the walk ends.
* **Numbers.** Two widths, two signs, two modes, and checks, masks and conversions in an
  order of their own. *Correct:* strict typing stores the number itself or refuses it; weak
  typing cuts and wraps as documented and otherwise agrees; a text written is read back.
* **Names.** Words are found by looking one rune back and one ahead; keys are made by one
  function and matched by another. *Correct:* no rune is lost, a word is a word; what a
  style makes of a name is found under the name, and is made of the same words.
* **The caches.** *Correct:* a question has one answer for everybody and for ever, although
  goroutines work it out concurrently and the client's key function may not even be
  deterministic; nobody waits for anybody.

## 2. Modules

```
Values ── ConvState ─┬─ Convert ────┐
                     ├─ Containers ─┼─ Engine ─┬─ Promises ── MCContainers, MCClaims, MCErrors ── MCStructs
                     └─ Structs ────┘          └─ EngineProofs ─┬─ PipelineProofs (with Promises) ─┬─ FlatProofs
                                                                └─ TypeProofs ─────────────────────┘
ErrorReport  (abstract, implemented by Engine)
MCTypes ── MCData (types and values of the engine's runs)
StructInfo ── Promotion (abstract rule) ─┬─ MCStructInfo (with MCTypes and Values)
                                         └─ StructInfoProofs
Words ── Keys ── MCKeys, WordsProofs
Casts ── MCCasts, CastsProofs
CodecCache ── CodecCacheProofs, MCCodecCache
Memo         (abstract, implemented by CodecCache)
```

**Values** is the data: a type is `[kind, elem, key, has, size]`, a value `[t, x, nil, kids]`, a
tree. `IntOf` (what `ParseInt` makes of a text), `Bytes` (how it is spelled) and `Fold` (the
key normalizer) are constants, as is `Info`, what `analyze` makes of a struct type. `Shaped`
says what reflection sees to: that a value is made of values of the types its own type
names. Operators keep the names of the source: `Lookup`, `ZeroOf`, `Unwrap`, `NeedsGeneric`,
`Stringify`, `CastToInt`.

**ConvState** is `type state` with a call stack. Every running Go function that calls back
into `convert` is a *frame*; its locals are the frame's fields, its program counter is `op`.
The frame on top acts: it becomes something else (`Become`), calls a child (`Call`), or
returns the content of its destination (`Return`). A function and the straight-line code up
to its next call of `convert` is one action, so every early return is a disjunct of the
action it is in. In-place mutation of a destination is modelled by returning its new
content, also on the paths that fail half way.

**Convert**, **Containers**, **Structs** have one action per function or loop turn, in the
order of the source file. Go's map iteration is `\E k \in todo`: any order.

**Engine** composes them into a session: the calls of a plan made one after the other on
one codec (a later call may read the result of an earlier one, or be given its
destination). The constant `Inputs` is every value a client or a hook puts in, with its
parts. `EngineProofs` and `TypeProofs` are about this module, `PipelineProofs` and `FlatProofs`
about it and `Promises`.

**Promises** states what a caller is promised about finished calls. It never looks at the
engine's steps: a reference for flat maps into structs says of each field, on its own, what
must be written, reported and recorded, and the other promises relate two or three calls.

**CodecCache** is `structInfoOf` and `needsGeneric` cut at every access of a `sync.Map`
(external: `Load`, `Store`, `LoadOrStore` are atomic). `Analyses` gives the outcomes
`analyze` may have, more than one when the client's `KeyFunc` is not a function; it may also
panic. `Memo` is what this must look like from outside.

**StructInfo** is `analyze`: a turn of its inner loop is one action, chosen by what
`analyzeField` and `parseTag` say of the field (it fails, is skipped, is replaced by the
fields of its type, or claims a key). A *world* is what reflection shows of a set of types,
with the options that matter here; a tag is the sequence of its comma-separated parts.
`View` says what an index path leads through, as `fieldByIndexWrite` finds it. **Promotion**
states the result on the types alone: all places a type is inlined at, and the foremost
field among those that want a key. **MCStructInfo** also holds declarations for every
struct of the engine's runs: `IsMCInfo` shows that the constant `Info` those runs start
from, and what `Lookup` finds in it, are what `analyze` and `lookup` make of them.

**Casts** has one action per handler of `cast.go`. Numbers are exact, a float is twice its
value in a format of so many bits of significand, and rounding is to nearest, ties to even.
A text is the number it writes and how it writes it, which is all `strconv` looks at. What
Go leaves open, the integer a float out of range becomes, is the variable `build`, fixed
for a run as it is for a machine. A history is a value converted twice, or a result
converted on. `toScalar` is reached after `dispatch` has copied values of identical type;
the handlers, given those, do the same, so the model calls them on those as well.

**Words** is `splitWords` over classes of runes, one action per way through its loop.
**Keys** writes the words it finds in a style and splits the result again; `SnakeCase` and
`KebabCase` differ in a rune of one class, and `FoldKey` and `LowerCase` in nothing.

## 3. Runs

Each run enumerates its sessions in `MCScenarios`; TLC explores every map order in each.

| run | question | properties |
|---|---|---|
| containers | 31 sources against 30 destinations, fresh and filled, every input twice, and every list to a slice and to an array; hooks and codec methods that answer, fail, yield nil or decline, at the root and inside containers | `TypeOK`, `PathBalanced`, `Idempotent`, `ArrayHoldsList`, `FillsEveryElement`, `PrecedenceKept`, `FailedHookStops`, `ReportsErrors` |
| structs | maps with good, bad, nil, missing and unclaimed entries into a filled struct, both typing modes, limits none, 1, 2 and fail-fast; exact, folded and unclaimed keys, twice; there and back through a remain field; lists of maps; structs with every tag option, embedded pointers nil at either of two depths and six kinds of remain maps, to maps and back under four configurations, and to other structs both ways; texts spelled out and back | `ReportsEveryMisfit`, `FillsEveryField`, `AccountsForEverything`, `UnusedIsAnError`, `SameAnswer`, `NothingLost`, `SliceOfMapsMerges`, `WeakScoped`, `RoundTrip`, `SameRoute`, `Termination` |
| struct_info | three types that inline each other, themselves or one type twice, with clashing keys, bad tags and remain fields; two types under all 48 combinations of options; the declarations of the engine's runs | `NoneForgotten`, `InOrder`, `Promoted`, `ReportsEveryBadTag`, `IsMCInfo`, `Termination` |
| casts | 111 scalars of every kind to 11 types in both modes, two calls | `IntegersByMode`, `FloatsFaithful`, `WeakExtendsStrict`, `RoundTrip` |
| key_functions | all texts of up to five runes, split, written in a style, split again, twice | `Partition`, `WordsAreWords`, `LooseMatches`, `JoinedKeepsWords`, `CapitalsKeepWords`, `Termination` |
| codec_cache | three goroutines, two struct types, one of which analyses two ways | `TypeOK`, `CachesAgree`, `Settled`, `IsMemo`, `EveryCallEnds` |

**Bounds.** Maps have at most three keys, lists and arrays three elements, structs four fields, type
nesting three levels; the error limit goes from 1 to 2 with up to three possible failures,
so it is met before, at and after the last of them. Three keys are what a clash (exact,
folded, and a bystander) needs, and one nested level of each kind is what a wrong pop or an
unrestored flag needs to show; the handlers look at no more than one element at a time.
Three goroutines give the cache a winner, a loser and a late reader. `Target`, which follows
pointers, is cut at chains of three and `PartsOf`, which takes a value apart, at six levels; no type
or value of a run is deeper. Embedded pointers may be behind each other to any depth, but one
that cannot be allocated (of an unexported type) is alone on its path (`EmbeddedBound`): the code
would allocate those before it and then fail. A remain field is at most one pointer away
from its map (`RemainBound`).

Three struct types are what a diamond, a cycle and a type reached at two depths need; a
key clash needs no more. Integers of 6 and 4 bits stand for 64 and 32: what the handlers do
depends on the order of the limits of the wide, the narrow and the float type, and that is
the order of Go's. `float64` (4 bits of significand here) reaches beyond `uint64`, has every
`int32` and `uint32`, and rounds the largest `int64` and `uint64` up by one, so both limits a
float is compared with are wrong in the run as they are in the code; `float32` (2 bits) does not
tell all of `int32` apart. Five runes give
`splitWords` an acronym, the word after it and a separator, or a letter, digits and a
letter; it looks at no more than three runes at once.

**Preconditions of the promises.** Those of the last group speak of sessions without hooks and
without codec methods.

* `SameAnswer` is checked on inputs with at most one unclaimed key and an exact name in every
  clash: beyond that the code does not keep it (`unused_order`, and what follows the table of section 4). The four
  promises about flat calls leave out two folded keys too (`FlatField`).
* `AccountsForEverything` says of a field whose value failed that it is in `Keys`, which is what the
  code does and not what is documented (`keys_written`).
* `SliceOfMapsMerges` is checked without `WithZeroFields` (`merge_zero`).
* `ArrayHoldsList` leaves out texts, which weak typing puts into an array byte by byte, and speaks
  of lists that a slice takes without an error. `FillsEveryElement` is about the others, for
  elements that are scalars.
* `FailedHookStops` is the part of the documented promise that holds: with a limit of one.
* `Idempotent`, `RoundTrip`, `NothingLost` and `SameRoute` speak of calls that reported nothing;
  a struct with a `string` option on a field that has no text (`Outer`, `Self`) therefore
  only shows that it is refused.
* `RoundTrip` leaves out nil pointers that go out through `deref` (`NilsStay`,
  section 4) and three things no map can carry (`Survives`): a text rendered of what
  is no scalar, such as a nil pointer under `string`; a struct, a typed map or a nil slice in an
  empty interface without `keep`, as it goes out in the generic form; a remain map without a
  key, with the key of a field, or with a nil under `WithOmitNil`. The run holds values of
  each but the first. `SameRoute` leaves out the same, and sources of which two names claim one
  field of the destination: the shortcut takes the last of them (`struct.go:385`), while
  from a map the exact name wins.
* `NothingLost` speaks of scalar fields without options; of several keys for one field it follows the
  one that is taken.
* `IntegersByMode` leaves out the floats `strict_lossy` is about (`Unguarded`).
  `FloatsFaithful` does not say that a float is the nearest: it is rounded twice.
* `LooseMatches` leaves out names with a dot, which the key functions drop and `LooseKey` keeps, and
  letters whose capital has another small letter; `CapitalsKeepWords` speaks of words that a
  capital can mark (two letters or more, digits that do not touch).

**Fairness.** A session runs in one goroutine; `WF_vars(Next)` says the Go scheduler does
not suspend it for ever, and nothing more: which key a map iteration visits next is never
assumed. `Termination` is checked under it, and so are those of `StructInfo` and `Words`,
where a goroutine in the middle of `analyze` or `splitWords` goes on with it; that somebody
calls `splitWords` again (`Render`) is not fair. In `CodecCache` every goroutine in the middle of
a call goes on with it (`WF_vars(Step(g))`); starting a call and panicking are not fair.

**Deadlock** is checked in every run of the engine, the analysis and the caches; what is
finished rests (`Rest`). The histories of `casts` and `key_functions` stop at their bound.

## 4. Where documentation and code disagree

Each of these is a run in which TLC finds the documented property violated; the session is
the smallest that shows it.

| run | documentation | code |
|---|---|---|
| hook_aborts | a hook's error "aborts the conversion" (`README.md:109`, `hook.go:55`, `hook_test.go:62`) | unless the limit is met, the value goes on to the built-in conversion (`convert.go:232`) |
| unused_order | the same input always reports the same thing, "the same holds for `Metadata`" (`README.md:176`, `doc.go:88`) | unused keys are recorded in map order (`struct.go:214`) |
| keys_written | `Keys` holds "every destination field that was written" (`metadata.go:6`, `README.md:193`) | the key of a field is recorded whether or not its value converted (`struct.go:257`) |
| fail_fast | `WithFailFast` "stops at the first error" (`option.go:159`) | after a failed map key its element is still converted, and `generic`'s loop goes on (`container.go:423`) |
| merge_zero | "A slice of maps is merged into one map" (`container.go:366`) | with `WithZeroFields` each element makes a new map (`container.go:385`) |
| strict_lossy | `WithStrictTypes`: "only conversions that cannot lose information are performed" (`option.go:108`, `README.md:65`) | a float one above the largest integer passes the check, as that limit is rounded up for the comparison, and another number is stored (`cast.go:98`, `cast.go:195`) |

Not run, but met while modelling:

* `hook.go:165` says a `ValueDecoder` "is consulted before the hooks and before the built-in
  conversion" (`hook.go:157` of a `ValueEncoder`). The hooks come first, and a value one of them
  took is shown to neither (`convert.go:101`): `PrecedenceKept` states the order of the code.
* A nil pointer under `deref` goes out as zero, as `doc.go:47` says, and comes back as a pointer
  to zero (`struct.go:125`); `doc.go:15` and `roundtrip_test.go:11` say that converting a
  value to a map and back returns it unchanged, without exception. `RoundTrip` makes it one.
* Of two keys that fold to one field, neither its name, the one visited first is kept
  (`struct.go:223`), where `structinfo.go:51` says a clash is settled "without depending on
  map iteration order".
* Under strict typing an integer beyond 2^53 and a `float64` given to a `float32` are
  rounded (`cast.go:264`, `cast.go:311`).
* Weak typing lifts a text into a slice of anything as its one element, but fills an array
  of anything with its bytes: `"80"` is `[80]` as `[]int` and `[56, 48]` as `[2]int`
  (`container.go:302`).
* `stringify` asserts `[]rune` where it has only looked at the kind of the element: a slice
  of a defined rune type panics (`cast.go:476`).
* `SnakeCase(PascalCase("a_b"))` is `ab`: capitals cannot keep words of one letter apart, so
  the styles agree on the words only of names without such.
* Filling a map destination reports failures in map order (`container.go:406`). Nothing
  promises an order there, but with a limit the set of failures seen depends on it.
* From struct to struct, of two names that claim one field (a field and an entry of the remain
  map, say) the last one wins, exact or not (`struct.go:385`).
* A remain or inlined field behind an unexported name panics in `reflect` (`struct.go:428`).

## 5. Proofs

TLAPS proves the following for every value of the constants: any types and analyses, any
configuration, any sessions; any widths and scalars; any goroutines; any struct declarations;
any text.

| theorem | states | module |
|---|---|---|
| `PathAlwaysBalanced` | `Spec => []PathBalanced` | `EngineProofs` |
| `WeakAlwaysScoped` | `Spec => []WeakScoped` | `EngineProofs` |
| `StateIsTyped` | `Spec => []StateOK` | `EngineProofs` |
| `StoppedMeansLimit` | the stop flag is up exactly when the limit is met | `EngineProofs` |
| `ImplementsErrorReport` | the engine implements `ErrorReport` | `EngineProofs` |
| `TypesAlwaysRight` | `Spec => []TypeOK` | `TypeProofs` |
| `PrecedenceAlwaysKept` | `Spec => []PrecedenceKept` | `PipelineProofs` |
| `FailedHookAlwaysStops` | `Spec => []FailedHookStops` | `PipelineProofs` |
| `FieldsAlwaysFilled` | `Spec => []FillsEveryField` | `FlatProofs` |
| `MisfitsAlwaysReported` | `Spec => []ReportsEveryMisfit` | `FlatProofs` |
| `UnusedAlwaysAnError` | `Spec => []UnusedIsAnError` | `FlatProofs` |
| `AlwaysAccountsForEverything` | `Spec => []AccountsForEverything` | `FlatProofs` |
| `FlatCallsAgree` | two flat calls given the same have the same answer | `FlatProofs` |
| `AgainChangesNothing` | a struct given the same map again keeps its fields, and the call says the same | `FlatProofs` |
| `StrictIsPartOfWeak` | `Spec => []WeakExtendsStrict` | `CastsProofs` |
| `IntegersFollowTheMode` | `Spec => []IntegersByMode` | `CastsProofs` |
| `FloatsAreFaithful` | `Spec => []FloatsFaithful` | `CastsProofs` |
| `TextsReadBack` | `Spec => []RoundTrip` | `CastsProofs` |
| `TypeCorrect` | `Spec => []TypeOK` | `StructInfoProofs` |
| `FieldsInOrder` | `Spec => []InOrder` | `StructInfoProofs` |
| `AllSettled` | `Spec => []NoneForgotten` | `StructInfoProofs` |
| `ForemostEverywhere` | a finished analysis settles every field wherever inlined types lead to it | `StructInfoProofs` |
| `AlwaysPromoted` | `Spec => []Promoted` | `StructInfoProofs` |
| `EveryBadTagReported` | `Spec => []ReportsEveryBadTag` | `StructInfoProofs` |
| `SplitsInside` | `Spec => []TypeOK` | `WordsProofs` |
| `LosesNoRune` | `Spec => []Partition` | `WordsProofs` |
| `SplitsIntoWords` | `Spec => []WordsAreWords` | `WordsProofs` |
| `OneCutting` | a text can be cut into words in one way only | `WordsProofs` |
| `KeysSplitToo` | `KeysSpec => [](Partition /\ WordsAreWords)` | `WordsProofs` |
| `KeyAlwaysFound` | `KeysSpec => []LooseMatches` | `WordsProofs` |
| `JoinedComesBack` | `KeysSpec => []JoinedKeepsWords` | `WordsProofs` |
| `CapitalsComeBack` | `KeysSpec => []CapitalsKeepWords` | `WordsProofs` |
| `TypeCorrect` | `Spec => []TypeOK` | `CodecCacheProofs` |
| `CachesAlwaysAgree` | `Spec => []CachesAgree` | `CodecCacheProofs` |
| `AnswersAreFinal` | `Spec => [][...]` : no entry of a cache ever changes | `CodecCacheProofs` |
| `ImplementsMemo` | `CodecCache` implements `Memo` | `CodecCacheProofs` |

**Assumptions.** `ScenariosAssumption`: an error limit is a natural number, the options are
flags, hooks and plan are lists, a call of a plan reads and fills what earlier calls left or
what the client puts in, a destination it hands on is of the type of the call, and
user code does one of the things the interfaces let it do. `TypesAssumption`: every type has a
kind, every type there is a name of exists, those the handlers name among them, and `"invalid"`
is none; map keys are strings or ints; the one interface type is the empty one, and what
reads itself (`Decoder`, `Text`) is neither pointer nor array: what the model leaves
out of Go's types (section 6). `InfoAssumption`: an analysis lists fields of existing types,
and its remain field, if any, is one of them. `BytesAssumption`: spelling a text gives a
sequence. `ByValueAssumption`: no type holds itself by value, in fields and
array elements; the Go compiler refuses one that does. `InputsAssumption` of `Engine`: what
is put in is a Go value (`Shaped`) at every depth. `WidthsAssumption`: the widest float has fewer bits of significand than the widest
integer has bits, no format has more, and the largest number of each, beyond all integers, is
one of its own. `ValuesAssumption`: a scalar fits its type, and a machine turns a float out of
range into some integer. `CacheAssumption`: a type that ends in a struct names that
struct, and whether a struct has any field does not depend on which run of `analyze` was
asked (names depend on the client's key functions, the presence of a field only on the type;
`needsGeneric` looks at nothing else). `WorldsAssumption`: the root is a type,
there are finitely many types, and the fields of a type are a sequence. `InputsAssumption` of `Words`: the texts are sequences
of the known classes of runes. `CastsAssumption`, on the bounds of `Casts`: there is an integer width. TLC
evaluates each in every run of its module.

**The path and the weak flag.** Neither `PathBalanced` nor `WeakScoped` is inductive: that a
handler pops at its end is of use only if it pushed, and that it restores the flag only if
it was the one that raised it. `Inv` of `EngineProofs` makes the stack say so: the depth at
which a function was entered (`at`) is the depth its caller has while it waits, one more
when the caller is at one of the ten places (`Pushing`) where a segment of its own is
pushed; at most one frame has raised the flag, it is an assignment of a field, and no
frame has if the codec is weak anyway; `run` is only ever the bottom frame. Nine lemmas
(`Turn`, `TurnPush`, `CallPush`, `EndPop`, ...) say that the moves handlers are made of keep
`Inv`; each action is then shown to be such a move on every one of its branches,
and `assignField`, the only one to touch the flag, is done by hand.

**The error list.** Each action adds one error through `add`, adds none, or starts a call
(`ErrorStep`); so the list is a sequence and `stopped` is up exactly when the limit is met
(`ErrInv`), from which each step is a step of `ErrorReport`: a list that only grows while a
call runs, is never longer than the limit, and starts over with the next call.

**The types.** `TypeOK` says that the destination a function holds has the type it is for, and
what is in it the types of its elements, entries or fields. That is not inductive: a
destination is put together from parts of the source, from zero values and from what
conversions returned, so all of these must be right at every depth (`WellTyped`: in some set
of values that are shaped and closed under parts), and a function that waits must find in `ret` what it asked
for. `TypedInv` says so of each frame, by operation (`FrameTyped`), and of each call between
two of them (`Accepts`, `RetType`). A handler goes on, calls or returns; `TypedStep` says
that it does so with well-typed values, `StepTyped` that `TypedInv` then holds again, and
one lemma per handler (`ToSliceTyped`, `AssignTyped`, ...) that each of its ways out is such a
step: the generic form, which works with `any` where the caller wanted a type, and the struct
walks, which store into embedded pointers, are where it could go wrong. The zero values need an
argument of their own (`ZeroExists`): `ZeroOf` is defined by recursion over types, and is a
function at all only because no type holds itself by value. In place of an induction over
types, the lemma takes, of the types that have no zero value, one that holds none of the
others, and gives it one.

**The pipeline.** A promise about a finished call says nothing of the steps that keep it, so
`PipelineInv` carries it through the call: the one frame above `run` is at a stage of the
pipeline (`Stage`), and whoever has spoken before that stage leaves one value to be read
(`Word`); from there the call owes exactly what `Owed` says, whatever it returns. What the
promise reads, the inputs of a call, is what earlier calls left behind, and no later call
takes that away (`InputsStay`). One lemma per stage (`HooksAsked`, `DecoderAsked`, ...).
`PrecedenceKept` speaks of hooks that answer no pointer: one would be followed first.

**Flat calls.** The promises about a map read into a struct are proved for the calls `Flattish`
describes: there are no hooks, the named fields are scalars that can be set and no codec method
speaks for, and of two keys that claim one field one has its name. The struct and the map may be of any size, and there may be
a remain field of any type. The reference knows no order; the code has three (the walk over the
map, the walk over the fields, the leftovers), a limit that may cut each, and calls of `convert`
in between. `FlatInv` says which phase the call is in (`Now`: on its way through the pipeline,
matching, assigning, casting a field, back from it, finishing, in the remain field, over) and what
is settled by then: while keys are matched, each field met so far has a value that only an exact
name can still replace; while fields are assigned, exactly those before the current one hold what
they will hold, with their failures and keys as the only entries; from the remain field on,
nothing changes but what is below it. One lemma per action shows that it leads to the next
phase. That an entry of a list is the failure of one field and no other rests on
`Lists`, an order-preserving numbering of a set of fields, which each step extends by one or
not at all. The conversion of the remain field may be anything, with calls of its own: all that is
used is that the path is as long as it was and what it appends lies below it, from the invariant of
the stack.
`FlatCallsAgree` and `AgainChangesNothing` draw the conclusions the reference was written for.
None of the four promises mentions the order of the keys, and two lists of the same set are one
list (`ListsOne`). So two such calls that give one map to one struct, or the second to the struct the first
has filled, agree in their fields, in whether a left over key is an error and, without a remain field, in
their failures and their metadata, whatever order each walked the map in and whether or
not the limit cut them; of the unused keys only in which they are, which is what `unused_order` is about.

**The casts.** Each history is a list of calls that any of the eight handlers may have added
to, so the invariants are about single calls: `Sound` says of one call that the result, if
there is one, fits its type and is what the mode says it is, one lemma per handler. What the
two modes have to do with each other, and a text with the value read back from it, follows
from pairs of such calls. The handlers compare a float with a limit that is itself rounded;
they are right because rounding moves to the nearest number that fits and keeps every one
that does (the first part of `CastsProofs`), so it carries none across a limit. That one more bit is twice as
much, an induction over the definition of the power, is shown by counting subsets.

**The caches.** `CachesAgree` alone is not inductive: `needsGeneric` stores an answer it
worked out some steps ago. `HoldsTheCached` says what that answer rests on: a goroutine
about to store holds the very analysis that is in the cache, its own or, having lost the
race, the winner's. `LoadOrStore` never replaces an entry, so it stays so.

**The analysis.** The order of the fields is not inductive: that the next field found comes
after all others rests on the order of the queue, and on the depth of what is in it.
`WalkInv` says that a level is of one depth and the next of the depth below, both in the
order of their index paths, everything kept before everything queued, and every queued type
expanded at the path it is queued with. `AnalysisInv` adds what has become of the fields
already passed (`Settled`): its key, its expansion or its error, or a field no deeper and no
later in its place; no step undoes that, as the indexes, the expansions and the errors only
grow (`StepGrows`). `ForemostEverywhere` then leaves the steps: if some path of inlined
fields led to a type not expanded by a path at least as good, so would the path without its
last field (`StrayBefore`), and the shortest such path has none.

That says that no key goes to a wrong field. `AlwaysPromoted` and `EveryBadTagReported` say
exactly who gets it and what is reported, and need the converse: nothing is kept, queued or
reported without a reason in the types. `FoundInv` is that: a type was expanded as the root
or where a field of another expanded type inlines it, a kept field is a declared one that
claims its key, a reported one is faulty and lies behind the walk, so it is never reported
again. `Promotion` compares with the places inlined types lead to, a set defined by recursion
over depth down to the number of types. `OccursIs` shows that these are the paths of that
length or less: the paths solve the recursion, and two solutions could not differ at a least
depth. That the walk stays within that depth is a matter of counting: it expanded a
type at every depth above the deepest (`PlaceShallow`), and no type twice.

**The words.** What `splitWords` returns are words because the open one is at every step
(`Open`): it is one as far as it goes, and is no continuation of the one it touches.
`StartsApart` and `ExtendsWord` are the two halves: where the code starts a word, the word
before would not be one with that rune; where it starts none, the open one still is.

**The keys.** A key is a text put together of words, and `splitWords` finds words in a text; that the
one undoes the other is not a matter of the scan at all. `SameWords` shows that a text can be cut
in one way (`OneCutting`): of two cuttings that agree up to a word, neither can end that
word earlier than the other, as what is left would have to be a word that
touches it and could not have been one with it. So it is enough that the places where a style
puts the words are a cutting of the text it writes (`WrittenLies`, `LiesCuts`): a separator,
or a capital that follows a small letter or digit, stands where each word begins. `KeyAlwaysFound`
follows the text instead: `LooseKey` reads rune by rune and every style writes piece by piece, so what
is read of the whole is what is read of its words, one after the other (`LooseFlat`), and of a
word no style changes anything that `LooseKey` sees (`StyleKeeps`). Texts are joined by a fold of the library,
defined by recursion; `FlattenUnrolls` solves that recursion by its least exception, as it is done for
the zero values.

`TypeOK` of `Words` is proved (`SplitsInside`) and not run: a scan outside the text is an
error of TLC in any case.

### Only model-checked

* `Termination` and `EveryCallEnds`: liveness under fairness.
* `IsMCInfo`: it is about the declarations of the runs, one by one.
* `SameAnswer` and `Idempotent` beyond flat calls, for fields that are structs, maps and lists.
* `ArrayHoldsList`, `FillsEveryElement`, `SliceOfMapsMerges`, `RoundTrip`, `NothingLost` and `SameRoute`:
  they relate whole results of two or three calls over values of any depth, so their proofs
  would be inductions over values, which these provers cannot do.
* `HoldsTheCached`, the stack invariant, `TypedInv` and `FlatInv` are stated for the proofs; TLC
  checks what follows from them.

## 6. Not modelled

* **Interfaces with methods**, channels and functions as destinations: which values may be
  assigned to them is a matter of Go's type system. A text is spelled in ASCII, where a rune
  is a byte.
* **In key functions**: a small letter without a capital of one rune (such as the sharp s) is in
  the class of those with one; no property looks at it.
* **In casts**: a string made of runes, the order in which a type is asked for the
  interfaces it renders itself by, text forms of numbers other than plain, octal and with an
  exponent. A negative zero is zero.
* **Option setters**, which assign one field of `config` each.
* **Sharing of memory** between source and destination: values are trees without addresses.
* **Values that contain themselves**: the engine would not end; every value of a run is finite.
* **Panics**, in `reflect` or in user code, other than in `analyze`.
* **Built-in hooks**: parsers of external formats. Of hooks in general only what `applyHooks`
  sees: a pair of types, and whether it answers, fails, yields nil or declines. A hook that
  converts by calling back into the engine is not in the model.
* **Wording of errors** and the flattening of joined ones.

## 7. Plan

The engine came first, as everything else is read through it; then the caches; then the
parts the engine is built on: the analysis, the casts, the words and keys. What is left:

1. Interfaces with methods; hooks that call back into the engine.
2. `Sharing`: a heap of addresses, to say which destinations alias their source
   (`container.go:186`) and what a later merge does to it.
3. Widths in the engine: `Cast` of `Values` as an instance of `Casts`.
4. Proofs: flat calls from struct to struct, by the same phases as from a map; the promises about
   lists, for elements that are scalars.
