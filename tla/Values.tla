------------------------------- MODULE Values -------------------------------
(***************************************************************************)
(* The data a conversion works on, as reflect.Value shows it: types with a *)
(* kind, an element and a key type, and values of those types.             *)
(*                                                                         *)
(* A value is a record of four fields.                                     *)
(*   t     the name of its type                                            *)
(*   x     the text of a scalar (of an int: its canonical decimal text)    *)
(*   nil   TRUE of a nil pointer, map, slice or interface                  *)
(*   kids  what it holds: a sequence for a slice, an array, a pointer or    *)
(*         an interface (one element), a function on key texts for a map, a *)
(*         function on analysed field numbers for a struct                 *)
(* A struct value has no entry for a field behind a nil embedded pointer.  *)
(*                                                                         *)
(* The analysis of struct types (structinfo.go) is a parameter here: it is *)
(* computed once per type and only read by the conversions.                *)
(***************************************************************************)
EXTENDS Naturals, Sequences, FiniteSets

CONSTANTS
  Types,   \* type name -> [kind, elem, key, has, size]; size of an array
  Info,    \* struct type name -> [err, fields, remain], its structInfo
  Bytes,   \* text -> the texts of its bytes, which are its runes: all ASCII;
           \* a text it leaves out is a single one
  IntOf,   \* text -> canonical text of the integer ParseInt reads, or NaI
  Fold,    \* key text -> its normalized form
  NaI      \* marks a text that is not an integer

NilKinds == {"ptr", "map", "slice", "iface"}
Kinds    == NilKinds \union {"array", "struct", "string", "int", "other"}

\* Every type there is a name of exists, those the handlers name among them; a
\* map key is a text or a number; the one interface type is the empty one; what
\* reads itself is shown as a scalar.
ASSUME TypesAssumption ==
  /\ \A t \in DOMAIN Types :
       /\ Types[t].kind \in Kinds
       /\ Types[t].kind \in {"ptr", "slice", "array", "map"} => Types[t].elem \in DOMAIN Types
       /\ Types[t].kind = "map" =>
            Types[t].key \in DOMAIN Types /\ Types[Types[t].key].kind \in {"string", "int"}
       /\ Types[t].kind = "array" => Types[t].size \in Nat
       /\ Types[t].kind = "iface" => t = "any"
       /\ Types[t].has \intersect {"byte", "rune"} # {} => Types[t].kind = "int"
       /\ Types[t].has \intersect {"Decoder", "Text"} # {} => Types[t].kind \notin {"ptr", "iface", "array"}
  /\ {"any", "string", "byte", "mapStringAny", "sliceAny"} \subseteq DOMAIN Types
  /\ Types["any"].kind = "iface" /\ Types["string"].kind = "string" /\ Types["byte"].kind = "int"
  /\ Types["mapStringAny"].kind = "map" /\ Types["mapStringAny"].elem = "any"
  /\ Types["sliceAny"].kind = "slice" /\ Types["sliceAny"].elem = "any"
  /\ "invalid" \notin DOMAIN Types

\* The analysis of a struct type lists its fields, the remain field is one.
ASSUME InfoAssumption ==
  \A t \in DOMAIN Types : Types[t].kind = "struct" =>
    /\ t \in DOMAIN Info /\ Info[t].remain \in 0 .. Len(Info[t].fields)
    /\ Len(Info[t].fields) \in Nat /\ DOMAIN Info[t].fields = 1 .. Len(Info[t].fields)
    /\ \A i \in DOMAIN Info[t].fields : Info[t].fields[i].type \in DOMAIN Types

\* Two bounds of the model. An embedded pointer of an unexported type, which
\* cannot be allocated, is the only pointer on its paths; a remain field is at
\* most a pointer to what is no pointer.
ASSUME EmbeddedBound ==
  \A t \in DOMAIN Types : Types[t].kind = "struct" =>
    \A i \in DOMAIN Info[t].fields :
      ~Info[t].fields[i].alloc => \E p \in Info[t].fields[i].emb : Info[t].fields[i].emb = {p}
ASSUME RemainBound ==
  \A t \in DOMAIN Types : Types[t].kind = "struct" /\ Info[t].remain # 0 =>
    LET rt == Info[t].fields[Info[t].remain].type
    IN  Types[rt].kind = "ptr" => Types[Types[rt].elem].kind # "ptr"

ASSUME BytesAssumption ==
  \A x \in DOMAIN Bytes : Len(Bytes[x]) \in Nat /\ DOMAIN Bytes[x] = 1 .. Len(Bytes[x])

\* The types a value of type t holds by value, not through a pointer, and the
\* rule of Go that no type holds itself that way: among those that hold others
\* that hold others there is always one that holds none of them.
Within(t) ==
  CASE Types[t].kind = "array"  -> {Types[t].elem}
    [] Types[t].kind = "struct" ->
         LET fs == Info[t].fields
         IN  {fs[i].type : i \in {j \in DOMAIN fs : fs[j].emb = {}}}
    [] OTHER                    -> {}
Nesting == {t \in DOMAIN Types : \E u \in Within(t) : Within(u) # {}}

ASSUME ByValueAssumption ==
  \A S \in SUBSET Nesting : S # {} => \E t \in S : Within(t) \intersect S = {}

-----------------------------------------------------------------------------
(* Values and their shape.                                                 *)

Scalar(t, x)    == [t |-> t, x |-> x,  nil |-> FALSE, kids |-> << >>]
Nil(t)          == [t |-> t, x |-> "", nil |-> TRUE,  kids |-> << >>]
Holding(t, ks)  == [t |-> t, x |-> "", nil |-> FALSE, kids |-> ks]
NoValue         == Scalar("invalid", "")

IsValid(v) == v.t # "invalid"
Kind(v)    == Types[v.t].kind
Elem(t)    == Types[t].elem
IsList(v)  == Kind(v) \in {"slice", "array"}

\* What a value of each type is made of, one level down: what reflect sees to
\* when a value is stored in a slot.
IsListOf(ks, t) ==
  Len(ks) \in Nat /\ DOMAIN ks = 1 .. Len(ks) /\ \A n \in DOMAIN ks : ks[n].t = t
Shaped(v) ==
  /\ v.t \in DOMAIN Types /\ v.nil \in BOOLEAN
  /\ v = [t |-> v.t, x |-> v.x, nil |-> v.nil, kids |-> [k \in DOMAIN v.kids |-> v.kids[k]]]
  /\ Kind(v) = "iface"  => v.nil \/ DOMAIN v.kids = {1}
  /\ Kind(v) = "ptr"    => v.nil \/ DOMAIN v.kids = {1}
  /\ Kind(v) \in {"ptr", "map"} => \A k \in DOMAIN v.kids : v.kids[k].t = Elem(v.t)
  /\ Kind(v) = "slice"  => IsListOf(v.kids, Elem(v.t))
  /\ Kind(v) = "array"  => IsListOf(v.kids, Elem(v.t)) /\ Len(v.kids) = Types[v.t].size
  /\ Kind(v) = "struct" => \A i \in DOMAIN v.kids :
                             i \in DOMAIN Info[v.t].fields /\ v.kids[i].t = Info[v.t].fields[i].type

\* reflect.Zero of a type that holds nothing by value, and of any type: the
\* fields of a struct are zero in turn, except those an embedded pointer (nil in
\* a zero struct) makes unreachable.
Blank(t) ==
  CASE Types[t].kind \in NilKinds -> Nil(t)
    [] Types[t].kind = "int"      -> Scalar(t, "0")
    [] OTHER                      -> Scalar(t, "")
ZeroOf[t \in DOMAIN Types] ==
  IF Types[t].kind = "array"
  THEN Holding(t, [i \in 1 .. Types[t].size |-> ZeroOf[Elem(t)]])
  ELSE IF Types[t].kind = "struct"
  THEN LET fs == Info[t].fields
       IN  Holding(t, [i \in {j \in DOMAIN fs : fs[j].emb = {}} |-> ZeroOf[fs[i].type]])
  ELSE Blank(t)

\* unwrapIface: the dynamic value of an interface, nothing of a nil one.
Unwrap(v) ==
  IF IsValid(v) /\ Kind(v) = "iface"
  THEN IF v.nil THEN NoValue ELSE v.kids[1]
  ELSE v

\* Storing a value in a slot of the empty interface type.
Any(v) == IF Kind(v) = "iface" THEN v ELSE Holding("any", <<v>>)

IsNilLike(v)    == Kind(v) \in NilKinds /\ v.nil
IsEmptyValue(v) == ~IsValid(v) \/ v = ZeroOf[v.t]

\* What a chain of non-nil pointers (or of the kinds given) leads to; a chain
\* of the model is at most three long.
Target(v, kinds) ==
  LET Follows(w) == Kind(w) \in kinds /\ ~w.nil
  IN  IF ~Follows(v) THEN v
      ELSE IF ~Follows(v.kids[1]) THEN v.kids[1]
      ELSE IF ~Follows(v.kids[1].kids[1]) THEN v.kids[1].kids[1]
      ELSE v.kids[1].kids[1].kids[1]

\* derefOrZero: a nil pointer yields the zero value of its element.
DerefOrZero(v) ==
  LET w == Target(v, {"ptr"})
  IN  IF Kind(w) = "ptr" THEN ZeroOf[Elem(w.t)] ELSE w

-----------------------------------------------------------------------------
(* Scalars (cast.go), for the kinds int and string.                        *)

\* A list of bytes or runes spells a text.
OfLetters(t)     == Types[Elem(t)].has \intersect {"byte", "rune"} # {}
Letters(elem, x) ==
  LET bytes == IF x \in DOMAIN Bytes THEN Bytes[x] ELSE <<x>>
  IN  [n \in DOMAIN bytes |-> Scalar(elem, bytes[n])]
Spelled(v)       == CHOOSE x \in DOMAIN Bytes : Letters(Elem(v.t), x) = v.kids

\* stringify: a scalar by its text, through pointers and interfaces ("" when
\* one of them is nil); NoValue for anything that has no text.
Stringify(v) ==
  LET w == Target(v, {"ptr", "iface"})
  IN  CASE Kind(w) \in {"ptr", "iface"}  -> Scalar("string", "")
        [] Kind(w) \in {"int", "string"} -> Scalar("string", w.x)
        [] Kind(w) = "slice" /\ OfLetters(w.t) -> Scalar("string", Spelled(w))
        [] OTHER                         -> NoValue

\* toInt, toString: the converted scalar, or NoValue when the cast fails.
\* Strict typing refuses to cross between text and number.
CastToInt(v, dt, weak) ==
  CASE Kind(v) = "int" -> Scalar(dt, v.x)
    [] Kind(v) = "string" /\ weak /\ IntOf[v.x] # NaI -> Scalar(dt, IntOf[v.x])
    [] OTHER -> NoValue

CastToString(v, dt, weak) ==
  CASE Kind(v) = "string" -> Scalar(dt, v.x)
    [] Kind(v) # "string" /\ weak /\ IsValid(Stringify(v)) -> Scalar(dt, Stringify(v).x)
    [] OTHER -> NoValue

Cast(v, dt, weak) ==
  CASE Types[dt].kind = "int"    -> CastToInt(v, dt, weak)
    [] Types[dt].kind = "string" -> CastToString(v, dt, weak)
    [] OTHER                     -> NoValue

-----------------------------------------------------------------------------
(* The analysis of a struct type, as the conversions read it.              *)

Fields(t) == Info[t].fields
Named(t)  == DOMAIN Fields(t) \ {Info[t].remain}

\* structInfo.lookup: the exact name first, then the normalized one, where the
\* first declaration won the slot; 0 when no field claims the key.
Lookup(t, key, loose) ==
  LET exact  == {i \in Named(t) : Fields(t)[i].name = key}
      folded == {i \in Named(t) : Fold[Fields(t)[i].name] = Fold[key]}
  IN  IF exact # {} THEN CHOOSE i \in exact : TRUE
      ELSE IF loose /\ folded # {}
           THEN CHOOSE i \in folded : \A j \in folded : i <= j
           ELSE 0

ExactMatch(t, key) == \E i \in Named(t) : Fields(t)[i].name = key

\* fieldByIndexWrite: reaching field i of a struct value, allocating each nil
\* embedded pointer on the way to it, with everything that is behind no other.
CanReach(v, i) == i \in DOMAIN v.kids \/ Fields(v.t)[i].alloc
Reach(v, i) ==
  LET fs  == Fields(v.t)
      new == {j \in DOMAIN fs \ DOMAIN v.kids : fs[j].emb \subseteq fs[i].emb}
  IN  IF i \in DOMAIN v.kids THEN v
      ELSE [v EXCEPT !.kids = [j \in DOMAIN v.kids \union new |->
              IF j \in DOMAIN v.kids THEN v.kids[j] ELSE ZeroOf[fs[j].type]]]

\* needsGeneric: whether a value of type t must be rewritten in an empty
\* interface. Only the element chain is followed, no further than there are
\* types: a type met twice ends it.
Flattens(t) ==
  \/ Types[t].kind = "iface"
  \/ Types[t].kind = "map" /\ Types[Types[t].key].kind = "string"
  \/ Types[t].kind = "struct" /\ Fields(t) # << >>

NeedsGeneric(t) ==
  LET within[n \in 0 .. Cardinality(DOMAIN Types), u \in DOMAIN Types] ==
        \/ Flattens(u)
        \/ n > 0 /\ Types[u].kind \in {"ptr", "slice", "array", "map"} /\ within[n - 1, Elem(u)]
  IN  within[Cardinality(DOMAIN Types), t]

=============================================================================
