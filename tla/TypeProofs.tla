------------------------------ MODULE TypeProofs ------------------------------
(***************************************************************************)
(* Every value the engine builds is well typed: Spec => []TypeOK, for      *)
(* every set of types, every configuration and every session.              *)
(*                                                                         *)
(* TypeOK looks at the destination a running function holds, one level     *)
(* down; that is not inductive.  A destination is put together from parts  *)
(* of the source, of the zero values and of what conversions returned, so  *)
(* all of these must be well typed at every depth (WellTyped), and a       *)
(* function that waits must find in ret what it asked for.  TypedInv says  *)
(* so of every frame on the stack (FrameTyped, by operation) and of every  *)
(* call between two of them (Accepts).                                     *)
(*                                                                         *)
(* A step of a handler goes on, calls or returns; TypedStep says that it   *)
(* does so with well-typed frames and values, and StepTyped that TypedInv  *)
(* then still holds.  What is left is one lemma per handler.  The zero     *)
(* values need an argument of their own: ZeroOf is recursive, and exists   *)
(* because no type holds itself by value (ByValueAssumption).              *)
(***************************************************************************)
EXTENDS EngineProofs, FiniteSetTheorems

-----------------------------------------------------------------------------
(* Well-typed values.                                                      *)

\* Shaped, and so is all it holds, however deep.
Closed(V)    == \A w \in V : Shaped(w) /\ \A k \in DOMAIN w.kids : w.kids[k] \in V
WellTyped(v) == \E V : v \in V /\ Closed(V)

IsFun(f) == f = [k \in DOMAIN f |-> f[k]]

\* A well-typed value has the shape of its type.
LEMMA TypedIsShaped == ASSUME NEW v, WellTyped(v) PROVE Shaped(v)
BY DEF WellTyped, Closed

\* What a well-typed value holds is well typed.
LEMMA PartTyped ==
  ASSUME NEW v, WellTyped(v), NEW k \in DOMAIN v.kids
  PROVE  WellTyped(v.kids[k])
BY DEF WellTyped, Closed

\* A value that is shaped and holds well-typed values is well typed.
LEMMA WholeTyped ==
  ASSUME NEW v, Shaped(v), \A k \in DOMAIN v.kids : WellTyped(v.kids[k])
  PROVE  WellTyped(v)
<1> DEFINE In(w) == CHOOSE V : w \in V /\ Closed(V)
           W     == UNION {In(v.kids[k]) : k \in DOMAIN v.kids}
           V     == W \union {v}
<1>1. \A k \in DOMAIN v.kids : v.kids[k] \in In(v.kids[k]) /\ Closed(In(v.kids[k]))
  BY DEF WellTyped
<1> HIDE DEF In
<1>2. ASSUME NEW w \in W PROVE Shaped(w) /\ \A k \in DOMAIN w.kids : w.kids[k] \in W
  <2>1. PICK k \in DOMAIN v.kids : w \in In(v.kids[k])
    OBVIOUS
  <2> QED BY <1>1, <2>1 DEF Closed
<1>3. \A k \in DOMAIN v.kids : v.kids[k] \in W
  BY <1>1
<1> HIDE DEF W
<1>4. Closed(V)
  BY <1>2, <1>3 DEF Closed
<1> QED BY <1>4 DEF WellTyped

\* The shape of what a type holds.
KidsFit(t, nil, ks) ==
  /\ Types[t].kind = "iface"  => nil \/ DOMAIN ks = {1}
  /\ Types[t].kind = "ptr"    => nil \/ DOMAIN ks = {1}
  /\ Types[t].kind \in {"ptr", "map"} => \A k \in DOMAIN ks : ks[k].t = Elem(t)
  /\ Types[t].kind = "slice"  => IsListOf(ks, Elem(t))
  /\ Types[t].kind = "array"  => IsListOf(ks, Elem(t)) /\ Len(ks) = Types[t].size
  /\ Types[t].kind = "struct" => \A i \in DOMAIN ks :
                                   i \in DOMAIN Fields(t) /\ ks[i].t = Fields(t)[i].type
Tuple4(v) == v = [t |-> v.t, x |-> v.x, nil |-> v.nil, kids |-> v.kids]

\* Shaped, as what the type is, the record is and the parts are.
LEMMA ShapeIs ==
  ASSUME NEW v
  PROVE  Shaped(v) <=> /\ v.t \in DOMAIN Types /\ v.nil \in BOOLEAN /\ Tuple4(v) /\ IsFun(v.kids)
                       /\ KidsFit(v.t, v.nil, v.kids)
<1>1. v = [t |-> v.t, x |-> v.x, nil |-> v.nil, kids |-> [k \in DOMAIN v.kids |-> v.kids[k]]]
      <=> Tuple4(v) /\ IsFun(v.kids)
  <2> DEFINE ks == [k \in DOMAIN v.kids |-> v.kids[k]]
  <2>1. v = [t |-> v.t, x |-> v.x, nil |-> v.nil, kids |-> ks] => v.kids = ks
    <3> HIDE DEF ks
    <3> QED OBVIOUS
  <2> QED BY <2>1 DEF Tuple4, IsFun
<1> QED BY <1>1 DEF Shaped, KidsFit, Kind, Fields

\* A value made of well-typed ones.
LEMMA HoldingTyped ==
  ASSUME NEW t \in DOMAIN Types, NEW ks, IsFun(ks), KidsFit(t, FALSE, ks),
         \A k \in DOMAIN ks : WellTyped(ks[k])
  PROVE  WellTyped(Holding(t, ks)) /\ Holding(t, ks).t = t /\ Holding(t, ks).kids = ks
<1> DEFINE v == Holding(t, ks)
<1>1. v.t = t /\ v.nil = FALSE /\ v.kids = ks /\ Tuple4(v)
  BY DEF Holding, Tuple4
<1> HIDE DEF v
<1>2. Shaped(v)
  BY <1>1, ShapeIs
<1>3. WellTyped(v)
  BY <1>1, <1>2, WholeTyped
<1> QED BY <1>1, <1>3 DEF v

\* What holds nothing.
LEMMA NoKids == IsFun(<< >>) /\ DOMAIN << >> = {} /\ Len(<< >>) = 0 /\ DOMAIN << >> = 1 .. 0
BY DEF IsFun

\* A scalar, of whatever type may be shown as one.
LEMMA ScalarTyped ==
  ASSUME NEW t \in DOMAIN Types, NEW x, Types[t].kind \notin {"iface", "ptr", "array"}
  PROVE  WellTyped(Scalar(t, x)) /\ Scalar(t, x).t = t
<1> DEFINE v == Scalar(t, x)
<1>1. v.t = t /\ v.nil = FALSE /\ v.kids = << >> /\ Tuple4(v)
  BY DEF Scalar, Tuple4
<1> HIDE DEF v
<1>2. KidsFit(t, FALSE, << >>)
  BY NoKids DEF KidsFit, IsListOf
<1>3. Shaped(v)
  BY <1>1, <1>2, NoKids, ShapeIs
<1>4. WellTyped(v)
  BY <1>1, <1>3, NoKids, WholeTyped
<1> QED BY <1>1, <1>4 DEF v

\* A nil of a type that has one.
LEMMA NilTyped ==
  ASSUME NEW t \in DOMAIN Types, Types[t].kind \in NilKinds
  PROVE  WellTyped(Nil(t)) /\ Nil(t).t = t
<1> DEFINE v == Nil(t)
<1>1. v.t = t /\ v.nil = TRUE /\ v.kids = << >> /\ Tuple4(v)
  BY DEF Nil, Tuple4
<1> HIDE DEF v
<1>2. KidsFit(t, TRUE, << >>)
  BY NoKids DEF KidsFit, IsListOf, NilKinds
<1>3. Shaped(v)
  BY <1>1, <1>2, NoKids, ShapeIs
<1>4. WellTyped(v)
  BY <1>1, <1>3, NoKids, WholeTyped
<1> QED BY <1>1, <1>4 DEF v

-----------------------------------------------------------------------------
(* The forms values are built in.                                          *)

\* A value of one of the types there are.
Of(v, t) == WellTyped(v) /\ v.t = t

\* What is known of a well-typed value.
LEMMA TypedIs ==
  ASSUME NEW v, WellTyped(v)
  PROVE  /\ v.t \in DOMAIN Types /\ v.nil \in BOOLEAN /\ Tuple4(v) /\ IsFun(v.kids)
         /\ KidsFit(v.t, v.nil, v.kids)
BY TypedIsShaped, ShapeIs

\* What holds one part.
LEMMA OneIs == ASSUME NEW w PROVE IsFun(<<w>>) /\ DOMAIN <<w>> = {1} /\ <<w>>[1] = w
BY DEF IsFun

\* A function on 1 .. n is a sequence of length n.
LEMMA ListLen ==
  ASSUME NEW n \in Nat, NEW f, IsFun(f), DOMAIN f = 1 .. n
  PROVE  Len(f) = n
<1> DEFINE S == {f[k] : k \in DOMAIN f}
<1>1. f \in [1 .. n -> S]
  BY DEF IsFun
<1> HIDE DEF S
<1>2. f \in Seq(S)
  BY <1>1, SeqDef
<1>3. Len(f) \in Nat /\ DOMAIN f = 1 .. Len(f)
  BY <1>2, LenProperties
<1> QED BY <1>3

\* A slice of well-typed elements.
LEMMA ListTyped ==
  ASSUME NEW t \in DOMAIN Types, Types[t].kind = "slice",
         NEW n \in Nat, NEW ks, IsFun(ks), DOMAIN ks = 1 .. n,
         \A i \in 1 .. n : Of(ks[i], Elem(t))
  PROVE  Of(Holding(t, ks), t) /\ Holding(t, ks).kids = ks /\ Len(ks) = n
<1>1. Len(ks) = n
  BY ListLen
<1>2. KidsFit(t, FALSE, ks)
  BY <1>1 DEF KidsFit, IsListOf, Of
<1> QED BY <1>1, <1>2, HoldingTyped DEF Of

\* A map of well-typed elements.
LEMMA MapTyped ==
  ASSUME NEW t \in DOMAIN Types, Types[t].kind = "map", NEW ks, IsFun(ks),
         \A k \in DOMAIN ks : Of(ks[k], Elem(t))
  PROVE  Of(Holding(t, ks), t)
<1>1. KidsFit(t, FALSE, ks)
  BY DEF KidsFit, Of
<1> QED BY <1>1, HoldingTyped DEF Of

\* A map or a slice with nothing in it.
LEMMA EmptyTyped ==
  ASSUME NEW t \in DOMAIN Types, Types[t].kind \in {"map", "slice"}
  PROVE  Of(Holding(t, << >>), t) /\ Holding(t, << >>).kids = << >>
<1>1. KidsFit(t, FALSE, << >>)
  BY NoKids DEF KidsFit, IsListOf
<1> QED BY <1>1, NoKids, HoldingTyped DEF Of

\* A pointer to a well-typed value.
LEMMA PtrTyped ==
  ASSUME NEW t \in DOMAIN Types, Types[t].kind = "ptr", NEW w, Of(w, Elem(t))
  PROVE  Of(Holding(t, <<w>>), t)
<1> DEFINE ks == <<w>>
<1>1. IsFun(ks) /\ DOMAIN ks = {1} /\ ks[1] = w
  BY OneIs
<1> HIDE DEF ks
<1>2. KidsFit(t, FALSE, ks)
  BY <1>1 DEF KidsFit, Of
<1>3. Of(Holding(t, ks), t)
  BY <1>1, <1>2, HoldingTyped DEF Of
<1> QED BY <1>3 DEF ks

\* Storing in an interface.
LEMMA AnyTyped == ASSUME NEW v, WellTyped(v) PROVE Of(Any(v), "any")
<1>1. CASE Kind(v) = "iface"
  BY <1>1, TypedIs, TypesAssumption DEF Any, Of, Kind
<1>2. CASE Kind(v) # "iface"
  <2> DEFINE ks == <<v>>
  <2>1. IsFun(ks) /\ DOMAIN ks = {1} /\ ks[1] = v
    BY OneIs
  <2>2. Any(v) = Holding("any", ks)
    BY <1>2 DEF Any
  <2> HIDE DEF ks
  <2>3. KidsFit("any", FALSE, ks) /\ "any" \in DOMAIN Types
    BY <2>1, TypesAssumption DEF KidsFit
  <2>4. Of(Holding("any", ks), "any")
    BY <2>1, <2>3, HoldingTyped DEF Of
  <2> QED BY <2>2, <2>4
<1> QED BY <1>1, <1>2

\* What an interface holds, if anything.
Source(v) == v = NoValue \/ WellTyped(v)
\* unwrapIface yields a source: what an interface holds, or nothing.
LEMMA UnwrapTyped ==
  ASSUME NEW v, Source(v)
  PROVE  Source(Unwrap(v)) /\ (IsValid(Unwrap(v)) => WellTyped(Unwrap(v)))
<1>1. ~IsValid(NoValue)
  BY DEF IsValid, NoValue, Scalar
<1>2. CASE v = NoValue
  BY <1>1, <1>2 DEF Unwrap, Source
<1>3. CASE WellTyped(v) /\ Kind(v) = "iface" /\ ~v.nil
  <2>1. DOMAIN v.kids = {1}
    BY <1>3, TypedIs DEF KidsFit, Kind
  <2>2. WellTyped(v.kids[1])
    BY <1>3, <2>1, PartTyped
  <2> QED BY <1>1, <1>3, <2>2 DEF Unwrap, Source
<1>4. CASE WellTyped(v) /\ ~(Kind(v) = "iface" /\ ~v.nil)
  BY <1>1, <1>4 DEF Unwrap, Source
<1> QED BY <1>2, <1>3, <1>4 DEF Source

\* What a pointer leads to.
LEMMA PointeeTyped ==
  ASSUME NEW v, WellTyped(v), Kind(v) = "ptr", ~v.nil
  PROVE  Of(v.kids[1], Elem(v.t)) /\ DOMAIN v.kids = {1}
<1>1. DOMAIN v.kids = {1} /\ v.kids[1].t = Elem(v.t)
  BY TypedIs DEF KidsFit, Kind
<1> QED BY <1>1, PartTyped DEF Of

\* The elements of a slice or an array.
LEMMA ListIs ==
  ASSUME NEW v, WellTyped(v), IsList(v)
  PROVE  /\ Len(v.kids) \in Nat /\ DOMAIN v.kids = 1 .. Len(v.kids) /\ IsFun(v.kids)
         /\ \A n \in 1 .. Len(v.kids) : Of(v.kids[n], Elem(v.t))
         /\ Kind(v) = "array" => Len(v.kids) = Types[v.t].size
<1>1. IsListOf(v.kids, Elem(v.t))
  BY TypedIs DEF KidsFit, Kind, IsList
<1>2. Kind(v) = "array" => Len(v.kids) = Types[v.t].size
  BY TypedIs DEF KidsFit, Kind
<1> QED BY <1>1, <1>2, TypedIs, PartTyped DEF IsListOf, Of

-----------------------------------------------------------------------------
(* A value with a part of it replaced.                                     *)

\* All of its parts.
LEMMA KidsReplaced ==
  ASSUME NEW v, WellTyped(v), NEW ks, IsFun(ks), KidsFit(v.t, v.nil, ks),
         \A k \in DOMAIN ks : WellTyped(ks[k])
  PROVE  Of([v EXCEPT !.kids = ks], v.t) /\ [v EXCEPT !.kids = ks].kids = ks
<1> DEFINE w == [v EXCEPT !.kids = ks]
<1>1. v.t \in DOMAIN Types /\ v.nil \in BOOLEAN /\ Tuple4(v)
  BY TypedIs
<1>2. w.t = v.t /\ w.nil = v.nil /\ w.kids = ks /\ Tuple4(w)
  BY <1>1 DEF Tuple4
<1> HIDE DEF w
<1>3. Shaped(w)
  BY <1>1, <1>2, ShapeIs
<1>4. WellTyped(w)
  BY <1>2, <1>3, WholeTyped
<1> QED BY <1>2, <1>4 DEF Of, w

\* One part, by another of the same type.
LEMMA KidReplaced ==
  ASSUME NEW v, WellTyped(v), NEW k \in DOMAIN v.kids, NEW w, Of(w, v.kids[k].t)
  PROVE  /\ Of([v EXCEPT !.kids[k] = w], v.t)
         /\ [v EXCEPT !.kids[k] = w].kids = [v.kids EXCEPT ![k] = w]
<1> DEFINE ks == [v.kids EXCEPT ![k] = w]
<1>1. IsFun(v.kids) /\ KidsFit(v.t, v.nil, v.kids) /\ Tuple4(v)
  BY TypedIs
<1>2. IsFun(ks) /\ DOMAIN ks = DOMAIN v.kids
  BY DEF IsFun
<1>3. \A j \in DOMAIN ks : WellTyped(ks[j]) /\ ks[j].t = v.kids[j].t
  BY PartTyped DEF Of
<1>4. [v EXCEPT !.kids[k] = w] = [v EXCEPT !.kids = ks]
  BY <1>1 DEF Tuple4
<1> HIDE DEF ks
<1>5. IsListOf(v.kids, Elem(v.t)) => IsListOf(ks, Elem(v.t)) /\ Len(ks) = Len(v.kids)
  BY <1>2, <1>3, ListLen DEF IsListOf
<1>6. KidsFit(v.t, v.nil, ks)
  BY <1>1, <1>2, <1>3, <1>5 DEF KidsFit
<1>7. Of([v EXCEPT !.kids = ks], v.t) /\ [v EXCEPT !.kids = ks].kids = ks
  BY <1>2, <1>3, <1>6, KidsReplaced
<1> QED BY <1>4, <1>7 DEF ks

-----------------------------------------------------------------------------
(* Zero values.  ZeroOf is defined by recursion over what a type holds by  *)
(* value; there is such a function because no type holds itself that way.  *)

ZeroBody(z, t) ==
  IF Types[t].kind = "array"
  THEN Holding(t, [i \in 1 .. Types[t].size |-> z[Elem(t)]])
  ELSE IF Types[t].kind = "struct"
  THEN LET fs == Info[t].fields
       IN  Holding(t, [i \in {j \in DOMAIN fs : fs[j].emb = {}} |-> z[fs[i].type]])
  ELSE Blank(t)

\* What a type holds by value, case by case.
LEMMA WithinIs ==
  ASSUME NEW t \in DOMAIN Types
  PROVE  /\ Types[t].kind = "array"  => Within(t) = {Elem(t)}
         /\ Types[t].kind = "struct" =>
              Within(t) = {Fields(t)[i].type : i \in {j \in DOMAIN Fields(t) : Fields(t)[j].emb = {}}}
         /\ Within(t) \subseteq DOMAIN Types
<1>1. Types[t].kind = "array" => Within(t) = {Elem(t)}
  BY DEF Within, Elem
<1>2. Types[t].kind = "struct" =>
        Within(t) = {Fields(t)[i].type : i \in {j \in DOMAIN Fields(t) : Fields(t)[j].emb = {}}}
  BY DEF Within, Fields
<1>3. Types[t].kind \notin {"array", "struct"} => Within(t) = {}
  BY DEF Within
<1>4. Types[t].kind = "array" => Elem(t) \in DOMAIN Types
  BY TypesAssumption DEF Elem
<1>5. Types[t].kind = "struct" => \A i \in DOMAIN Fields(t) : Fields(t)[i].type \in DOMAIN Types
  BY InfoAssumption DEF Fields
<1> QED BY <1>1, <1>2, <1>3, <1>4, <1>5

\* Among any types one holds none of the others by value.
LEMMA MinimalType ==
  ASSUME NEW S, S \subseteq DOMAIN Types, S # {}
  PROVE  \E t \in S : Within(t) \intersect S = {}
<1>1. CASE \E t \in S : Within(t) = {}
  BY <1>1
<1>2. CASE /\ \A t \in S : Within(t) # {}
           /\ \E t \in S : \A u \in Within(t) : Within(u) = {}
  BY <1>2
<1>3. CASE \A t \in S : \E u \in Within(t) : Within(u) # {}
  <2>1. S \in SUBSET Nesting
    BY <1>3 DEF Nesting
  <2> QED BY <2>1, ByValueAssumption
<1> QED BY <1>1, <1>2, <1>3

\* The zero of a type depends on the zeros of what it holds by value.
LEMMA BodyIsLocal ==
  ASSUME NEW t \in DOMAIN Types, NEW y, NEW z, \A u \in Within(t) : y[u] = z[u]
  PROVE  ZeroBody(y, t) = ZeroBody(z, t)
<1>1. CASE Types[t].kind = "array"
  <2>1. y[Elem(t)] = z[Elem(t)]
    BY <1>1, WithinIs
  <2> QED BY <1>1, <2>1 DEF ZeroBody
<1>2. CASE Types[t].kind = "struct"
  <2> DEFINE D == {j \in DOMAIN Fields(t) : Fields(t)[j].emb = {}}
  <2>1. \A i \in D : y[Fields(t)[i].type] = z[Fields(t)[i].type]
    BY <1>2, WithinIs
  <2>2. [i \in D |-> y[Fields(t)[i].type]] = [i \in D |-> z[Fields(t)[i].type]]
    BY <2>1
  <2> QED BY <1>2, <2>2 DEF ZeroBody, Fields
<1>3. CASE Types[t].kind \notin {"array", "struct"}
  BY <1>3 DEF ZeroBody
<1> QED BY <1>1, <1>2, <1>3

\* A function that is right for the types it knows.
Partial(z) ==
  /\ DOMAIN z \subseteq DOMAIN Types
  /\ \A t \in DOMAIN z : Within(t) \subseteq DOMAIN z /\ z[t] = ZeroBody(z, t)

\* Two partial zero functions agree where both are defined.
LEMMA PartialsAgree ==
  ASSUME NEW y, NEW z, Partial(y), Partial(z)
  PROVE  \A t \in DOMAIN y \intersect DOMAIN z : y[t] = z[t]
<1> DEFINE S == {t \in DOMAIN y \intersect DOMAIN z : y[t] # z[t]}
<1> SUFFICES ASSUME S # {} PROVE FALSE
  OBVIOUS
<1>1. S \subseteq DOMAIN Types
  BY DEF Partial
<1>2. PICK t \in S : Within(t) \intersect S = {}
  BY <1>1, MinimalType
<1>3. \A u \in Within(t) : y[u] = z[u]
  BY <1>2 DEF Partial
<1>4. ZeroBody(y, t) = ZeroBody(z, t)
  BY <1>1, <1>2, <1>3, BodyIsLocal
<1> QED BY <1>2, <1>4 DEF Partial

\* There is a function that satisfies the recursion of ZeroOf.
LEMMA ZeroExists == \E z : z = [t \in DOMAIN Types |-> ZeroBody(z, t)]
<1> DEFINE Known(t) == \E z : Partial(z) /\ t \in DOMAIN z
           For(t)   == CHOOSE z : Partial(z) /\ t \in DOMAIN z
           K        == {t \in DOMAIN Types : Known(t)}
           G        == [t \in DOMAIN Types |-> For(t)[t]]
<1>1. \A t \in K : Partial(For(t)) /\ t \in DOMAIN For(t)
  OBVIOUS
<1>2. ASSUME NEW t \in K
      PROVE  Within(t) \subseteq K /\ G[t] = ZeroBody(G, t)
  <2> DEFINE z == For(t)
  <2>1. Partial(z) /\ t \in DOMAIN z /\ G[t] = z[t] /\ t \in DOMAIN Types
    BY <1>1
  <2> HIDE DEF z
  <2>2. Within(t) \subseteq DOMAIN z /\ DOMAIN z \subseteq K /\ z[t] = ZeroBody(z, t)
    BY <2>1 DEF Partial
  <2>3. ASSUME NEW u \in Within(t) PROVE G[u] = z[u]
    <3>1. u \in K /\ u \in DOMAIN z
      BY <2>2, <2>3
    <3>2. Partial(For(u)) /\ u \in DOMAIN For(u) /\ G[u] = For(u)[u]
      BY <1>1, <3>1
    <3> HIDE DEF For, G
    <3> QED BY <2>1, <3>1, <3>2, PartialsAgree
  <2> HIDE DEF G
  <2>4. ZeroBody(G, t) = ZeroBody(z, t)
    BY <2>1, <2>3, BodyIsLocal
  <2> QED BY <2>1, <2>2, <2>4
<1>3. DOMAIN Types \subseteq K
  <2> DEFINE S == DOMAIN Types \ K
  <2> SUFFICES ASSUME S # {} PROVE FALSE
    OBVIOUS
  <2>1. PICK m \in S : Within(m) \intersect S = {}
    BY MinimalType
  <2>2. Within(m) \subseteq K /\ m \in DOMAIN Types /\ m \notin K
    BY <2>1, WithinIs
  <2> HIDE DEF G
  <2> DEFINE z == [t \in K \union {m} |-> IF t = m THEN ZeroBody(G, m) ELSE G[t]]
  <2>3. DOMAIN z = K \union {m} /\ z[m] = ZeroBody(G, m) /\ \A t \in K : z[t] = G[t]
    BY <2>2
  <2> HIDE DEF z
  <2>4. ASSUME NEW t \in DOMAIN z
        PROVE  Within(t) \subseteq DOMAIN z /\ z[t] = ZeroBody(z, t)
    <3>1. Within(t) \subseteq K
      BY <1>2, <2>2, <2>3
    <3>2. z[t] = ZeroBody(G, t)
      BY <1>2, <2>3
    <3>3. \A u \in Within(t) : z[u] = G[u]
      BY <2>3, <3>1
    <3>4. ZeroBody(z, t) = ZeroBody(G, t)
      BY <2>2, <2>3, <3>3, BodyIsLocal
    <3> QED BY <2>3, <3>1, <3>2, <3>4
  <2>5. Partial(z)
    BY <2>2, <2>3, <2>4 DEF Partial
  <2> QED BY <2>2, <2>3, <2>5
<1>4. DOMAIN G = DOMAIN Types /\ IsFun(G)
  BY DEF IsFun
<1> HIDE DEF G, K
<1>5. G = [t \in DOMAIN Types |-> ZeroBody(G, t)]
  BY <1>2, <1>3, <1>4 DEF IsFun
<1> QED BY <1>5

\* ZeroOf satisfies it.
LEMMA ZeroIs ==
  ASSUME NEW t \in DOMAIN Types
  PROVE  ZeroOf[t] = ZeroBody(ZeroOf, t)
<1> DEFINE Zeros(z) == [u \in DOMAIN Types |-> ZeroBody(z, u)]
<1>1. ZeroOf = CHOOSE z : z = Zeros(z)
  BY DEF ZeroOf, ZeroBody
<1>2. ZeroOf = Zeros(ZeroOf)
  <2> HIDE DEF Zeros
  <2> QED BY <1>1, ZeroExists DEF Zeros
<1> QED BY <1>2

\* The zero value of every type is well typed.
LEMMA ZeroTyped == ASSUME NEW t \in DOMAIN Types PROVE Of(ZeroOf[t], t)
<1> DEFINE S == {u \in DOMAIN Types : ~Of(ZeroOf[u], u)}
<1> SUFFICES ASSUME S # {} PROVE FALSE
  OBVIOUS
<1>1. PICK m \in S : Within(m) \intersect S = {}
  BY MinimalType
<1>2. m \in DOMAIN Types /\ ZeroOf[m] = ZeroBody(ZeroOf, m) /\ ~Of(ZeroOf[m], m)
  BY <1>1, ZeroIs
<1>3. \A u \in Within(m) : Of(ZeroOf[u], u)
  BY <1>1, <1>2, WithinIs
<1>4. CASE Types[m].kind = "array"
  <2> DEFINE n  == Types[m].size
             ks == [i \in 1 .. n |-> ZeroOf[Elem(m)]]
  <2>1. n \in Nat /\ Of(ZeroOf[Elem(m)], Elem(m)) /\ ZeroOf[m] = Holding(m, ks)
    BY <1>2, <1>3, <1>4, WithinIs, TypesAssumption DEF ZeroBody
  <2>2. IsFun(ks) /\ DOMAIN ks = 1 .. n /\ \A i \in 1 .. n : Of(ks[i], Elem(m))
    BY <2>1 DEF IsFun
  <2> HIDE DEF ks, n
  <2>3. Len(ks) = n
    BY <2>1, <2>2, ListLen
  <2>4. KidsFit(m, FALSE, ks)
    BY <1>4, <2>1, <2>2, <2>3 DEF KidsFit, IsListOf, Of, n
  <2>5. Of(Holding(m, ks), m)
    BY <1>2, <2>2, <2>4, HoldingTyped DEF Of
  <2> QED BY <1>2, <2>1, <2>5
<1>5. CASE Types[m].kind = "struct"
  <2> DEFINE D  == {j \in DOMAIN Fields(m) : Fields(m)[j].emb = {}}
             ks == [i \in D |-> ZeroOf[Fields(m)[i].type]]
  <2>1. ZeroOf[m] = Holding(m, ks)
    BY <1>2, <1>5 DEF ZeroBody, Fields
  <2>2. \A i \in D : Of(ZeroOf[Fields(m)[i].type], Fields(m)[i].type)
    <3>1. \A i \in D : Fields(m)[i].type \in Within(m)
      <4>1. Within(m) = {Fields(m)[i].type : i \in D}
        BY <1>2, <1>5, WithinIs
      <4> HIDE DEF D
      <4> QED BY <4>1
    <3> QED BY <1>3, <3>1
  <2>3. IsFun(ks) /\ DOMAIN ks = D /\ \A i \in D : Of(ks[i], Fields(m)[i].type)
    BY <2>2 DEF IsFun
  <2> HIDE DEF ks
  <2>4. KidsFit(m, FALSE, ks)
    BY <1>5, <2>3 DEF KidsFit, Of
  <2>5. Of(Holding(m, ks), m)
    BY <1>2, <2>3, <2>4, HoldingTyped DEF Of
  <2> QED BY <1>2, <2>1, <2>5
<1>6. CASE Types[m].kind \notin {"array", "struct"}
  <2>1. ZeroOf[m] = Blank(m)
    BY <1>2, <1>6 DEF ZeroBody
  <2>2. CASE Types[m].kind \in NilKinds
    BY <1>2, <2>1, <2>2, NilTyped DEF Blank, Of, NilKinds
  <2>3. CASE Types[m].kind \notin NilKinds
    <3>1. Types[m].kind \notin {"iface", "ptr", "array"}
      BY <1>6, <2>3 DEF NilKinds
    <3>2. Of(Scalar(m, "0"), m) /\ Of(Scalar(m, ""), m)
      BY <1>2, <3>1, ScalarTyped DEF Of
    <3>3. ZeroOf[m] = Scalar(m, "0") \/ ZeroOf[m] = Scalar(m, "")
      BY <2>1, <2>3 DEF Blank
    <3> QED BY <3>2, <3>3
  <2> QED BY <2>2, <2>3
<1> QED BY <1>4, <1>5, <1>6

-----------------------------------------------------------------------------
(* What the operators of the handlers make of well-typed values.           *)

\* derefOrZero: what a chain of pointers leads to, or a zero value.
LEMMA DerefTyped == ASSUME NEW v, WellTyped(v) PROVE WellTyped(DerefOrZero(v))
<1> DEFINE F(w) == Kind(w) \in {"ptr"} /\ ~w.nil
           t    == Target(v, {"ptr"})
<1>1. ASSUME NEW w, WellTyped(w), F(w) PROVE WellTyped(w.kids[1])
  BY <1>1, PointeeTyped DEF Of
<1>2. t = IF ~F(v) THEN v
          ELSE IF ~F(v.kids[1]) THEN v.kids[1]
          ELSE IF ~F(v.kids[1].kids[1]) THEN v.kids[1].kids[1]
          ELSE v.kids[1].kids[1].kids[1]
  BY DEF Target
<1> HIDE DEF F, t
<1>3. WellTyped(t)
  BY <1>1, <1>2
<1>4. Kind(t) = "ptr" => Elem(t.t) \in DOMAIN Types
  BY <1>3, TypedIs, TypesAssumption DEF Kind, Elem
<1>5. DerefOrZero(v) = IF Kind(t) = "ptr" THEN ZeroOf[Elem(t.t)] ELSE t
  BY DEF DerefOrZero, t
<1> QED BY <1>3, <1>4, <1>5, ZeroTyped DEF Of

\* A text, as a value of type string.
LEMMA TextTyped == ASSUME NEW x PROVE Of(Scalar("string", x), "string")
<1>1. "string" \in DOMAIN Types /\ Types["string"].kind = "string"
  BY TypesAssumption
<1> QED BY <1>1, ScalarTyped DEF Of

\* stringify yields a text or nothing.
LEMMA StringifyTyped == ASSUME NEW v PROVE Source(Stringify(v))
<1>1. Stringify(v) = NoValue \/ \E x : Stringify(v) = Scalar("string", x)
  BY DEF Stringify
<1> QED BY <1>1, TextTyped DEF Source, Of

\* A cast that does not fail yields a value of the type asked for.
LEMMA CastTyped ==
  ASSUME NEW v, NEW t \in DOMAIN Types, NEW w
  PROVE  Cast(v, t, w) = NoValue \/ Of(Cast(v, t, w), t)
<1>1. CastToInt(v, t, w) = NoValue \/ \E x : CastToInt(v, t, w) = Scalar(t, x)
  BY DEF CastToInt
<1>2. CastToString(v, t, w) = NoValue \/ \E x : CastToString(v, t, w) = Scalar(t, x)
  BY DEF CastToString
<1>3. \/ Cast(v, t, w) = NoValue
      \/ Types[t].kind \in {"int", "string"} /\ \E x : Cast(v, t, w) = Scalar(t, x)
  BY <1>1, <1>2 DEF Cast
<1> QED BY <1>3, ScalarTyped DEF Of

\* The letters of a text, as the elements of a list of them.
LEMMA LettersTyped ==
  ASSUME NEW t \in DOMAIN Types, Types[t].kind = "int", NEW x
  PROVE  /\ IsFun(Letters(t, x)) /\ Len(Letters(t, x)) \in Nat
         /\ DOMAIN Letters(t, x) = 1 .. Len(Letters(t, x))
         /\ \A n \in DOMAIN Letters(t, x) : Of(Letters(t, x)[n], t)
<1> DEFINE b == IF x \in DOMAIN Bytes THEN Bytes[x] ELSE <<x>>
           l == Letters(t, x)
<1>1. l = [n \in DOMAIN b |-> Scalar(t, b[n])]
  BY DEF Letters
<1>2. \E n \in Nat : DOMAIN b = 1 .. n
  <2>1. DOMAIN <<x>> = 1 .. 1
    OBVIOUS
  <2> QED BY <2>1, BytesAssumption
<1> HIDE DEF b, l
<1>3. IsFun(l) /\ DOMAIN l = DOMAIN b /\ \A n \in DOMAIN b : l[n] = Scalar(t, b[n])
  BY <1>1 DEF IsFun
<1>4. \A n \in DOMAIN l : Of(l[n], t)
  BY <1>3, ScalarTyped DEF Of
<1>5. Len(l) \in Nat /\ DOMAIN l = 1 .. Len(l)
  BY <1>2, <1>3, ListLen
<1> QED BY <1>3, <1>4, <1>5 DEF l

\* lookup finds a field of the type, or none.
LEMMA LookupIs ==
  ASSUME NEW t \in DOMAIN Types, Types[t].kind = "struct", NEW k, NEW loose
  PROVE  Lookup(t, k, loose) # 0 => Lookup(t, k, loose) \in DOMAIN Fields(t)
<1> DEFINE exact  == {i \in Named(t) : Fields(t)[i].name = k}
           folded == {i \in Named(t) : Fold[Fields(t)[i].name] = Fold[k]}
           first  == CHOOSE i \in folded : \A j \in folded : i <= j
<1>1. Named(t) \subseteq DOMAIN Fields(t) /\ Named(t) \subseteq Nat
  BY InfoAssumption DEF Named, Fields
<1>2. exact # {} => (CHOOSE i \in exact : TRUE) \in DOMAIN Fields(t)
  BY <1>1
<1>3. folded \subseteq Nat /\ folded \subseteq DOMAIN Fields(t)
  BY <1>1
<1> HIDE DEF folded
<1>4. folded # {} => first \in folded
  BY <1>3, FirstIs
<1>5. Lookup(t, k, loose) =
        IF exact # {} THEN CHOOSE i \in exact : TRUE
        ELSE IF loose /\ folded # {} THEN first ELSE 0
  BY DEF Lookup, folded
<1> HIDE DEF exact, first
<1> QED BY <1>2, <1>3, <1>4, <1>5

\* The fields of a struct value.
LEMMA StructIs ==
  ASSUME NEW v, WellTyped(v), Kind(v) = "struct", NEW i \in DOMAIN v.kids
  PROVE  i \in DOMAIN Fields(v.t) /\ Of(v.kids[i], Fields(v.t)[i].type)
<1>1. i \in DOMAIN Fields(v.t) /\ v.kids[i].t = Fields(v.t)[i].type
  BY TypedIs DEF KidsFit, Kind
<1> QED BY <1>1, PartTyped DEF Of

\* Every field has a type there is.
LEMMA FieldTypes ==
  ASSUME NEW t \in DOMAIN Types, Types[t].kind = "struct", NEW i \in DOMAIN Fields(t)
  PROVE  Fields(t)[i].type \in DOMAIN Types
BY InfoAssumption DEF Fields

\* Reaching a field of a struct.
LEMMA ReachTyped ==
  ASSUME NEW v, WellTyped(v), Kind(v) = "struct", NEW i \in DOMAIN Fields(v.t)
  PROVE  /\ Of(Reach(v, i), v.t) /\ i \in DOMAIN Reach(v, i).kids
         /\ Of(Reach(v, i).kids[i], Fields(v.t)[i].type)
<1>1. CASE i \in DOMAIN v.kids
  BY <1>1, StructIs DEF Reach, Of
<1>2. CASE i \notin DOMAIN v.kids
  <2> DEFINE fs  == Fields(v.t)
             new == {j \in DOMAIN fs \ DOMAIN v.kids : fs[j].emb \subseteq fs[i].emb}
             D   == DOMAIN v.kids \union new
             ks  == [j \in D |-> IF j \in DOMAIN v.kids THEN v.kids[j] ELSE ZeroOf[fs[j].type]]
  <2>1. Reach(v, i) = [v EXCEPT !.kids = ks] /\ i \in D
    BY <1>2 DEF Reach
  <2>2. v.t \in DOMAIN Types /\ Types[v.t].kind = "struct"
    BY TypedIs DEF Kind
  <2>3. ASSUME NEW j \in D PROVE j \in DOMAIN fs /\ Of(ks[j], fs[j].type)
    <3>1. CASE j \in DOMAIN v.kids
      BY <3>1, StructIs
    <3>2. CASE j \in new
      <4>1. j \in DOMAIN fs /\ j \notin DOMAIN v.kids /\ fs[j].type \in DOMAIN Types
        BY <2>2, <3>2, FieldTypes
      <4> QED BY <3>2, <4>1, ZeroTyped
    <3> QED BY <3>1, <3>2
  <2>4. IsFun(ks) /\ DOMAIN ks = D
    BY DEF IsFun
  <2> HIDE DEF D, ks
  <2>5. KidsFit(v.t, v.nil, ks)
    BY <2>2, <2>3, <2>4 DEF KidsFit, Of
  <2>6. Of([v EXCEPT !.kids = ks], v.t) /\ [v EXCEPT !.kids = ks].kids = ks
    BY <2>3, <2>4, <2>5, KidsReplaced DEF Of
  <2> QED BY <2>1, <2>3, <2>4, <2>6
<1> QED BY <1>1, <1>2

\* SetMapIndex.
LEMMA StoredTyped ==
  ASSUME NEW v, WellTyped(v), Kind(v) = "map", NEW k, NEW w, Of(w, Elem(v.t))
  PROVE  Of(Stored(v, k, w), v.t)
<1> DEFINE D  == DOMAIN v.kids \union {k}
           ks == [j \in D |-> IF j = k THEN w ELSE v.kids[j]]
<1>1. Stored(v, k, w) = [v EXCEPT !.kids = ks]
  BY DEF Stored
<1>2. \A j \in DOMAIN v.kids : Of(v.kids[j], Elem(v.t))
  BY TypedIs, PartTyped DEF KidsFit, Kind, Of
<1>3. IsFun(ks) /\ DOMAIN ks = D /\ \A j \in D : Of(ks[j], Elem(v.t))
  BY <1>2 DEF IsFun
<1> HIDE DEF D, ks
<1>4. KidsFit(v.t, v.nil, ks)
  BY <1>3 DEF KidsFit, Of, Kind
<1> QED BY <1>1, <1>3, <1>4, KidsReplaced DEF Of

-----------------------------------------------------------------------------
(* What every frame on the stack holds.                                    *)

\* A sequence of well-typed values.
IsListOfTyped(ks) ==
  Len(ks) \in Nat /\ DOMAIN ks = 1 .. Len(ks) /\ \A n \in DOMAIN ks : WellTyped(ks[n])

\* The functions the operations belong to.
EarlyOps  == {"hooks", "decode", "encode", "text", "dispatch", "toScalar"}
EntryPoints == {"convert", "toInterface", "generic", "toPointer", "toSlice", "toArray", "toMap",
                "mapFromMap", "mapFromStruct", "toStruct", "structFromMap", "structFromStruct"}
IfaceOps  == {"toInterface", "generic", "genericMapDone"}
ElemsOps  == {"genericElems", "genericElemDone"}
PtrOps    == {"toPointer", "pointerDone"}
FillOps   == {"sliceElems", "sliceElemDone"}
MergeOps  == {"mergeMaps", "mergeMapDone"}
EntryOps  == {"mapEntries", "mapKeyDone", "mapElemDone"}
WalkOps   == {"walkToMap", "entryKeyDone", "entry", "entryDone"}
MapOps    == {"toMap", "mapFromMap", "mapFromStruct"} \union MergeOps \union EntryOps \union WalkOps
StructOps == {"toStruct", "structFromMap", "matchKeys", "assignFields", "finishStruct", "remainDone",
              "fieldDone", "structFromStruct", "walkToStruct", "finishPairs"}

\* The locals of the loops before they start, and while they run: the remain
\* map walked, the values matched to fields, the unclaimed keys and values.
StartsFresh(f) == f.i = 1 /\ f.todo = {} /\ f.got = << >> /\ f.left = << >> /\ f.rest = << >>

DtKind(f)   == Types[f.dt].kind
Walks(f)    == Kind(f.src) = "struct" /\ \A k \in f.todo : k \in DOMAIN f.val.kids /\ WellTyped(f.val.kids[k])
GotTyped(f) == \A j \in DOMAIN f.got : j \in DOMAIN Fields(f.dt) /\ WellTyped(f.got[j])
RestTyped(f)  == \A k \in DOMAIN f.rest : WellTyped(f.rest[k])
LeftIsKeys(f) ==
  Kind(f.src) = "map" /\ IsSeq(f.left) /\ \A n \in DOMAIN f.left : f.left[n] \in DOMAIN f.src.kids
Matches(f) == Kind(f.src) = "map" /\ f.todo \subseteq DOMAIN f.src.kids /\ GotTyped(f) /\ LeftIsKeys(f)
Assigns(f) == GotTyped(f) /\ LeftIsKeys(f)
LeftOver(f) == IsSeq(f.left) /\ (Info[f.dt].remain # 0 /\ f.left # << >> => LeftIsKeys(f))
Pairs(f)   == Walks(f) /\ GotTyped(f) /\ RestTyped(f) /\ f.left = << >>

\* A frame of the engine: its content is of the type it is for, its source is
\* well typed, and its locals are what its operation expects.
FrameTyped(f) ==
  /\ WellTyped(f.cur) /\ f.cur.t = f.dt
  /\ f.op \in {"run", "convert"} => Source(f.src)
  /\ f.op \notin {"run", "convert"} \union FillOps => WellTyped(f.src)
  /\ f.op \in EntryPoints \union EarlyOps => StartsFresh(f)
  /\ f.op \in IfaceOps => DtKind(f) = "iface"
  /\ f.op \in ElemsOps => f.dt = "sliceAny" /\ IsList(f.src) /\ f.i \in Nat \ {0}
                          /\ Len(f.src.kids) = Len(f.cur.kids)
  /\ f.op = "genericElemDone" => f.i <= Len(f.src.kids)
  /\ f.op \in PtrOps => DtKind(f) = "ptr"
  /\ f.op = "toSlice" => DtKind(f) = "slice"
  /\ f.op = "toArray" => DtKind(f) = "array"
  /\ f.op \in FillOps => DtKind(f) \in {"slice", "array"} /\ IsListOfTyped(f.src.kids)
                         /\ f.i \in Nat \ {0} /\ Len(f.src.kids) <= Len(f.cur.kids)
  /\ f.op = "sliceElemDone" => f.i <= Len(f.src.kids)
  /\ f.op \in MapOps => DtKind(f) = "map"
  /\ f.op \in MergeOps => IsList(f.src) /\ f.i \in Nat \ {0}
  /\ f.op = "mergeMapDone" => f.i <= Len(f.src.kids)
  /\ f.op = "mapFromMap" => Kind(f.src) = "map"
  /\ f.op \in EntryOps => Kind(f.src) = "map" /\ f.todo \subseteq DOMAIN f.src.kids
  /\ f.op = "mapKeyDone" => f.key \in DOMAIN f.src.kids
  /\ f.op = "mapFromStruct" => Kind(f.src) = "struct"
  /\ f.op \in WalkOps => Walks(f)
  /\ f.op \in {"entryKeyDone", "entry"} => WellTyped(f.fv)
  /\ f.op \in StructOps => DtKind(f) = "struct"
  /\ f.op = "structFromMap" => Kind(f.src) = "map"
  /\ f.op = "structFromStruct" => Kind(f.src) = "struct"
  /\ f.op = "matchKeys" => Matches(f)
  /\ f.op = "assignFields" => Assigns(f)
  /\ f.op \in {"walkToStruct", "finishPairs"} => Pairs(f)
  /\ f.op = "fieldDone" => /\ f.field \in DOMAIN f.cur.kids
                           /\ f.back = "assignFields" => Assigns(f)
                           /\ f.back = "walkToStruct" => Pairs(f)
  /\ f.op = "finishStruct" => LeftOver(f)
  /\ f.op = "remainDone" => f.left = << >> /\ Info[f.dt].remain \in DOMAIN f.cur.kids

\* The functions that wait for one they called, the type of what a function
\* returns, and the type of what one that waits can take.
Waiting == {"run", "genericMapDone", "genericElemDone", "pointerDone", "sliceElemDone", "mergeMapDone",
            "mapKeyDone", "mapElemDone", "entryKeyDone", "entryDone", "fieldDone", "remainDone"}
RetType(f) == IF f.op \in ElemsOps THEN "any" ELSE f.dt
Accepts(f, t) ==
  /\ f.op \in Waiting
  /\ f.op \in {"run", "mergeMapDone"} => t = f.dt
  /\ f.op = "genericMapDone" => t = "mapStringAny"
  /\ f.op = "genericElemDone" => t = "any"
  /\ f.op \in {"pointerDone", "sliceElemDone", "mapElemDone", "entryDone"} => t = Elem(f.dt)
  /\ f.op \in {"mapKeyDone", "entryKeyDone"} => t = Types[f.dt].key
  /\ f.op = "fieldDone" => t = Fields(f.dt)[f.field].type
  /\ f.op = "remainDone" => t = RemainType(f) \/ (RemainIsPointer(f) /\ t = Elem(RemainType(f)))

\* The stack of a session: every frame is well typed, every caller can take
\* what the function it called returns, and so can the one on top.
StackTyped ==
  /\ \A n \in 1 .. Len(stack) : FrameTyped(stack[n])
  /\ \A n \in 1 .. Len(stack) - 1 : Accepts(stack[n], RetType(stack[n + 1]))
  /\ ~Idle /\ Top.op \in Waiting => WellTyped(ret) /\ Accepts(Top, ret.t)

\* And what the finished calls left behind is what the next ones start from.
OutcomesTyped ==
  /\ scen \in Scenarios /\ IsSeq(results) /\ Len(results) <= Len(Plan)
  /\ \A n \in 1 .. Len(results) : Of(results[n].dst, Plan[n].dt)
  /\ ~Idle => Len(results) < Len(Plan) /\ stack[1].op = "run" /\ stack[1].dt = Plan[Len(results) + 1].dt

TypedInv == StackTyped /\ OutcomesTyped

-----------------------------------------------------------------------------
(* The steps handlers are made of.                                         *)

\* A handler goes on, calls another function, or returns.
GoodTurn(f)    == FrameTyped(f) /\ RetType(f) = RetType(Top) /\ f.op \notin Waiting
GoodCall(f, c) == /\ FrameTyped(f) /\ RetType(f) = RetType(Top)
                  /\ FrameTyped(c) /\ c.op \notin Waiting /\ Accepts(f, RetType(c))
TypedStep ==
  \/ \E f : Become(f) /\ GoodTurn(f)
  \/ \E f, c : Call(f, c) /\ GoodCall(f, c)
  \/ \E v : Return(v) /\ Of(v, RetType(Top))

\* What a running function knows of its own frame.
LEMMA TopTyped ==
  ASSUME Inv, TypedInv, ~Idle
  PROVE  /\ FrameTyped(Top) /\ FrameOK(Top) /\ Top.dt \in DOMAIN Types /\ Of(Top.cur, Top.dt)
         /\ Top.op \in Waiting => WellTyped(ret) /\ Accepts(Top, ret.t)
<1>1. Len(stack) \in Nat \ {0} /\ Top = stack[Len(stack)]
  BY DEF Inv, StackOK, IsSeq, Idle, Top
<1>2. FrameTyped(Top) /\ FrameOK(Top)
  BY <1>1 DEF Inv, StackOK, TypedInv, StackTyped
<1>3. Of(Top.cur, Top.dt)
  BY <1>2 DEF FrameTyped, Of
<1> QED BY <1>2, <1>3, TypedIs DEF Of, TypedInv, StackTyped

\* Such a step leaves a well-typed stack behind.
LEMMA StepTyped ==
  ASSUME Inv, TypedInv, ~Idle, Top.op # "run", UNCHANGED <<scen, results>>, TypedStep
  PROVE  TypedInv'
<1> DEFINE m == Len(stack)
<1>1. m \in Nat \ {0} /\ Top = stack[m] /\ m # 1
  BY DEF Inv, StackOK, IsSeq, Idle, Top, TypedInv, OutcomesTyped
<1>2. /\ \A n \in 1 .. m : FrameTyped(stack[n])
      /\ \A n \in 1 .. m - 1 : Accepts(stack[n], RetType(stack[n + 1]))
  BY DEF TypedInv, StackTyped
<1>3. StackOK /\ stack[1].op = "run" /\ stack[1].dt = Plan[Len(results) + 1].dt
  BY DEF Inv, TypedInv, OutcomesTyped
<1> HIDE DEF m
<1>4. ASSUME stack' # << >>, stack'[1] = stack[1]
      PROVE  OutcomesTyped'
  BY <1>3, <1>4 DEF TypedInv, OutcomesTyped, Plan, Idle
<1>5. ASSUME NEW f, Become(f), GoodTurn(f) PROVE TypedInv'
  <2>1. /\ IsSeq(stack') /\ Len(stack') = m /\ stack'[m] = f
        /\ \A n \in 1 .. m - 1 : stack'[n] = stack[n]
    BY <1>3, <1>5, BecomeIs DEF m
  <2>2. stack' # << >> /\ stack'[1] = stack[1]
    BY <1>1, <2>1
  <2>3. \A n \in 1 .. m : FrameTyped(stack'[n])
    BY <1>1, <1>2, <1>5, <2>1 DEF GoodTurn
  <2>4. ASSUME NEW n \in 1 .. m - 1 PROVE Accepts(stack'[n], RetType(stack'[n + 1]))
    <3>1. RetType(stack'[n + 1]) = RetType(stack[n + 1])
      BY <1>1, <1>5, <2>1 DEF GoodTurn
    <3> QED BY <1>2, <2>1, <3>1
  <2>5. Top' = f
    BY <2>1 DEF Top
  <2> QED BY <1>4, <1>5, <2>1, <2>2, <2>3, <2>4, <2>5 DEF TypedInv, StackTyped, GoodTurn
<1>6. ASSUME NEW f, NEW c, Call(f, c), GoodCall(f, c) PROVE TypedInv'
  <2>1. /\ IsSeq(stack') /\ Len(stack') = m + 1 /\ stack'[m] = f /\ stack'[m + 1] = c
        /\ \A n \in 1 .. m - 1 : stack'[n] = stack[n]
    BY <1>3, <1>6, CallIs DEF m
  <2>2. stack' # << >> /\ stack'[1] = stack[1]
    BY <1>1, <2>1
  <2>3. \A n \in 1 .. m + 1 : FrameTyped(stack'[n])
    BY <1>1, <1>2, <1>6, <2>1 DEF GoodCall
  <2>4. ASSUME NEW n \in 1 .. m PROVE Accepts(stack'[n], RetType(stack'[n + 1]))
    <3>1. CASE n = m
      BY <1>6, <2>1, <3>1 DEF GoodCall
    <3>2. CASE n # m
      <4>1. RetType(stack'[n + 1]) = RetType(stack[n + 1]) /\ n \in 1 .. m - 1
        BY <1>1, <1>6, <2>1, <3>2 DEF GoodCall
      <4> QED BY <1>2, <2>1, <4>1
    <3> QED BY <3>1, <3>2
  <2>5. Top' = c /\ Len(stack') - 1 = m
    BY <1>1, <2>1 DEF Top
  <2> QED BY <1>4, <1>6, <2>1, <2>2, <2>3, <2>4, <2>5 DEF TypedInv, StackTyped, GoodCall
<1>7. ASSUME NEW v, Return(v), Of(v, RetType(Top)) PROVE TypedInv'
  <2>1. /\ IsSeq(stack') /\ Len(stack') = m - 1
        /\ \A n \in 1 .. m - 1 : stack'[n] = stack[n]
    BY <1>3, <1>7, ReturnIs DEF m
  <2>2. stack' # << >> /\ stack'[1] = stack[1]
    BY <1>1, <2>1
  <2>3. \A n \in 1 .. m - 1 : FrameTyped(stack'[n])
    BY <1>1, <1>2, <2>1
  <2>4. \A n \in 1 .. m - 1 - 1 : Accepts(stack'[n], RetType(stack'[n + 1]))
    BY <1>1, <1>2, <2>1
  <2>5. Top' = stack[m - 1] /\ ret' = v
    BY <1>1, <1>7, <2>1 DEF Top, Return
  <2>6. WellTyped(v) /\ Accepts(stack[m - 1], v.t)
    BY <1>1, <1>2, <1>7 DEF Of
  <2> QED BY <1>4, <2>1, <2>2, <2>3, <2>4, <2>5, <2>6 DEF TypedInv, StackTyped
<1> QED BY <1>5, <1>6, <1>7 DEF TypedStep

\* The three ways to show that a step is well typed.
LEMMA Turns == ASSUME NEW f, Become(f), GoodTurn(f) PROVE TypedStep
BY DEF TypedStep
LEMMA Descends == ASSUME NEW f, NEW c, Call(f, c), GoodCall(f, c) PROVE TypedStep
BY DEF TypedStep
LEMMA Ends == ASSUME NEW v, Return(v), Of(v, RetType(Top)) PROVE TypedStep
BY DEF TypedStep

\* The conversions handlers call.
LEMMA ChildTyped ==
  ASSUME NEW src, Source(src), NEW t, NEW cur, Of(cur, t), NEW tag
  PROVE  LET c == ConvertFrame(src, cur, t, tag)
         IN  /\ FrameTyped(c) /\ c.op \notin Waiting /\ RetType(c) = t
             /\ FrameTyped(Below(c)) /\ Below(c).op \notin Waiting /\ RetType(Below(c)) = t
<1> DEFINE c == ConvertFrame(src, cur, t, tag)
           b == Below(c)
<1>1. c.op = "convert" /\ c.src = src /\ c.cur = cur /\ c.dt = t /\ StartsFresh(c)
  BY DEF ConvertFrame, Frame, StartsFresh
<1>2. b.op = "convert" /\ b.src = src /\ b.cur = cur /\ b.dt = t /\ StartsFresh(b)
  BY DEF ConvertFrame, Frame, StartsFresh, Below
<1> HIDE DEF c, b
<1>3. ASSUME NEW f, f.op = "convert", f.src = src, f.cur = cur, f.dt = t, StartsFresh(f)
      PROVE  FrameTyped(f) /\ f.op \notin Waiting /\ RetType(f) = t
  BY <1>3 DEF FrameTyped, Waiting, RetType, Of, EarlyOps, EntryPoints, IfaceOps, ElemsOps, PtrOps,
              FillOps, MergeOps, EntryOps, WalkOps, MapOps, StructOps
<1> QED BY <1>1, <1>2, <1>3 DEF c, b

-----------------------------------------------------------------------------
(* The pipeline of convert.go.                                             *)

\* The destination as it is, is a valid result.
LEMMA UntouchedTyped ==
  ASSUME NEW f, f.dt \in DOMAIN Types, Of(f.cur, f.dt)
  PROVE  Of(Untouched(f), f.dt)
BY ZeroTyped DEF Untouched

\* On its way to the handlers a frame changes its stage and its source.
LEMMA EarlyFrame ==
  ASSUME Inv, TypedInv, ~Idle, Top.op \in EarlyOps \union {"convert"},
         NEW f, f.op \in EarlyOps, WellTyped(f.src), f.cur = Top.cur, f.dt = Top.dt,
         f.i = Top.i, f.todo = Top.todo, f.got = Top.got, f.left = Top.left, f.rest = Top.rest
  PROVE  GoodTurn(f)
<1> USE DEF EarlyOps, EntryPoints, IfaceOps, ElemsOps, PtrOps, FillOps, MergeOps, EntryOps, WalkOps,
            MapOps, StructOps
<1>1. FrameTyped(Top)
  BY TopTyped
<1>2. StartsFresh(f)
  BY <1>1 DEF FrameTyped, StartsFresh
<1> QED BY <1>1, <1>2 DEF GoodTurn, FrameTyped, RetType, Waiting

\* The next stage of the pipeline, same source.
LEMMA EarlyOp ==
  ASSUME Inv, TypedInv, ~Idle, Top.op \in EarlyOps, NEW op \in EarlyOps
  PROVE  GoodTurn([Top EXCEPT !.op = op])
<1> DEFINE f == [Top EXCEPT !.op = op]
<1>1. DOMAIN Top = FrameFields /\ WellTyped(Top.src)
  BY TopTyped DEF FrameOK, FrameTyped, EarlyOps, FillOps
<1>2. /\ f.op = op /\ f.src = Top.src /\ f.cur = Top.cur /\ f.dt = Top.dt
      /\ f.i = Top.i /\ f.todo = Top.todo /\ f.got = Top.got /\ f.left = Top.left /\ f.rest = Top.rest
  BY <1>1 DEF FrameFields
<1> HIDE DEF f
<1>3. GoodTurn(f)
  BY <1>1, <1>2, EarlyFrame
<1> QED BY <1>3 DEF f

\* The same stage, another source.
LEMMA EarlySrc ==
  ASSUME Inv, TypedInv, ~Idle, Top.op \in EarlyOps, NEW src, WellTyped(src)
  PROVE  GoodTurn([Top EXCEPT !.src = src])
<1> DEFINE f == [Top EXCEPT !.src = src]
<1>1. DOMAIN Top = FrameFields
  BY TopTyped DEF FrameOK
<1>2. /\ f.op = Top.op /\ f.src = src /\ f.cur = Top.cur /\ f.dt = Top.dt
      /\ f.i = Top.i /\ f.todo = Top.todo /\ f.got = Top.got /\ f.left = Top.left /\ f.rest = Top.rest
  BY <1>1 DEF FrameFields
<1> HIDE DEF f
<1>3. GoodTurn(f)
  BY <1>2, EarlyFrame
<1> QED BY <1>3 DEF f

Onward(op, src) == [Top EXCEPT !.op = op, !.src = src]

\* The next stage, another source.
LEMMA EarlyOpSrc ==
  ASSUME Inv, TypedInv, ~Idle, Top.op \in EarlyOps \union {"convert"},
         NEW op \in EarlyOps, NEW src, WellTyped(src)
  PROVE  GoodTurn(Onward(op, src))
<1> DEFINE f == [Top EXCEPT !.op = op, !.src = src]
<1>1. DOMAIN Top = FrameFields
  BY TopTyped DEF FrameOK
<1>2. /\ f.op = op /\ f.src = src /\ f.cur = Top.cur /\ f.dt = Top.dt
      /\ f.i = Top.i /\ f.todo = Top.todo /\ f.got = Top.got /\ f.left = Top.left /\ f.rest = Top.rest
  BY <1>1 DEF FrameFields
<1> HIDE DEF f
<1>3. GoodTurn(f)
  BY <1>2, EarlyFrame
<1> QED BY <1>3 DEF f, Onward

\* The source of a value on its way, what it returns, and its type.
LEMMA EarlyIs ==
  ASSUME Inv, TypedInv, ~Idle, Top.op \in EarlyOps \union {"convert"}
  PROVE  /\ Source(Top.src) /\ (Top.op # "convert" => WellTyped(Top.src))
         /\ RetType(Top) = Top.dt /\ Top.dt \in DOMAIN Types /\ Of(Top.cur, Top.dt)
         /\ Of(Untouched(Top), Top.dt)
BY TopTyped, UntouchedTyped DEF FrameTyped, RetType, EarlyOps, ElemsOps, FillOps, Source

\* A hook's value is one a client may put in.
LEMMA HookTyped ==
  ASSUME scen \in Scenarios, NEW n \in DOMAIN cfg.hooks
  PROVE  Source(cfg.hooks[n].val)
<1>1. cfg.hooks[n].val = NoValue \/ cfg.hooks[n].val \in Inputs
  BY ScenariosAssumption DEF cfg
<1>2. Closed(Inputs)
  BY InputsAssumption DEF Closed
<1> QED BY <1>1, <1>2 DEF Source, WellTyped

\* applyHooks: the value of the hook that fires replaces the source.
LEMMA HooksTyped == ASSUME Inv, TypedInv, ApplyHooks PROVE TypedStep
<1> DEFINE hs     == cfg.hooks
           firing == {j \in DOMAIN hs : Fires(hs[j], Top)}
           first  == CHOOSE j \in firing : \A k \in firing : j <= k
           value  == Unwrap(hs[first].val)
<1>1. ~Idle /\ Top.op = "hooks" /\ scen \in Scenarios
  BY DEF ApplyHooks, At, TypedInv, OutcomesTyped
<1>2. \/ Become(Onward("decode", Top.src))
      \/ Return(Top.cur)
      \/ Return(Untouched(Top))
      \/ firing # {} /\ IsValid(value) /\ Become(Onward("text", value))
  BY DEF ApplyHooks, Onward
<1>3. firing # {} => first \in DOMAIN hs
  <2>1. Len(hs) \in Nat /\ DOMAIN hs = 1 .. Len(hs)
    BY <1>1, ScenariosAssumption DEF cfg
  <2>2. firing \subseteq Nat /\ firing \subseteq DOMAIN hs
    BY <2>1
  <2> HIDE DEF firing
  <2> QED BY <2>2, FirstIs
<1>4. firing # {} /\ IsValid(value) => WellTyped(value)
  BY <1>1, <1>3, HookTyped, UnwrapTyped
<1> HIDE DEF value, firing
<1> QED BY <1>1, <1>2, <1>4, EarlyOpSrc, EarlyIs, Turns, Ends DEF EarlyOps

\* A destination that reads itself is shown as a scalar.
LEMMA ReaderTyped ==
  ASSUME NEW t \in DOMAIN Types, Types[t].has \intersect {"Decoder", "Text"} # {}, NEW x
  PROVE  Of(Scalar(t, x), t)
BY TypesAssumption, ScalarTyped DEF Of

\* dispatch hands the frame to the handler of the kind of its type.
LEMMA HandlerTurn ==
  ASSUME Inv, TypedInv, ~Idle, Top.op = "dispatch"
  PROVE  GoodTurn([Top EXCEPT !.op = Handler(Types[Top.dt].kind)])
<1> DEFINE h == Handler(Types[Top.dt].kind)
           f == [Top EXCEPT !.op = h]
<1>1. FrameTyped(Top) /\ DOMAIN Top = FrameFields /\ Top.dt \in DOMAIN Types
  BY TopTyped DEF FrameOK
<1>2. \/ DtKind(Top) = "iface"  /\ h = "toInterface"
      \/ DtKind(Top) = "ptr"    /\ h = "toPointer"
      \/ DtKind(Top) = "map"    /\ h = "toMap"
      \/ DtKind(Top) = "slice"  /\ h = "toSlice"
      \/ DtKind(Top) = "array"  /\ h = "toArray"
      \/ DtKind(Top) = "struct" /\ h = "toStruct"
      \/ h = "toScalar"
  BY DEF Handler, DtKind
<1> HIDE DEF h
<1>3. f.op = h /\ f.src = Top.src /\ f.cur = Top.cur /\ f.dt = Top.dt
      /\ (StartsFresh(Top) => StartsFresh(f))
  BY <1>1 DEF FrameFields, StartsFresh
<1> HIDE DEF f
<1> USE DEF EarlyOps, EntryPoints, IfaceOps, ElemsOps, PtrOps, FillOps, MergeOps, EntryOps, WalkOps,
            MapOps, StructOps
<1>4. WellTyped(Top.src) /\ StartsFresh(Top) /\ WellTyped(Top.cur) /\ Top.cur.t = Top.dt
  BY <1>1 DEF FrameTyped
<1>5. f.op \in EntryPoints \union {"toScalar"} /\ f.op \notin {"convert", "generic", "mapFromMap",
        "mapFromStruct", "structFromMap", "structFromStruct"}
  BY <1>2, <1>3
<1>6. WellTyped(f.src) /\ WellTyped(f.cur) /\ f.cur.t = f.dt /\ StartsFresh(f) /\ DtKind(f) = DtKind(Top)
  BY <1>3, <1>4 DEF DtKind
<1>7. FrameTyped(f)
  BY <1>2, <1>3, <1>5, <1>6 DEF FrameTyped
<1>8. f.op \notin Waiting /\ RetType(f) = RetType(Top)
  BY <1>3, <1>5 DEF Waiting, RetType
<1> QED BY <1>7, <1>8 DEF GoodTurn, f, h

\* Every step of the pipeline is well typed.
LEMMA ConvertTyped == ASSUME Inv, TypedInv, ConvertNext PROVE TypedStep
<1> USE DEF At, EarlyOps
<1>1. CASE ConvertEnter
  <2>1. ~Idle /\ Top.op = "convert"
    BY <1>1 DEF ConvertEnter
  <2>2. \/ Return(Untouched(Top))
        \/ IsValid(Unwrap(Top.src)) /\ Become(Onward("hooks", Unwrap(Top.src)))
    BY <1>1 DEF ConvertEnter, Onward
  <2> QED BY <2>1, <2>2, EarlyIs, EarlyOpSrc, UnwrapTyped, Turns, Ends
<1>2. CASE ApplyHooks
  BY <1>2, HooksTyped
<1>3. CASE ApplyValueDecoder
  <2>1. ~Idle /\ Top.op = "decode"
    BY <1>3 DEF ApplyValueDecoder
  <2>2. \/ Become([Top EXCEPT !.op = "encode"]) \/ Return(Top.cur)
        \/ "Decoder" \in Types[Top.dt].has /\ Return(Scalar(Top.dt, "decoded"))
    BY <1>3 DEF ApplyValueDecoder
  <2> QED BY <2>1, <2>2, EarlyIs, EarlyOp, ReaderTyped, Turns, Ends
<1>4. CASE ApplyValueEncoder
  <2>1. ~Idle /\ Top.op = "encode"
    BY <1>4 DEF ApplyValueEncoder
  <2>2. \/ Become(Onward("text", Top.src))
        \/ Become(Onward("text", Scalar("string", "encoded")))
        \/ Return(Top.cur)
    BY <1>4 DEF ApplyValueEncoder, Onward
  <2>3. WellTyped(Scalar("string", "encoded"))
    BY TextTyped DEF Of
  <2> QED BY <2>1, <2>2, <2>3, EarlyIs, EarlyOpSrc, Turns, Ends
<1>5. CASE UnmarshalText
  <2>1. ~Idle /\ Top.op = "text"
    BY <1>5 DEF UnmarshalText
  <2>2. \/ Become([Top EXCEPT !.op = "dispatch"]) \/ Return(Top.cur)
        \/ "Text" \in Types[Top.dt].has /\ Return(Scalar(Top.dt, Top.src.x))
    BY <1>5 DEF UnmarshalText
  <2> QED BY <2>1, <2>2, EarlyIs, EarlyOp, ReaderTyped, Turns, Ends
<1>6. CASE FollowPointer
  <2> DEFINE to == Unwrap(Top.src.kids[1])
  <2>1. ~Idle /\ Top.op = "dispatch" /\ Kind(Top.src) = "ptr"
    BY <1>6 DEF FollowPointer, FollowsPointer
  <2>2. \/ Return(Untouched(Top)) \/ Return(Top.cur)
        \/ ~Top.src.nil /\ IsValid(to) /\ Become([Top EXCEPT !.src = to])
    BY <1>6 DEF FollowPointer
  <2>3. ~Top.src.nil /\ IsValid(to) => WellTyped(to)
    BY <2>1, EarlyIs, PointeeTyped, UnwrapTyped DEF Of, Source
  <2> HIDE DEF to
  <2> QED BY <2>1, <2>2, <2>3, EarlyIs, EarlySrc, Turns, Ends
<1>7. CASE Dispatch
  BY <1>7, HandlerTurn, Turns DEF Dispatch
<1>8. CASE ToScalar
  <2> DEFINE v == IF Top.src.t = Top.dt THEN Top.src ELSE Cast(Top.src, Top.dt, weak)
  <2>1. ~Idle /\ Top.op = "toScalar"
    BY <1>8 DEF ToScalar
  <2>4. Return(Top.cur) \/ (IsValid(v) /\ Return(v))
    BY <1>8 DEF ToScalar
  <2>2. ~IsValid(NoValue)
    BY DEF IsValid, NoValue, Scalar
  <2>3. IsValid(v) => Of(v, Top.dt)
    BY <2>1, <2>2, EarlyIs, CastTyped DEF Of
  <2> HIDE DEF v
  <2> QED BY <2>1, <2>3, <2>4, EarlyIs, Ends
<1> QED BY <1>1, <1>2, <1>3, <1>4, <1>5, <1>6, <1>7, <1>8 DEF ConvertNext

-----------------------------------------------------------------------------
(* toInterface and generic.                                                *)

\* What an interface handler knows of its own frame.
LEMMA IfaceIs ==
  ASSUME Inv, TypedInv, ~Idle, Top.op \in IfaceOps
  PROVE  /\ Top.dt = "any" /\ RetType(Top) = "any" /\ WellTyped(Top.src) /\ Of(Top.cur, "any")
         /\ Top.op # "genericMapDone" => StartsFresh(Top)
<1>1. FrameTyped(Top) /\ Top.dt \in DOMAIN Types /\ Of(Top.cur, Top.dt)
  BY TopTyped
<1>2. Top.dt = "any"
  BY <1>1, TypesAssumption DEF FrameTyped, DtKind
<1> QED BY <1>1, <1>2 DEF FrameTyped, RetType, IfaceOps, ElemsOps, FillOps, EntryPoints

\* It goes on to what it holds, or waits for the map it becomes.
LEMMA IfaceFrame ==
  ASSUME Inv, TypedInv, ~Idle, Top.op \in IfaceOps,
         NEW f, f.op \in {"generic", "genericMapDone"}, WellTyped(f.src), f.cur = Top.cur, f.dt = Top.dt,
         f.op = "generic" => StartsFresh(f)
  PROVE  FrameTyped(f) /\ RetType(f) = RetType(Top)
<1>1. FrameTyped(Top)
  BY TopTyped
<1> QED BY <1>1 DEF FrameTyped, RetType, DtKind, EarlyOps, EntryPoints, IfaceOps, ElemsOps, PtrOps,
                    FillOps, MergeOps, EntryOps, WalkOps, MapOps, StructOps

\* The fresh map a struct or a map becomes.
LEMMA ToMapFrame ==
  ASSUME NEW src, WellTyped(src), NEW t, NEW cur, Of(cur, t), Types[t].kind = "map", NEW tag
  PROVE  LET c == Frame("toMap", src, cur, t, tag)
         IN  FrameTyped(c) /\ c.op \notin Waiting /\ RetType(c) = t
<1> DEFINE c == Frame("toMap", src, cur, t, tag)
<1>1. c.op = "toMap" /\ c.src = src /\ c.cur = cur /\ c.dt = t /\ StartsFresh(c)
  BY DEF Frame, StartsFresh
<1> HIDE DEF c
<1>2. FrameTyped(c) /\ c.op \notin Waiting /\ RetType(c) = t
  BY <1>1 DEF FrameTyped, RetType, Waiting, DtKind, Of, EarlyOps, EntryPoints, IfaceOps, ElemsOps,
              PtrOps, FillOps, MergeOps, EntryOps, WalkOps, MapOps, StructOps
<1> QED BY <1>2 DEF c

\* The map[string]any that a generic map is built in.
LEMMA NilMap ==
  "mapStringAny" \in DOMAIN Types /\ Of(Nil("mapStringAny"), "mapStringAny") /\ Of(Nil("any"), "any")
BY TypesAssumption, NilTyped DEF Of, NilKinds

\* toInterface and toGeneric, up to the list loop.
LEMMA InterfacesTyped ==
  ASSUME Inv, TypedInv,
         ToInterface \/ GenericReturn \/ GenericFollow \/ GenericToMap \/ GenericMapDone
  PROVE  TypedStep
<1>1. CASE ToInterface
  <2> DEFINE f == [Top EXCEPT !.op = "generic"]
  <2>1. ~Idle /\ Top.op = "toInterface"
    BY <1>1 DEF ToInterface, At
  <2>2. Return(Any(Top.src)) \/ Become(f)
    BY <1>1 DEF ToInterface
  <2>3. WellTyped(Top.src) /\ RetType(Top) = "any" /\ StartsFresh(Top) /\ DOMAIN Top = FrameFields
    BY <2>1, IfaceIs, TopTyped DEF IfaceOps, FrameOK
  <2>4. f.op = "generic" /\ f.src = Top.src /\ f.cur = Top.cur /\ f.dt = Top.dt /\ StartsFresh(f)
    BY <2>3 DEF FrameFields, StartsFresh
  <2> HIDE DEF f
  <2>5. GoodTurn(f)
    BY <2>1, <2>3, <2>4, IfaceFrame DEF GoodTurn, IfaceOps, Waiting
  <2> QED BY <2>2, <2>3, <2>5, AnyTyped, Turns, Ends
<1>2. CASE GenericReturn
  <2>1. ~Idle /\ Top.op = "generic" /\ (Return(Nil("any")) \/ Return(Any(Top.src)))
    BY <1>2 DEF GenericReturn, At
  <2> QED BY <2>1, IfaceIs, NilMap, AnyTyped, Ends DEF IfaceOps
<1>3. CASE GenericFollow
  <2> DEFINE to == Top.src.kids[1]
             f  == [Top EXCEPT !.src = to]
  <2>1. ~Idle /\ Top.op = "generic" /\ Become(f)
    BY <1>3 DEF GenericFollow, At
  <2>2. WellTyped(Top.src) /\ StartsFresh(Top) /\ DOMAIN Top = FrameFields
    BY <2>1, IfaceIs, TopTyped DEF IfaceOps, FrameOK
  <2>3. Kind(Top.src) \in {"ptr", "iface"} /\ ~Top.src.nil
    BY <1>3 DEF GenericFollow, GenericAtOnce, IsNilLike, NilKinds
  <2>4. DOMAIN Top.src.kids = {1}
    BY <2>2, <2>3, TypedIs DEF KidsFit, Kind
  <2>5. WellTyped(to)
    BY <2>2, <2>4, PartTyped
  <2> HIDE DEF to
  <2>6. f.op = "generic" /\ f.src = to /\ f.cur = Top.cur /\ f.dt = Top.dt /\ StartsFresh(f)
    BY <2>1, <2>2 DEF FrameFields, StartsFresh
  <2> HIDE DEF f
  <2>7. GoodTurn(f)
    BY <2>1, <2>5, <2>6, IfaceFrame DEF GoodTurn, IfaceOps, Waiting
  <2> QED BY <2>1, <2>7, Turns
<1>4. CASE GenericToMap
  <2> DEFINE f == [Top EXCEPT !.op = "genericMapDone"]
             c == Frame("toMap", Top.src, Nil("mapStringAny"), "mapStringAny", NoTag)
  <2>1. ~Idle /\ Top.op = "generic" /\ Call(f, c)
    BY <1>4 DEF GenericToMap, At
  <2>2. WellTyped(Top.src) /\ DOMAIN Top = FrameFields
    BY <2>1, IfaceIs, TopTyped DEF IfaceOps, FrameOK
  <2>3. f.op = "genericMapDone" /\ f.src = Top.src /\ f.cur = Top.cur /\ f.dt = Top.dt
    BY <2>2 DEF FrameFields
  <2>4. FrameTyped(c) /\ c.op \notin Waiting /\ RetType(c) = "mapStringAny"
    BY <2>2, NilMap, ToMapFrame, TypesAssumption
  <2> HIDE DEF f, c
  <2>5. FrameTyped(f) /\ RetType(f) = RetType(Top)
    BY <2>1, <2>2, <2>3, IfaceFrame DEF IfaceOps
  <2>6. Accepts(f, "mapStringAny")
    BY <2>3 DEF Accepts, Waiting
  <2> QED BY <2>1, <2>4, <2>5, <2>6, Descends DEF GoodCall
<1>5. CASE GenericMapDone
  <2>1. ~Idle /\ Top.op = "genericMapDone" /\ Return(Any(ret))
    BY <1>5 DEF GenericMapDone, At
  <2>2. WellTyped(ret) /\ RetType(Top) = "any"
    BY <2>1, IfaceIs, TopTyped DEF IfaceOps, Waiting
  <2> QED BY <2>1, <2>2, AnyTyped, Ends
<1> QED BY <1>1, <1>2, <1>3, <1>4, <1>5

\* The generic form of a list.
LEMMA ElemsIs ==
  ASSUME Inv, TypedInv, ~Idle, Top.op \in ElemsOps
  PROVE  /\ WellTyped(Top.src) /\ IsList(Top.src) /\ Top.i \in Nat \ {0}
         /\ Of(Top.cur, "sliceAny") /\ Top.dt = "sliceAny" /\ RetType(Top) = "any"
         /\ Len(Top.src.kids) \in Nat /\ DOMAIN Top.src.kids = 1 .. Len(Top.src.kids)
         /\ Len(Top.cur.kids) = Len(Top.src.kids) /\ DOMAIN Top.cur.kids = 1 .. Len(Top.src.kids)
         /\ \A n \in DOMAIN Top.cur.kids : Of(Top.cur.kids[n], "any")
<1>1. FrameTyped(Top) /\ Of(Top.cur, Top.dt)
  BY TopTyped
<1>2. /\ WellTyped(Top.src) /\ IsList(Top.src) /\ Top.i \in Nat \ {0} /\ Top.dt = "sliceAny"
      /\ Len(Top.src.kids) = Len(Top.cur.kids) /\ RetType(Top) = "any"
  BY <1>1 DEF FrameTyped, ElemsOps, FillOps, RetType
<1>3. IsList(Top.cur) /\ Elem(Top.cur.t) = "any"
  BY <1>1, <1>2, TypesAssumption DEF Of, IsList, Kind, Elem
<1> QED BY <1>1, <1>2, <1>3, ListIs DEF Of

\* What makes a frame of this loop well typed.
LEMMA ElemsFrame ==
  ASSUME NEW f, f.op \in ElemsOps, WellTyped(f.src), IsList(f.src), f.i \in Nat \ {0},
         Of(f.cur, "sliceAny"), f.dt = "sliceAny", Len(f.src.kids) = Len(f.cur.kids),
         f.op = "genericElemDone" => f.i <= Len(f.src.kids)
  PROVE  FrameTyped(f) /\ RetType(f) = "any"
BY DEF FrameTyped, RetType, DtKind, Of, EarlyOps, EntryPoints, IfaceOps, ElemsOps, PtrOps,
       FillOps, MergeOps, EntryOps, WalkOps, MapOps, StructOps

\* The loop of toGeneric over the elements of a list.
LEMMA GenericListTyped ==
  ASSUME Inv, TypedInv,
         GenericToSlice \/ GenericElem \/ GenericElemDone \/ GenericElemsDone
  PROVE  TypedStep
<1>1. CASE GenericToSlice
  <2> DEFINE ks == [n \in DOMAIN Top.src.kids |-> Nil("any")]
             s  == Holding("sliceAny", ks)
             f  == [Top EXCEPT !.op = "genericElems", !.dt = "sliceAny", !.cur = s]
  <2>1. ~Idle /\ Top.op = "generic" /\ IsList(Top.src)
    BY <1>1 DEF GenericToSlice, At
  <2>2. Become(f)
    BY <1>1 DEF GenericToSlice
  <2>3. WellTyped(Top.src) /\ StartsFresh(Top) /\ RetType(Top) = "any" /\ DOMAIN Top = FrameFields
    BY <2>1, IfaceIs, TopTyped DEF IfaceOps, FrameOK
  <2>4. Len(Top.src.kids) \in Nat /\ DOMAIN Top.src.kids = 1 .. Len(Top.src.kids)
    BY <2>1, <2>3, ListIs
  <2>5. IsFun(ks) /\ DOMAIN ks = 1 .. Len(Top.src.kids) /\ \A n \in DOMAIN ks : Of(ks[n], "any")
    BY <2>4, NilMap DEF IsFun
  <2> HIDE DEF ks
  <2>6. "sliceAny" \in DOMAIN Types /\ Types["sliceAny"].kind = "slice" /\ Elem("sliceAny") = "any"
    BY TypesAssumption DEF Elem
  <2>7. Of(s, "sliceAny") /\ s.kids = ks /\ Len(ks) = Len(Top.src.kids)
    BY <2>4, <2>5, <2>6, ListTyped
  <2> HIDE DEF s
  <2>8. /\ f.op = "genericElems" /\ f.src = Top.src /\ f.cur = s /\ f.dt = "sliceAny" /\ f.i = 1
    BY <2>3 DEF FrameFields, StartsFresh
  <2> HIDE DEF f
  <2>9. FrameTyped(f) /\ RetType(f) = "any" /\ f.op \notin Waiting
    BY <2>1, <2>3, <2>7, <2>8, ElemsFrame DEF ElemsOps, Waiting
  <2> QED BY <2>2, <2>3, <2>9, Turns DEF GoodTurn
<1>2. CASE GenericElem
  <2> DEFINE f == [Top EXCEPT !.op = "genericElemDone"]
             k == Top.src.kids[Top.i]
             c == Below(ConvertFrame(k, Nil("any"), "any", NoTag))
  <2>1. ~Idle /\ Top.op = "genericElems" /\ Top.i <= Len(Top.src.kids)
    BY <1>2 DEF GenericElem, At
  <2>2. Call(f, c)
    BY <1>2 DEF GenericElem
  <2>3. Top.op \in ElemsOps /\ DOMAIN Top = FrameFields
    BY <2>1, TopTyped DEF ElemsOps, FrameOK
  <2>4. Top.i \in DOMAIN Top.src.kids /\ WellTyped(Top.src)
    BY <2>1, <2>3, ElemsIs
  <2>5. Source(k)
    BY <2>4, PartTyped DEF Source
  <2>6. f.op = "genericElemDone" /\ f.src = Top.src /\ f.cur = Top.cur /\ f.dt = Top.dt /\ f.i = Top.i
    BY <2>3 DEF FrameFields
  <2> HIDE DEF f, k
  <2>7. FrameTyped(c) /\ c.op \notin Waiting /\ RetType(c) = "any"
    BY <2>5, NilMap, ChildTyped
  <2> HIDE DEF c
  <2>8. FrameTyped(f) /\ RetType(f) = RetType(Top)
    BY <2>1, <2>3, <2>6, ElemsIs, ElemsFrame DEF ElemsOps
  <2>9. Accepts(f, "any")
    BY <2>6 DEF Accepts, Waiting
  <2> QED BY <2>2, <2>7, <2>8, <2>9, Descends DEF GoodCall
<1>3. CASE GenericElemDone
  <2> DEFINE i  == Top.i
             ks == [Top.cur.kids EXCEPT ![i] = ret]
             s  == [Top.cur EXCEPT !.kids[i] = ret]
             n  == Top.i + 1
             f  == [Top EXCEPT !.op = "genericElems", !.cur = s, !.i = n]
  <2>1. ~Idle /\ Top.op = "genericElemDone"
    BY <1>3 DEF GenericElemDone, At
  <2>2. FrameTyped(Top) /\ DOMAIN Top = FrameFields /\ Top.op \in ElemsOps
    BY <2>1, TopTyped DEF ElemsOps, FrameOK
  <2>3. Of(ret, "any")
    BY <2>1, TopTyped DEF Waiting, Accepts, Of
  <2>4. i \in DOMAIN Top.cur.kids
    BY <2>1, <2>2, ElemsIs DEF FrameTyped
  <2>5. Of(ret, Top.cur.kids[i].t)
    BY <2>1, <2>2, <2>3, <2>4, ElemsIs DEF Of
  <2>6. Of(s, "sliceAny") /\ s.kids = ks
    BY <2>1, <2>2, <2>4, <2>5, ElemsIs, KidReplaced DEF Of
  <2>7. Len(ks) = Len(Top.src.kids)
    <3>1. IsFun(ks) /\ DOMAIN ks = 1 .. Len(Top.src.kids)
      BY <2>1, <2>2, ElemsIs DEF IsFun
    <3> QED BY <2>1, <2>2, <3>1, ElemsIs, ListLen
  <2>8. Become(f)
    BY <1>3, <2>2 DEF GenericElemDone, FrameFields
  <2> HIDE DEF s, ks
  <2>9. f.op = "genericElems" /\ f.src = Top.src /\ f.cur = s /\ f.dt = Top.dt /\ f.i = n
    BY <2>2 DEF FrameFields
  <2>10. n \in Nat \ {0}
    BY <2>1, <2>2, ElemsIs
  <2> HIDE DEF f, n
  <2>11. FrameTyped(f) /\ RetType(f) = "any" /\ f.op \notin Waiting
    BY <2>1, <2>2, <2>6, <2>7, <2>9, <2>10, ElemsIs, ElemsFrame DEF ElemsOps, Waiting
  <2> QED BY <2>1, <2>2, <2>8, <2>11, ElemsIs, Turns DEF GoodTurn
<1>4. CASE GenericElemsDone
  <2>1. ~Idle /\ Top.op = "genericElems" /\ Return(Any(Top.cur))
    BY <1>4 DEF GenericElemsDone, At
  <2> QED BY <2>1, ElemsIs, AnyTyped, Ends DEF ElemsOps, Of
<1> QED BY <1>1, <1>2, <1>3, <1>4

-----------------------------------------------------------------------------
(* toPointer.                                                              *)

\* What toPointer knows of its own frame.
LEMMA PtrIs ==
  ASSUME Inv, TypedInv, ~Idle, Top.op \in PtrOps
  PROVE  /\ WellTyped(Top.src) /\ Of(Top.cur, Top.dt) /\ Top.dt \in DOMAIN Types /\ RetType(Top) = Top.dt
         /\ Types[Top.dt].kind = "ptr" /\ Elem(Top.dt) \in DOMAIN Types
<1>1. FrameTyped(Top) /\ Of(Top.cur, Top.dt) /\ Top.dt \in DOMAIN Types
  BY TopTyped
<1>2. WellTyped(Top.src) /\ RetType(Top) = Top.dt /\ Types[Top.dt].kind = "ptr"
  BY <1>1 DEF FrameTyped, PtrOps, FillOps, ElemsOps, RetType, DtKind
<1> QED BY <1>1, <1>2, TypesAssumption DEF Elem

\* What makes a frame of it well typed.
LEMMA PtrFrame ==
  ASSUME NEW f, f.op = "pointerDone", WellTyped(f.src), Of(f.cur, f.dt), Types[f.dt].kind = "ptr"
  PROVE  FrameTyped(f) /\ RetType(f) = f.dt /\ Accepts(f, Elem(f.dt))
BY DEF FrameTyped, RetType, DtKind, Accepts, Waiting, Of, EarlyOps, EntryPoints, IfaceOps, ElemsOps,
       PtrOps, FillOps, MergeOps, EntryOps, WalkOps, MapOps, StructOps

\* toPointer: the pointee is converted, and the pointer holds it.
LEMMA PointersTyped == ASSUME Inv, TypedInv, ToPointer \/ PointerDone PROVE TypedStep
<1>1. CASE ToPointer
  <2> DEFINE old == IF Top.cur.nil \/ cfg.zeroFields THEN ZeroOf[Elem(Top.dt)] ELSE Top.cur.kids[1]
             f   == [Top EXCEPT !.op = "pointerDone"]
             c   == ConvertFrame(Top.src, old, Elem(Top.dt), Top.tag)
  <2>1. ~Idle /\ Top.op = "toPointer"
    BY <1>1 DEF ToPointer, At
  <2>2. \/ Return(Nil(Top.dt))
        \/ Top.src.t = Top.dt /\ Return(Top.src)
        \/ Call(f, c)
    BY <1>1 DEF ToPointer
  <2>3. Top.op \in PtrOps /\ DOMAIN Top = FrameFields
    BY <2>1, TopTyped DEF PtrOps, FrameOK
  <2>4. Of(old, Elem(Top.dt))
    <3>1. ~Top.cur.nil => Of(Top.cur.kids[1], Elem(Top.dt))
      BY <2>1, <2>3, PtrIs, PointeeTyped DEF Of, Kind
    <3> QED BY <2>1, <2>3, <3>1, PtrIs, ZeroTyped
  <2>5. f.op = "pointerDone" /\ f.src = Top.src /\ f.cur = Top.cur /\ f.dt = Top.dt
    BY <2>3 DEF FrameFields
  <2> HIDE DEF f, old
  <2>6. FrameTyped(c) /\ c.op \notin Waiting /\ RetType(c) = Elem(Top.dt)
    BY <2>1, <2>3, <2>4, PtrIs, ChildTyped DEF Source
  <2> HIDE DEF c
  <2>7. FrameTyped(f) /\ RetType(f) = RetType(Top) /\ Accepts(f, Elem(Top.dt))
    BY <2>1, <2>3, <2>5, PtrIs, PtrFrame
  <2>8. Of(Nil(Top.dt), Top.dt)
    BY <2>1, <2>3, PtrIs, NilTyped DEF Of, NilKinds
  <2> QED BY <2>1, <2>2, <2>3, <2>6, <2>7, <2>8, PtrIs, Ends, Descends DEF GoodCall, Of
<1>2. CASE PointerDone
  <2>1. ~Idle /\ Top.op = "pointerDone" /\ Return(Holding(Top.dt, <<ret>>))
    BY <1>2 DEF PointerDone, At
  <2>2. Top.op \in PtrOps /\ Of(ret, Elem(Top.dt))
    BY <2>1, TopTyped DEF PtrOps, Waiting, Accepts, Of
  <2> QED BY <2>1, <2>2, PtrIs, PtrTyped, Ends
<1> QED BY <1>1, <1>2

-----------------------------------------------------------------------------
(* toSlice and toArray.                                                    *)

\* The elements a list is filled from.
LEMMA KidsTyped ==
  ASSUME NEW v, WellTyped(v)
  PROVE  LET ks == IF IsList(v) THEN v.kids ELSE <<v>>
         IN  IsFun(ks) /\ IsListOfTyped(ks)
<1>1. CASE IsList(v)
  BY <1>1, ListIs DEF IsListOfTyped, Of
<1>2. CASE ~IsList(v)
  <2>1. IsFun(<<v>>) /\ Len(<<v>>) = 1 /\ DOMAIN <<v>> = 1 .. 1 /\ <<v>>[1] = v
    BY OneIs
  <2> QED BY <1>2, <2>1 DEF IsListOfTyped
<1> QED BY <1>1, <1>2

\* The slice a loop starts from has room for n elements.
LEMMA SliceOfLenTyped ==
  ASSUME NEW f, f.dt \in DOMAIN Types, Types[f.dt].kind = "slice", Of(f.cur, f.dt), NEW n \in Nat
  PROVE  Of(SliceOfLen(f, n), f.dt) /\ Len(SliceOfLen(f, n).kids) = n
<1> DEFINE old == IF f.cur.nil \/ cfg.zeroFields THEN << >> ELSE f.cur.kids
           ks  == [j \in 1 .. n |-> IF j <= Len(old) THEN old[j] ELSE ZeroOf[Elem(f.dt)]]
<1>1. SliceOfLen(f, n) = Holding(f.dt, ks)
  BY DEF SliceOfLen
<1>2. Len(old) \in Nat /\ \A j \in 1 .. Len(old) : Of(old[j], Elem(f.dt))
  <2>1. IsList(f.cur)
    BY DEF IsList, Kind, Of
  <2> QED BY <2>1, ListIs, NoKids DEF Of
<1>3. Of(ZeroOf[Elem(f.dt)], Elem(f.dt))
  BY ZeroTyped, TypesAssumption DEF Elem
<1> HIDE DEF old
<1>4. IsFun(ks) /\ DOMAIN ks = 1 .. n /\ \A j \in 1 .. n : Of(ks[j], Elem(f.dt))
  BY <1>2, <1>3 DEF IsFun
<1> HIDE DEF ks
<1> QED BY <1>1, <1>4, ListTyped

\* What makes a frame of the element loop well typed.
LEMMA FillFrame ==
  ASSUME NEW f, f.op \in FillOps, Of(f.cur, f.dt), Types[f.dt].kind \in {"slice", "array"},
         IsListOfTyped(f.src.kids), f.i \in Nat \ {0}, Len(f.src.kids) <= Len(f.cur.kids),
         f.op = "sliceElemDone" => f.i <= Len(f.src.kids)
  PROVE  FrameTyped(f) /\ RetType(f) = f.dt /\ (f.op = "sliceElemDone" => Accepts(f, Elem(f.dt)))
BY DEF FrameTyped, RetType, DtKind, Accepts, Waiting, Of, EarlyOps, EntryPoints, IfaceOps, ElemsOps,
       PtrOps, FillOps, MergeOps, EntryOps, WalkOps, MapOps, StructOps

\* The loop starts on a list of elements and a content that has room for them.
Filling(src, cur) == [Top EXCEPT !.op = "sliceElems", !.src = src, !.cur = cur]

\* The loop starts on a list no longer than the destination.
LEMMA FillStarts ==
  ASSUME Inv, TypedInv, ~Idle, Top.op \in {"toSlice", "toArray"},
         NEW src, IsListOfTyped(src.kids), NEW cur, Of(cur, Top.dt), Len(src.kids) <= Len(cur.kids),
         Become(Filling(src, cur))
  PROVE  TypedStep
<1> DEFINE f == [Top EXCEPT !.op = "sliceElems", !.src = src, !.cur = cur]
<1>1. FrameTyped(Top) /\ DOMAIN Top = FrameFields
  BY TopTyped DEF FrameOK
<1>2. Types[Top.dt].kind \in {"slice", "array"} /\ Top.i = 1 /\ RetType(Top) = Top.dt
  BY <1>1 DEF FrameTyped, DtKind, RetType, ElemsOps, EntryPoints, StartsFresh
<1>3. f.op = "sliceElems" /\ f.src = src /\ f.cur = cur /\ f.dt = Top.dt /\ f.i = 1
  BY <1>1, <1>2 DEF FrameFields
<1>4. Become(f)
  BY DEF Filling
<1> HIDE DEF f
<1>5. FrameTyped(f) /\ RetType(f) = RetType(Top)
  BY <1>2, <1>3, FillFrame DEF FillOps
<1>6. f.op \notin Waiting
  BY <1>3 DEF Waiting
<1> QED BY <1>4, <1>5, <1>6, Turns DEF GoodTurn

\* toSlice: the destination is grown or cut to the length of the source.
LEMMA ToSliceTyped == ASSUME Inv, TypedInv, ToSlice PROVE TypedStep
<1> DEFINE src  == Top.src
           kids == IF IsList(src) THEN src.kids ELSE <<src>>
           same == IF IsList(src) THEN src.t = Top.dt ELSE IsSliceOf(Top.dt, src.t)
           from == IF IsList(src) THEN src ELSE Lifted(kids)
           cur  == SliceOfLen(Top, Len(kids))
<1>1. ~Idle /\ Top.op = "toSlice"
  BY DEF ToSlice, At
<1>2. \/ OfLetters(Top.dt) /\ Return(Holding(Top.dt, Letters(Elem(Top.dt), src.x)))
      \/ Return(Top.cur)
      \/ Return(Holding(Top.dt, << >>))
      \/ Return(Nil(Top.dt))
      \/ same /\ Return(Holding(Top.dt, kids))
      \/ Become(Filling(from, cur))
  BY DEF ToSlice, Filling
<1>3. FrameTyped(Top) /\ Top.dt \in DOMAIN Types /\ Of(Top.cur, Top.dt)
  BY <1>1, TopTyped
<1>4. WellTyped(src) /\ Types[Top.dt].kind = "slice" /\ RetType(Top) = Top.dt
  BY <1>1, <1>3 DEF FrameTyped, DtKind, RetType, ElemsOps, FillOps
<1>5. IsFun(kids) /\ IsListOfTyped(kids)
  BY <1>4, KidsTyped
<1>6. same => \A n \in 1 .. Len(kids) : kids[n].t = Elem(Top.dt)
  <2>1. CASE IsList(src)
    BY <1>4, <2>1, ListIs DEF Of
  <2>2. CASE ~IsList(src)
    <3>1. Len(<<src>>) = 1 /\ <<src>>[1] = src
      OBVIOUS
    <3> QED BY <2>2, <3>1 DEF IsSliceOf
  <2> QED BY <2>1, <2>2
<1>7. IsListOfTyped(from.kids) /\ Len(from.kids) = Len(kids)
  <2>1. Lifted(kids).kids = kids
    BY DEF Lifted, Holding
  <2> QED BY <1>5, <2>1
<1> HIDE DEF kids, same
<1>8. OfLetters(Top.dt) => Of(Holding(Top.dt, Letters(Elem(Top.dt), src.x)), Top.dt)
  <2>1. Elem(Top.dt) \in DOMAIN Types /\ (OfLetters(Top.dt) => Types[Elem(Top.dt)].kind = "int")
    BY <1>3, <1>4, TypesAssumption DEF Elem, OfLetters
  <2> QED BY <1>3, <1>4, <2>1, LettersTyped, ListTyped
<1>9. Of(Holding(Top.dt, << >>), Top.dt) /\ Of(Nil(Top.dt), Top.dt)
  BY <1>3, <1>4, EmptyTyped, NilTyped DEF Of, NilKinds
<1>10. same => Of(Holding(Top.dt, kids), Top.dt)
  BY <1>3, <1>4, <1>5, <1>6, ListTyped DEF IsListOfTyped, Of
<1>11. Of(cur, Top.dt) /\ Len(cur.kids) = Len(kids)
  BY <1>3, <1>4, <1>5, SliceOfLenTyped DEF IsListOfTyped
<1>12. Len(from.kids) <= Len(cur.kids)
  BY <1>5, <1>7, <1>11 DEF IsListOfTyped
<1> HIDE DEF from, cur
<1> QED BY <1>1, <1>2, <1>3, <1>4, <1>7, <1>8, <1>9, <1>10, <1>11, <1>12, FillStarts, Ends

\* toArray: a list longer than the array is refused.
LEMMA ToArrayTyped == ASSUME Inv, TypedInv, ToArray PROVE TypedStep
<1> DEFINE src  == Top.src
           text == Kind(src) = "string"
           elem == IF OfLetters(Top.dt) THEN Elem(Top.dt) ELSE "byte"
           kids == CASE IsList(src) -> src.kids
                     [] text        -> Letters(IF OfLetters(Top.dt) THEN Elem(Top.dt) ELSE "byte", src.x)
                     [] OTHER       -> <<src>>
           from == Lifted(kids)
           cur  == ArrayToFill(Top)
<1>1. ~Idle /\ Top.op = "toArray"
  BY DEF ToArray, At
<1>2. \/ Return(Top.cur)
      \/ Return(ZeroOf[Top.dt])
      \/ /\ ~(Len(kids) > Types[Top.dt].size)
         /\ Become(Filling(from, cur))
  BY DEF ToArray, Filling
<1>3. FrameTyped(Top) /\ Top.dt \in DOMAIN Types /\ Of(Top.cur, Top.dt)
  BY <1>1, TopTyped
<1>4. WellTyped(src) /\ Types[Top.dt].kind = "array" /\ RetType(Top) = Top.dt
  BY <1>1, <1>3 DEF FrameTyped, DtKind, RetType, ElemsOps, FillOps
<1>5. Of(ZeroOf[Top.dt], Top.dt) /\ Of(cur, Top.dt)
  BY <1>3, ZeroTyped DEF ArrayToFill
<1>6. IsListOfTyped(kids)
  <2>1. CASE ~text
    <3>1. kids = IF IsList(src) THEN src.kids ELSE <<src>>
      BY <2>1
    <3> HIDE DEF kids
    <3> QED BY <1>4, <3>1, KidsTyped
  <2>2. CASE text
    <3>1. elem \in DOMAIN Types /\ Types[elem].kind = "int"
      BY <1>3, <1>4, TypesAssumption DEF Elem, OfLetters
    <3>2. kids = Letters(elem, src.x)
      BY <2>2 DEF IsList
    <3> HIDE DEF kids, elem
    <3> QED BY <3>1, <3>2, LettersTyped DEF IsListOfTyped, Of
  <2> QED BY <2>1, <2>2
<1>7. from.kids = kids
  BY DEF Lifted, Holding
<1> HIDE DEF kids
<1>8. Len(cur.kids) = Types[Top.dt].size /\ Types[Top.dt].size \in Nat
  BY <1>3, <1>4, <1>5, ListIs, TypesAssumption DEF IsList, Kind, Of
<1> HIDE DEF from, cur
<1>9. ~(Len(kids) > Types[Top.dt].size) => Len(from.kids) <= Len(cur.kids)
  BY <1>6, <1>7, <1>8 DEF IsListOfTyped
<1> QED BY <1>1, <1>2, <1>3, <1>4, <1>5, <1>6, <1>7, <1>9, FillStarts, Ends

\* The loop of both, between the conversions of its elements.
LEMMA FillIs ==
  ASSUME Inv, TypedInv, ~Idle, Top.op \in FillOps
  PROVE  /\ Of(Top.cur, Top.dt) /\ IsList(Top.cur) /\ RetType(Top) = Top.dt /\ Top.dt \in DOMAIN Types
         /\ Types[Top.dt].kind \in {"slice", "array"}
         /\ IsListOfTyped(Top.src.kids) /\ Top.i \in Nat \ {0}
         /\ Top.i <= Len(Top.src.kids) =>
              Top.i \in DOMAIN Top.src.kids /\ Top.i \in DOMAIN Top.cur.kids
              /\ Of(Top.cur.kids[Top.i], Elem(Top.dt))
         /\ Len(Top.src.kids) <= Len(Top.cur.kids) /\ Len(Top.cur.kids) \in Nat
<1>1. FrameTyped(Top) /\ Of(Top.cur, Top.dt) /\ Top.dt \in DOMAIN Types
  BY TopTyped
<1>2. /\ RetType(Top) = Top.dt /\ Types[Top.dt].kind \in {"slice", "array"}
      /\ IsListOfTyped(Top.src.kids) /\ Top.i \in Nat \ {0} /\ Len(Top.src.kids) <= Len(Top.cur.kids)
  BY <1>1 DEF FrameTyped, DtKind, RetType, ElemsOps, FillOps
<1>3. IsList(Top.cur)
  BY <1>1, <1>2 DEF IsList, Kind, Of
<1>4. Len(Top.cur.kids) \in Nat /\ DOMAIN Top.cur.kids = 1 .. Len(Top.cur.kids)
      /\ \A n \in 1 .. Len(Top.cur.kids) : Of(Top.cur.kids[n], Elem(Top.dt))
  BY <1>1, <1>3, ListIs DEF Of
<1>5. Top.i <= Len(Top.src.kids) =>
        Top.i \in DOMAIN Top.src.kids /\ Top.i \in DOMAIN Top.cur.kids
  BY <1>2, <1>4 DEF IsListOfTyped
<1> QED BY <1>1, <1>2, <1>3, <1>4, <1>5

\* The loop over the elements of a slice or an array.
LEMMA FillTyped ==
  ASSUME Inv, TypedInv, SliceElem \/ SliceElemDone \/ SliceElemsEmpty
  PROVE  TypedStep
<1>1. CASE SliceElem
  <2> DEFINE f == [Top EXCEPT !.op = "sliceElemDone"]
             k == Top.src.kids[Top.i]
             o == Top.cur.kids[Top.i]
             c == Below(ConvertFrame(k, o, Elem(Top.dt), Top.tag))
  <2>1. ~Idle /\ Top.op = "sliceElems" /\ Top.i <= Len(Top.src.kids)
    BY <1>1 DEF SliceElem, At
  <2>2. Call(f, c)
    BY <1>1 DEF SliceElem
  <2>3. Top.op \in FillOps /\ DOMAIN Top = FrameFields
    BY <2>1, TopTyped DEF FillOps, FrameOK
  <2>4. Source(k) /\ Of(o, Elem(Top.dt))
    BY <2>1, <2>3, FillIs DEF Source, IsListOfTyped
  <2>5. f.op = "sliceElemDone" /\ f.src = Top.src /\ f.cur = Top.cur /\ f.dt = Top.dt /\ f.i = Top.i
    BY <2>3 DEF FrameFields
  <2> HIDE DEF f, k, o
  <2>6. FrameTyped(c) /\ c.op \notin Waiting /\ RetType(c) = Elem(Top.dt)
    BY <2>4, ChildTyped
  <2> HIDE DEF c
  <2>7. FrameTyped(f) /\ RetType(f) = RetType(Top) /\ Accepts(f, Elem(Top.dt))
    BY <2>1, <2>3, <2>5, FillIs, FillFrame DEF FillOps
  <2> QED BY <2>2, <2>6, <2>7, Descends DEF GoodCall
<1>2. CASE SliceElemDone
  <2> DEFINE i   == Top.i
             out == [Top.cur EXCEPT !.kids[i] = ret]
             ks  == [Top.cur.kids EXCEPT ![i] = ret]
             n   == Top.i + 1
             f   == [Top EXCEPT !.op = "sliceElems", !.cur = out, !.i = n]
  <2>1. ~Idle /\ Top.op = "sliceElemDone"
    BY <1>2 DEF SliceElemDone, At
  <2>2. FrameTyped(Top) /\ DOMAIN Top = FrameFields /\ Top.op \in FillOps
    BY <2>1, TopTyped DEF FillOps, FrameOK
  <2>3. Return(out) \/ Become(f)
    BY <1>2 DEF SliceElemDone
  <2>4. Of(ret, Elem(Top.dt))
    BY <2>1, TopTyped DEF Waiting, Accepts, Of
  <2>5. i \in DOMAIN Top.cur.kids /\ Of(ret, Top.cur.kids[i].t)
    BY <2>1, <2>2, <2>4, FillIs DEF FrameTyped, Of
  <2>6. Of(out, Top.dt) /\ out.kids = ks
    BY <2>1, <2>2, <2>5, FillIs, KidReplaced DEF Of
  <2>7. Len(ks) = Len(Top.cur.kids)
    <3>1. IsFun(ks) /\ DOMAIN ks = DOMAIN Top.cur.kids
      BY DEF IsFun
    <3>2. Len(Top.cur.kids) \in Nat /\ DOMAIN Top.cur.kids = 1 .. Len(Top.cur.kids)
      BY <2>1, <2>2, FillIs, ListIs DEF Of
    <3> QED BY <3>1, <3>2, ListLen
  <2> HIDE DEF out, ks
  <2>8. f.op = "sliceElems" /\ f.src = Top.src /\ f.cur = out /\ f.dt = Top.dt /\ f.i = n
    BY <2>2 DEF FrameFields
  <2>9. n \in Nat \ {0}
    BY <2>1, <2>2, FillIs
  <2> HIDE DEF f, n
  <2>10. FrameTyped(f) /\ RetType(f) = Top.dt /\ f.op \notin Waiting
    BY <2>1, <2>2, <2>6, <2>7, <2>8, <2>9, FillIs, FillFrame DEF FillOps, Waiting
  <2> QED BY <2>1, <2>2, <2>3, <2>6, <2>10, FillIs, Turns, Ends DEF GoodTurn
<1>3. CASE SliceElemsEmpty
  <2>1. ~Idle /\ Top.op = "sliceElems" /\ Return(Top.cur)
    BY <1>3 DEF SliceElemsEmpty, At
  <2>2. Top.op \in FillOps
    BY <2>1 DEF FillOps
  <2> QED BY <2>1, <2>2, FillIs, Ends
<1> QED BY <1>1, <1>2, <1>3

-----------------------------------------------------------------------------
(* toMap and mapFromMap.                                                   *)

\* What a map handler knows of its own frame.
LEMMA MapIs ==
  ASSUME Inv, TypedInv, ~Idle, Top.op \in MapOps
  PROVE  /\ WellTyped(Top.src) /\ Of(Top.cur, Top.dt) /\ Top.dt \in DOMAIN Types
         /\ RetType(Top) = Top.dt /\ Types[Top.dt].kind = "map" /\ Kind(Top.cur) = "map"
         /\ Elem(Top.dt) \in DOMAIN Types /\ Types[Top.dt].key \in DOMAIN Types
         /\ DOMAIN Top = FrameFields
<1> USE DEF MapOps, MergeOps, EntryOps, WalkOps
<1>1. FrameTyped(Top) /\ Of(Top.cur, Top.dt) /\ Top.dt \in DOMAIN Types /\ DOMAIN Top = FrameFields
  BY TopTyped DEF FrameOK
<1>2. WellTyped(Top.src) /\ RetType(Top) = Top.dt /\ Types[Top.dt].kind = "map"
  BY <1>1 DEF FrameTyped, FillOps, ElemsOps, RetType, DtKind
<1> QED BY <1>1, <1>2, TypesAssumption DEF Elem, Of, Kind

\* What makes a frame of these functions well typed.
LEMMA MapFrame ==
  ASSUME NEW f, f.op \in MapOps, WellTyped(f.src), Of(f.cur, f.dt), Types[f.dt].kind = "map",
         f.op \in {"toMap", "mapFromMap", "mapFromStruct"} => StartsFresh(f),
         f.op \in MergeOps => IsList(f.src) /\ f.i \in Nat \ {0},
         f.op = "mergeMapDone" => f.i <= Len(f.src.kids),
         f.op = "mapFromMap" => Kind(f.src) = "map",
         f.op = "mapFromStruct" => Kind(f.src) = "struct",
         f.op \in EntryOps => Kind(f.src) = "map" /\ f.todo \subseteq DOMAIN f.src.kids,
         f.op = "mapKeyDone" => f.key \in DOMAIN f.src.kids,
         f.op \in WalkOps => Walks(f),
         f.op \in {"entryKeyDone", "entry"} => WellTyped(f.fv)
  PROVE  FrameTyped(f) /\ RetType(f) = f.dt
BY DEF FrameTyped, RetType, DtKind, Of, EarlyOps, EntryPoints, IfaceOps, ElemsOps, PtrOps,
       FillOps, MergeOps, EntryOps, WalkOps, MapOps, StructOps

\* A nil map is made before it is written to.
LEMMA EnsureMapTyped ==
  ASSUME NEW f, f.dt \in DOMAIN Types, Types[f.dt].kind = "map", Of(f.cur, f.dt)
  PROVE  Of(EnsureMap(f), f.dt)
BY EmptyTyped DEF EnsureMap

\* toMap: by the kind of the source.
LEMMA ToMapTyped == ASSUME Inv, TypedInv, ToMap PROVE TypedStep
<1> DEFINE e  == EnsureMap(Top)
           f1 == [Top EXCEPT !.op = "mapFromStruct"]
           f2 == [Top EXCEPT !.op = "mapFromMap"]
           f3 == [Top EXCEPT !.op = "mergeMaps", !.cur = e]
<1>1. ~Idle /\ Top.op = "toMap" /\ Top.op \in MapOps
  BY DEF ToMap, At, MapOps
<1>2. \/ Kind(Top.src) = "struct" /\ Become(f1)
      \/ Kind(Top.src) = "map" /\ Become(f2)
      \/ IsList(Top.src) /\ Become(f3)
      \/ Return(Top.cur)
  BY DEF ToMap
<1>3. /\ WellTyped(Top.src) /\ Of(Top.cur, Top.dt) /\ Top.dt \in DOMAIN Types
      /\ RetType(Top) = Top.dt /\ Types[Top.dt].kind = "map" /\ DOMAIN Top = FrameFields
  BY <1>1, MapIs
<1>4. StartsFresh(Top)
  BY <1>1, TopTyped DEF FrameTyped, EntryPoints
<1>5. Of(e, Top.dt)
  BY <1>3, EnsureMapTyped
<1> HIDE DEF e
<1>6. f1.op = "mapFromStruct" /\ f1.src = Top.src /\ f1.cur = Top.cur /\ f1.dt = Top.dt /\ StartsFresh(f1)
  BY <1>3, <1>4 DEF FrameFields, StartsFresh
<1>7. f2.op = "mapFromMap" /\ f2.src = Top.src /\ f2.cur = Top.cur /\ f2.dt = Top.dt /\ StartsFresh(f2)
  BY <1>3, <1>4 DEF FrameFields, StartsFresh
<1>8. f3.op = "mergeMaps" /\ f3.src = Top.src /\ f3.cur = e /\ f3.dt = Top.dt /\ f3.i = 1
  BY <1>3, <1>4 DEF FrameFields, StartsFresh
<1> HIDE DEF f1, f2, f3
<1>9. Kind(Top.src) = "struct" => GoodTurn(f1)
  BY <1>3, <1>6, MapFrame DEF GoodTurn, Waiting, MapOps, MergeOps, EntryOps, WalkOps
<1>10. Kind(Top.src) = "map" => GoodTurn(f2)
  BY <1>3, <1>7, MapFrame DEF GoodTurn, Waiting, MapOps, MergeOps, EntryOps, WalkOps
<1>11. IsList(Top.src) => GoodTurn(f3)
  BY <1>3, <1>5, <1>8, MapFrame DEF GoodTurn, Waiting, MapOps, MergeOps, EntryOps, WalkOps
<1> QED BY <1>2, <1>3, <1>9, <1>10, <1>11, Turns, Ends

\* A list of maps, merged one after the other.
LEMMA MergesTyped ==
  ASSUME Inv, TypedInv, MergeMap \/ MergeMapDone \/ MergeMapsDone
  PROVE  TypedStep
<1>0. MergeOps \subseteq MapOps
  BY DEF MapOps
<1>1. CASE MergeMap
  <2> DEFINE f == [Top EXCEPT !.op = "mergeMapDone"]
             k == Top.src.kids[Top.i]
             c == Below(ConvertFrame(k, Top.cur, Top.dt, Top.tag))
  <2>1. ~Idle /\ Top.op = "mergeMaps" /\ Top.i <= Len(Top.src.kids)
    BY <1>1 DEF MergeMap, At
  <2>2. Call(f, c)
    BY <1>1 DEF MergeMap
  <2>3. Top.op \in MapOps /\ FrameTyped(Top)
    BY <1>0, <2>1, TopTyped DEF MergeOps
  <2>4. IsList(Top.src) /\ Top.i \in Nat \ {0} /\ DOMAIN Top = FrameFields /\ WellTyped(Top.src)
    BY <2>1, <2>3, MapIs DEF FrameTyped, MergeOps
  <2>5. Source(k)
    BY <2>1, <2>4, ListIs DEF Source, Of
  <2>6. f.op = "mergeMapDone" /\ f.src = Top.src /\ f.cur = Top.cur /\ f.dt = Top.dt /\ f.i = Top.i
    BY <2>4 DEF FrameFields
  <2> HIDE DEF f, k
  <2>7. FrameTyped(c) /\ c.op \notin Waiting /\ RetType(c) = Top.dt
    BY <2>1, <2>3, <2>5, MapIs, ChildTyped
  <2> HIDE DEF c
  <2>8. FrameTyped(f) /\ RetType(f) = RetType(Top)
    BY <1>0, <2>1, <2>3, <2>4, <2>6, MapIs, MapFrame DEF MergeOps, EntryOps, WalkOps
  <2>9. Accepts(f, Top.dt)
    BY <2>6 DEF Accepts, Waiting
  <2> QED BY <2>2, <2>7, <2>8, <2>9, Descends DEF GoodCall
<1>2. CASE MergeMapDone
  <2> DEFINE n == Top.i + 1
             f == [Top EXCEPT !.op = "mergeMaps", !.cur = ret, !.i = n]
  <2>1. ~Idle /\ Top.op = "mergeMapDone"
    BY <1>2 DEF MergeMapDone, At
  <2>2. Return(ret) \/ Become(f)
    BY <1>2 DEF MergeMapDone
  <2>3. Top.op \in MapOps /\ FrameTyped(Top)
    BY <1>0, <2>1, TopTyped DEF MergeOps
  <2>4. IsList(Top.src) /\ n \in Nat \ {0} /\ DOMAIN Top = FrameFields
    BY <2>1, <2>3, MapIs DEF FrameTyped, MergeOps
  <2>5. Of(ret, Top.dt)
    BY <2>1, TopTyped DEF Waiting, Accepts, Of
  <2> HIDE DEF n
  <2>6. f.op = "mergeMaps" /\ f.src = Top.src /\ f.cur = ret /\ f.dt = Top.dt /\ f.i = n
    BY <2>4 DEF FrameFields
  <2> HIDE DEF f
  <2>7. FrameTyped(f) /\ RetType(f) = Top.dt
    BY <1>0, <2>1, <2>3, <2>4, <2>5, <2>6, MapIs, MapFrame DEF MergeOps, EntryOps, WalkOps
  <2>8. f.op \notin Waiting
    BY <2>6 DEF Waiting
  <2> QED BY <2>1, <2>2, <2>3, <2>5, <2>7, <2>8, MapIs, Turns, Ends DEF GoodTurn
<1>3. CASE MergeMapsDone
  <2>1. ~Idle /\ Top.op = "mergeMaps" /\ Return(Top.cur)
    BY <1>3 DEF MergeMapsDone, At
  <2>2. Top.op \in MapOps
    BY <1>0, <2>1 DEF MergeOps
  <2> QED BY <2>1, <2>2, MapIs, Ends
<1> QED BY <1>1, <1>2, <1>3

\* The entries of a map, walked in any order.
LEMMA EntriesIs ==
  ASSUME Inv, TypedInv, ~Idle, Top.op \in EntryOps
  PROVE  /\ Top.op \in MapOps /\ Kind(Top.src) = "map" /\ Top.todo \subseteq DOMAIN Top.src.kids
         /\ Top.op = "mapKeyDone" => Top.key \in DOMAIN Top.src.kids
BY TopTyped DEF FrameTyped, EntryOps, MapOps

\* What makes a frame of the entry loop well typed.
LEMMA EntryTurn ==
  ASSUME Inv, TypedInv, ~Idle, Top.op \in EntryOps \union {"mapFromMap"},
         NEW f, f.op \in EntryOps, f.src = Top.src, Of(f.cur, Top.dt), f.dt = Top.dt,
         Kind(f.src) = "map", f.todo \subseteq DOMAIN f.src.kids,
         f.op = "mapKeyDone" => f.key \in DOMAIN f.src.kids
  PROVE  /\ FrameTyped(f) /\ RetType(f) = RetType(Top)
         /\ f.op = "mapKeyDone" => Accepts(f, Types[Top.dt].key)
         /\ f.op = "mapElemDone" => Accepts(f, Elem(Top.dt))
<1>1. Top.op \in MapOps /\ f.op \in MapOps
  BY DEF MapOps
<1>2. FrameTyped(f) /\ RetType(f) = RetType(Top)
  BY <1>1, MapIs, MapFrame DEF EntryOps, MergeOps, WalkOps
<1> QED BY <1>2 DEF Accepts, Waiting

\* mapFromMap starts its loop.
LEMMA MapFromMapTyped == ASSUME Inv, TypedInv, MapFromMap PROVE TypedStep
<1> DEFINE e == EnsureMap(Top)
           d == DOMAIN Top.src.kids
           f == [Top EXCEPT !.op = "mapEntries", !.cur = e, !.todo = d]
<1>1. ~Idle /\ Top.op = "mapFromMap" /\ Top.op \in MapOps
  BY DEF MapFromMap, At, MapOps
<1>2. Return(Nil(Top.dt)) \/ Become(f)
  BY DEF MapFromMap
<1>3. /\ Of(Top.cur, Top.dt) /\ Top.dt \in DOMAIN Types /\ RetType(Top) = Top.dt
      /\ Types[Top.dt].kind = "map" /\ DOMAIN Top = FrameFields
  BY <1>1, MapIs
<1>4. Kind(Top.src) = "map"
  BY <1>1, TopTyped DEF FrameTyped
<1>5. Of(e, Top.dt) /\ Of(Nil(Top.dt), Top.dt)
  BY <1>3, EnsureMapTyped, NilTyped DEF Of, NilKinds
<1>6. d = DOMAIN Top.src.kids
  OBVIOUS
<1> HIDE DEF e, d
<1>7. f.op = "mapEntries" /\ f.src = Top.src /\ f.cur = e /\ f.dt = Top.dt /\ f.todo = d
  BY <1>3 DEF FrameFields
<1> HIDE DEF f
<1>8. GoodTurn(f)
  BY <1>1, <1>4, <1>5, <1>6, <1>7, EntryTurn DEF GoodTurn, EntryOps, Waiting
<1> QED BY <1>2, <1>3, <1>5, <1>8, Turns, Ends

\* An entry is picked and its key converted.
LEMMA MapEntryTyped == ASSUME Inv, TypedInv, MapEntry PROVE TypedStep
<1>0. PICK k \in Top.todo :
        /\ Call([Top EXCEPT !.op = "mapKeyDone", !.key = k, !.todo = @ \ {k}],
                Below(ConvertFrame(Scalar(Types[Top.src.t].key, k),
                                   ZeroOf[Types[Top.dt].key], Types[Top.dt].key, NoTag)))
        /\ Push(Seg(k))
  BY Zenon DEF MapEntry
<1>1. ~Idle /\ Top.op = "mapEntries" /\ Top.op \in EntryOps
  BY Zenon DEF MapEntry, At, EntryOps
<1> DEFINE kt == Types[Top.src.t].key
           dk == Types[Top.dt].key
           t  == Top.todo \ {k}
           s  == Scalar(kt, k)
           z  == ZeroOf[dk]
           f  == [Top EXCEPT !.op = "mapKeyDone", !.key = k, !.todo = t]
           c  == Below(ConvertFrame(s, z, dk, NoTag))
<1>2. Call(f, c)
  BY <1>0
<1>3. WellTyped(Top.src) /\ Of(Top.cur, Top.dt) /\ DOMAIN Top = FrameFields /\ dk \in DOMAIN Types
      /\ Kind(Top.src) = "map" /\ k \in DOMAIN Top.src.kids /\ t \subseteq DOMAIN Top.src.kids
  BY <1>1, EntriesIs, MapIs
<1>4. kt \in DOMAIN Types /\ Types[kt].kind \in {"string", "int"}
  BY <1>3, TypedIs, TypesAssumption DEF Kind
<1>5. Source(s)
  BY <1>4, ScalarTyped DEF Source
<1>6. Of(z, dk)
  BY <1>3, ZeroTyped
<1> HIDE DEF t, s, z
<1>8. /\ f.op = "mapKeyDone" /\ f.src = Top.src /\ f.cur = Top.cur /\ f.dt = Top.dt
      /\ f.todo = t /\ f.key = k
  BY <1>3 DEF FrameFields
<1> HIDE DEF f
<1>9. FrameTyped(c) /\ c.op \notin Waiting /\ RetType(c) = dk
  BY <1>5, <1>6, ChildTyped
<1> HIDE DEF c
<1>10. FrameTyped(f) /\ RetType(f) = RetType(Top) /\ Accepts(f, dk)
  BY <1>1, <1>3, <1>8, EntryTurn DEF EntryOps
<1> QED BY <1>2, <1>9, <1>10, Descends DEF GoodCall

\* The loop over the entries of a map.
LEMMA EntriesTyped ==
  ASSUME Inv, TypedInv, MapEntry \/ MapKeyDone \/ MapElemDone \/ MapEntriesDone
  PROVE  TypedStep
<1>1. CASE MapEntry
  BY <1>1, MapEntryTyped
<1>2. CASE MapKeyDone
  <2> DEFINE old == IF ret.x \in DOMAIN Top.cur.kids /\ ~cfg.zeroFields
                    THEN Top.cur.kids[ret.x] ELSE ZeroOf[Elem(Top.dt)]
             f   == [Top EXCEPT !.op = "mapElemDone", !.val = ret]
             k   == Top.src.kids[Top.key]
             c   == ConvertFrame(k, old, Elem(Top.dt), NoTag)
  <2>1. ~Idle /\ Top.op = "mapKeyDone" /\ Top.op \in EntryOps
    BY <1>2 DEF MapKeyDone, At, EntryOps
  <2>2. Call(f, c)
    BY <1>2 DEF MapKeyDone
  <2>3. WellTyped(Top.src) /\ Of(Top.cur, Top.dt) /\ DOMAIN Top = FrameFields
        /\ Elem(Top.dt) \in DOMAIN Types /\ Kind(Top.cur) = "map"
        /\ Kind(Top.src) = "map" /\ Top.key \in DOMAIN Top.src.kids /\ Top.todo \subseteq DOMAIN Top.src.kids
    BY <2>1, EntriesIs, MapIs
  <2>4. Source(k)
    BY <2>3, PartTyped DEF Source
  <2>5. Of(old, Elem(Top.dt))
    <3>1. \A j \in DOMAIN Top.cur.kids : Of(Top.cur.kids[j], Elem(Top.dt))
      BY <2>3, TypedIs, PartTyped DEF KidsFit, Kind, Of
    <3> QED BY <2>3, <3>1, ZeroTyped
  <2>6. f.op = "mapElemDone" /\ f.src = Top.src /\ f.cur = Top.cur /\ f.dt = Top.dt /\ f.todo = Top.todo
    BY <2>3 DEF FrameFields
  <2> HIDE DEF f, k, old
  <2>7. FrameTyped(c) /\ c.op \notin Waiting /\ RetType(c) = Elem(Top.dt)
    BY <2>4, <2>5, ChildTyped
  <2> HIDE DEF c
  <2>8. FrameTyped(f) /\ RetType(f) = RetType(Top) /\ Accepts(f, Elem(Top.dt))
    BY <2>1, <2>3, <2>6, EntryTurn DEF EntryOps
  <2> QED BY <2>2, <2>7, <2>8, Descends DEF GoodCall
<1>3. CASE MapElemDone
  <2> DEFINE s == Stored(Top.cur, Top.val.x, ret)
             f == [Top EXCEPT !.op = "mapEntries", !.cur = s]
  <2>1. ~Idle /\ Top.op = "mapElemDone" /\ Top.op \in EntryOps
    BY <1>3 DEF MapElemDone, At, EntryOps
  <2>2. Return(Top.cur) \/ Become(f)
    BY <1>3 DEF MapElemDone
  <2>3. Of(Top.cur, Top.dt) /\ DOMAIN Top = FrameFields /\ RetType(Top) = Top.dt /\ Kind(Top.cur) = "map"
        /\ Kind(Top.src) = "map" /\ Top.todo \subseteq DOMAIN Top.src.kids
    BY <2>1, EntriesIs, MapIs
  <2>4. Of(ret, Elem(Top.dt))
    BY <2>1, TopTyped DEF Waiting, Accepts, Of
  <2>5. Of(s, Top.dt)
    BY <2>3, <2>4, StoredTyped DEF Of
  <2> HIDE DEF s
  <2>6. f.op = "mapEntries" /\ f.src = Top.src /\ f.cur = s /\ f.dt = Top.dt /\ f.todo = Top.todo
    BY <2>3 DEF FrameFields
  <2> HIDE DEF f
  <2>7. GoodTurn(f)
    BY <2>1, <2>3, <2>5, <2>6, EntryTurn DEF GoodTurn, EntryOps, Waiting
  <2> QED BY <2>2, <2>3, <2>7, Turns, Ends
<1>4. CASE MapEntriesDone
  <2>1. ~Idle /\ Top.op \in EntryOps /\ Return(Top.cur)
    BY <1>4 DEF MapEntriesDone, At, EntryOps
  <2> QED BY <2>1, EntriesIs, MapIs, Ends
<1> QED BY <1>1, <1>2, <1>3, <1>4

\* Every step of the handlers of container.go is well typed.
LEMMA ContainersTyped == ASSUME Inv, TypedInv, ContainersNext PROVE TypedStep
BY InterfacesTyped, GenericListTyped, PointersTyped, ToSliceTyped, ToArrayTyped, FillTyped,
   ToMapTyped, MergesTyped, MapFromMapTyped, EntriesTyped DEF ContainersNext

-----------------------------------------------------------------------------
(* The walk over the readable fields of a struct source.                   *)

\* The walk goes on: only where it is has changed.
WalkOn(f, g) ==
  /\ DOMAIN g = FrameFields /\ g.op = f.op /\ g.src = f.src /\ g.cur = f.cur /\ g.dt = f.dt
  /\ g.got = f.got /\ g.left = f.left /\ g.rest = f.rest /\ Walks(g)

\* An item of the walk is well typed, and the walk goes on after it.
LEMMA ItemIs ==
  ASSUME NEW f, DOMAIN f = FrameFields, WellTyped(f.src), Walks(f), NEW item \in Items(f)
  PROVE  WellTyped(item.val) /\ WalkOn(f, item.next)
<1>1. CASE f.todo # {}
  <2>1. PICK k \in f.todo :
          item = [name |-> k, val |-> f.val.kids[k], tag |-> NoTag,
                  next |-> [f EXCEPT !.todo = @ \ {k}]]
    BY <1>1 DEF Items
  <2> DEFINE g == [f EXCEPT !.todo = f.todo \ {k}]
  <2>2. item.val = f.val.kids[k] /\ item.next = g
    BY <2>1
  <2>3. /\ DOMAIN g = FrameFields /\ g.op = f.op /\ g.src = f.src /\ g.cur = f.cur /\ g.dt = f.dt
        /\ g.got = f.got /\ g.left = f.left /\ g.rest = f.rest /\ g.val = f.val
        /\ g.todo = f.todo \ {k}
    BY DEF FrameFields
  <2> HIDE DEF g
  <2>4. Walks(g)
    BY <2>3 DEF Walks
  <2> QED BY <2>2, <2>3, <2>4 DEF Walks, WalkOn
<1>2. CASE f.todo = {}
  <2> DEFINE n == f.i + 1
             g == [f EXCEPT !.i = n]
  <2>1. f.i \in DOMAIN f.src.kids /\ item.val = f.src.kids[f.i] /\ item.next = g
    BY <1>2 DEF Items
  <2> HIDE DEF n
  <2>2. /\ DOMAIN g = FrameFields /\ g.op = f.op /\ g.src = f.src /\ g.cur = f.cur /\ g.dt = f.dt
        /\ g.got = f.got /\ g.left = f.left /\ g.rest = f.rest /\ g.val = f.val /\ g.todo = f.todo
    BY DEF FrameFields
  <2> HIDE DEF g
  <2>3. Walks(g)
    BY <2>2 DEF Walks
  <2> QED BY <2>1, <2>2, <2>3, PartTyped DEF WalkOn
<1> QED BY <1>1, <1>2

\* So it does when a field is passed over or a remain map opened.
LEMMA SkipIs ==
  ASSUME NEW f, DOMAIN f = FrameFields, WellTyped(f.src), Walks(f), f.todo = {}
  PROVE  WalkOn(f, SkipField(f))
<1> DEFINE m  == DerefOrZero(f.src.kids[f.i])
           n  == f.i + 1
           d  == DOMAIN m.kids
           g1 == [f EXCEPT !.i = n, !.val = m, !.todo = d]
           g2 == [f EXCEPT !.i = n]
<1>1. SkipField(f) = IF f.i \in DOMAIN f.src.kids /\ Kind(m) = "map" THEN g1 ELSE g2
  BY DEF SkipField
<1>2. f.i \in DOMAIN f.src.kids => WellTyped(m)
  BY PartTyped, DerefTyped
<1>3. f.i \in DOMAIN f.src.kids => \A k \in d : WellTyped(m.kids[k])
  BY <1>2, PartTyped
<1> HIDE DEF n, m
<1>4. /\ DOMAIN g1 = FrameFields /\ g1.op = f.op /\ g1.src = f.src /\ g1.cur = f.cur /\ g1.dt = f.dt
      /\ g1.got = f.got /\ g1.left = f.left /\ g1.rest = f.rest /\ g1.val = m /\ g1.todo = d
  BY DEF FrameFields
<1>5. /\ DOMAIN g2 = FrameFields /\ g2.op = f.op /\ g2.src = f.src /\ g2.cur = f.cur /\ g2.dt = f.dt
      /\ g2.got = f.got /\ g2.left = f.left /\ g2.rest = f.rest /\ g2.todo = {}
  BY DEF FrameFields
<1> HIDE DEF g1, g2
<1>6. f.i \in DOMAIN f.src.kids => Walks(g1)
  BY <1>3, <1>4 DEF Walks
<1>7. Walks(g2)
  BY <1>5 DEF Walks
<1> QED BY <1>1, <1>4, <1>5, <1>6, <1>7 DEF WalkOn

\* The deref option leaves a well-typed value.
LEMMA DereferencedTyped ==
  ASSUME NEW item, WellTyped(item.val) PROVE WellTyped(Dereferenced(item))
BY DerefTyped DEF Dereferenced

-----------------------------------------------------------------------------
(* struct -> map.                                                          *)

\* What the walk knows of its own frame.
LEMMA WalkOpIs ==
  ASSUME Inv, TypedInv, ~Idle, Top.op \in WalkOps
  PROVE  /\ Top.op \in MapOps /\ Walks(Top)
         /\ Top.op \in {"entryKeyDone", "entry"} => WellTyped(Top.fv)
BY TopTyped DEF FrameTyped, WalkOps, MapOps

\* What makes a frame of the walk into a map well typed.
LEMMA WalkTurn ==
  ASSUME Inv, TypedInv, ~Idle, Top.op \in WalkOps \union {"mapFromStruct"},
         NEW f, f.op \in WalkOps, f.src = Top.src, Of(f.cur, Top.dt), f.dt = Top.dt, Walks(f),
         f.op \in {"entryKeyDone", "entry"} => WellTyped(f.fv)
  PROVE  /\ FrameTyped(f) /\ RetType(f) = RetType(Top)
         /\ f.op = "entryKeyDone" => Accepts(f, Types[Top.dt].key)
         /\ f.op = "entryDone" => Accepts(f, Elem(Top.dt))
         /\ f.op \in {"walkToMap", "entry"} => f.op \notin Waiting
<1>1. Top.op \in MapOps /\ f.op \in MapOps
  BY DEF MapOps
<1>2. FrameTyped(f) /\ RetType(f) = RetType(Top)
  BY <1>1, MapIs, MapFrame DEF EntryOps, MergeOps, WalkOps
<1> QED BY <1>2 DEF Accepts, Waiting

\* mapFromStruct starts the walk.
LEMMA MapFromStructTyped == ASSUME Inv, TypedInv, MapFromStruct PROVE TypedStep
<1> DEFINE e == IF Top.cur.nil \/ cfg.zeroFields THEN Holding(Top.dt, << >>) ELSE Top.cur
           f == [Top EXCEPT !.op = "walkToMap", !.cur = e]
<1>1. ~Idle /\ Top.op = "mapFromStruct" /\ Top.op \in MapOps
  BY DEF MapFromStruct, At, MapOps
<1>2. Return(Top.cur) \/ Become(f)
  BY DEF MapFromStruct
<1>3. /\ Of(Top.cur, Top.dt) /\ Top.dt \in DOMAIN Types /\ RetType(Top) = Top.dt
      /\ Types[Top.dt].kind = "map" /\ DOMAIN Top = FrameFields
  BY <1>1, MapIs
<1>4. Kind(Top.src) = "struct" /\ StartsFresh(Top)
  BY <1>1, TopTyped DEF FrameTyped, EntryPoints
<1>5. Of(e, Top.dt)
  BY <1>3, EmptyTyped
<1> HIDE DEF e
<1>6. f.op = "walkToMap" /\ f.src = Top.src /\ f.cur = e /\ f.dt = Top.dt /\ f.todo = {}
  BY <1>3, <1>4 DEF FrameFields, StartsFresh
<1> HIDE DEF f
<1>7. Walks(f)
  BY <1>4, <1>6 DEF Walks
<1>8. GoodTurn(f)
  BY <1>1, <1>5, <1>6, <1>7, WalkTurn DEF GoodTurn, WalkOps
<1> QED BY <1>2, <1>3, <1>8, Turns, Ends

\* writeMapEntry: the key first, when it needs a conversion.
LEMMA WalkToMapTyped == ASSUME Inv, TypedInv, WalkToMap PROVE TypedStep
<1>0. PICK item \in Items(Top) :
        LET v == Dereferenced(item)
            f == [item.next EXCEPT !.key = item.name, !.fv = v, !.vtag = item.tag]
            key == Scalar("string", item.name)
        IN  /\ IF PlainKey(Top.dt)
               THEN Become([f EXCEPT !.op = "entry"])
               ELSE Call([f EXCEPT !.op = "entryKeyDone"],
                         Below(ConvertFrame(key, ZeroOf[Types[Top.dt].key], Types[Top.dt].key, NoTag)))
            /\ Push(Seg(item.name))
  BY Zenon DEF WalkToMap
<1>1. ~Idle /\ Top.op = "walkToMap" /\ Top.op \in WalkOps
  BY Zenon DEF WalkToMap, At, WalkOps
<1> DEFINE v  == Dereferenced(item)
           g  == item.next
           f  == [g EXCEPT !.key = item.name, !.fv = v, !.vtag = item.tag]
           f1 == [f EXCEPT !.op = "entry"]
           f2 == [f EXCEPT !.op = "entryKeyDone"]
           dk == Types[Top.dt].key
           k  == Scalar("string", item.name)
           z  == ZeroOf[dk]
           c  == Below(ConvertFrame(k, z, dk, NoTag))
<1>2. Become(f1) \/ Call(f2, c)
  BY <1>0
<1>3. /\ WellTyped(Top.src) /\ Of(Top.cur, Top.dt) /\ DOMAIN Top = FrameFields /\ dk \in DOMAIN Types
      /\ Walks(Top)
  BY <1>1, WalkOpIs, MapIs
<1>4. WellTyped(v) /\ WalkOn(Top, g)
  BY <1>3, ItemIs, DereferencedTyped
<1>5. Source(k) /\ Of(z, dk)
  BY <1>3, TextTyped, ZeroTyped DEF Source, Of
<1> HIDE DEF v, g, k, z
<1>6. /\ f1.op = "entry" /\ f1.src = g.src /\ f1.cur = g.cur /\ f1.dt = g.dt
      /\ f1.todo = g.todo /\ f1.val = g.val /\ f1.fv = v
  BY <1>4 DEF FrameFields, WalkOn
<1>7. /\ f2.op = "entryKeyDone" /\ f2.src = g.src /\ f2.cur = g.cur /\ f2.dt = g.dt
      /\ f2.todo = g.todo /\ f2.val = g.val /\ f2.fv = v
  BY <1>4 DEF FrameFields, WalkOn
<1> HIDE DEF f1, f2
<1>8. FrameTyped(c) /\ c.op \notin Waiting /\ RetType(c) = dk
  BY <1>5, ChildTyped
<1> HIDE DEF c
<1>9. Walks(f1) /\ Walks(f2)
  BY <1>4, <1>6, <1>7 DEF Walks, WalkOn
<1>10. GoodTurn(f1)
  BY <1>1, <1>3, <1>4, <1>6, <1>9, WalkTurn DEF GoodTurn, WalkOps, WalkOn
<1>11. FrameTyped(f2) /\ RetType(f2) = RetType(Top) /\ Accepts(f2, dk)
  BY <1>1, <1>3, <1>4, <1>7, <1>9, WalkTurn DEF WalkOps, WalkOn
<1> QED BY <1>2, <1>8, <1>10, <1>11, Turns, Descends DEF GoodCall

\* ... the converted key,
LEMMA EntryKeyDoneTyped == ASSUME Inv, TypedInv, EntryKeyDone PROVE TypedStep
<1> DEFINE x == ret.x
           f == [Top EXCEPT !.op = "entry", !.key = x]
<1>1. ~Idle /\ Top.op = "entryKeyDone" /\ Top.op \in WalkOps
  BY DEF EntryKeyDone, At, WalkOps
<1>2. Become(f)
  BY DEF EntryKeyDone
<1>3. /\ Of(Top.cur, Top.dt) /\ DOMAIN Top = FrameFields /\ Walks(Top) /\ WellTyped(Top.fv)
  BY <1>1, WalkOpIs, MapIs
<1> HIDE DEF x
<1>4. /\ f.op = "entry" /\ f.src = Top.src /\ f.cur = Top.cur /\ f.dt = Top.dt
      /\ f.todo = Top.todo /\ f.val = Top.val /\ f.fv = Top.fv
  BY <1>3 DEF FrameFields
<1> HIDE DEF f
<1>5. Walks(f)
  BY <1>3, <1>4 DEF Walks
<1>6. GoodTurn(f)
  BY <1>1, <1>3, <1>4, <1>5, WalkTurn DEF GoodTurn, WalkOps
<1> QED BY <1>2, <1>6, Turns

\* ... the element, as it is or as text,
LEMMA WriteEntryTyped == ASSUME Inv, TypedInv, WriteEntry PROVE TypedStep
<1> DEFINE f == [Top EXCEPT !.op = "entryDone"]
           s == IF "string" \in Top.vtag THEN Stringify(Top.fv) ELSE Top.fv
           t == IF "string" \in Top.vtag THEN NoTag ELSE Top.vtag
           z == ZeroOf[Elem(Top.dt)]
           c == ConvertFrame(s, z, Elem(Top.dt), t)
<1>1. ~Idle /\ Top.op = "entry" /\ Top.op \in WalkOps
  BY DEF WriteEntry, At, WalkOps
<1>2. Call(f, c)
  BY DEF WriteEntry, EntryFrame
<1>3. /\ Of(Top.cur, Top.dt) /\ DOMAIN Top = FrameFields /\ Walks(Top) /\ WellTyped(Top.fv)
      /\ Elem(Top.dt) \in DOMAIN Types
  BY <1>1, WalkOpIs, MapIs
<1>4. Source(s)
  BY <1>3, StringifyTyped DEF Source
<1>5. Of(z, Elem(Top.dt))
  BY <1>3, ZeroTyped
<1> HIDE DEF s, z, t
<1>6. /\ f.op = "entryDone" /\ f.src = Top.src /\ f.cur = Top.cur /\ f.dt = Top.dt
      /\ f.todo = Top.todo /\ f.val = Top.val
  BY <1>3 DEF FrameFields
<1> HIDE DEF f
<1>7. FrameTyped(c) /\ c.op \notin Waiting /\ RetType(c) = Elem(Top.dt)
  BY <1>4, <1>5, ChildTyped
<1> HIDE DEF c
<1>8. Walks(f)
  BY <1>3, <1>6 DEF Walks
<1>9. FrameTyped(f) /\ RetType(f) = RetType(Top) /\ Accepts(f, Elem(Top.dt))
  BY <1>1, <1>3, <1>6, <1>8, WalkTurn DEF WalkOps
<1> QED BY <1>2, <1>7, <1>9, Descends DEF GoodCall

\* ... refused when it has no text,
LEMMA RefuseEntryTyped == ASSUME Inv, TypedInv, RefuseEntry PROVE TypedStep
<1> DEFINE f == [Top EXCEPT !.op = "walkToMap"]
<1>1. ~Idle /\ Top.op = "entry" /\ Top.op \in WalkOps
  BY DEF RefuseEntry, At, WalkOps
<1>2. Return(Top.cur) \/ Become(f)
  BY DEF RefuseEntry
<1>3. /\ Of(Top.cur, Top.dt) /\ DOMAIN Top = FrameFields /\ Walks(Top) /\ RetType(Top) = Top.dt
  BY <1>1, WalkOpIs, MapIs
<1>4. /\ f.op = "walkToMap" /\ f.src = Top.src /\ f.cur = Top.cur /\ f.dt = Top.dt
      /\ f.todo = Top.todo /\ f.val = Top.val
  BY <1>3 DEF FrameFields
<1> HIDE DEF f
<1>5. Walks(f)
  BY <1>3, <1>4 DEF Walks
<1>6. GoodTurn(f)
  BY <1>1, <1>3, <1>4, <1>5, WalkTurn DEF GoodTurn, WalkOps
<1> QED BY <1>2, <1>3, <1>6, Turns, Ends

\* ... and stored when it is converted.
LEMMA EntryDoneTyped == ASSUME Inv, TypedInv, EntryDone PROVE TypedStep
<1> DEFINE ks == [k \in DOMAIN Top.cur.kids \union {Top.key} |->
                    IF k = Top.key THEN ret ELSE Top.cur.kids[k]]
           s  == [Top.cur EXCEPT !.kids = ks]
           f  == [Top EXCEPT !.op = "walkToMap", !.cur = s]
<1>1. ~Idle /\ Top.op = "entryDone" /\ Top.op \in WalkOps
  BY DEF EntryDone, At, WalkOps
<1>3. /\ Of(Top.cur, Top.dt) /\ DOMAIN Top = FrameFields /\ Walks(Top) /\ RetType(Top) = Top.dt
      /\ Kind(Top.cur) = "map"
  BY <1>1, WalkOpIs, MapIs
<1>2. Return(Top.cur) \/ Become(f)
  BY <1>3 DEF EntryDone, FrameFields
<1>4. Of(ret, Elem(Top.dt))
  BY <1>1, TopTyped DEF Waiting, Accepts, Of
<1>5. s = Stored(Top.cur, Top.key, ret)
  BY DEF Stored
<1>6. Of(s, Top.dt)
  BY <1>3, <1>4, <1>5, StoredTyped DEF Of
<1> HIDE DEF s
<1>7. /\ f.op = "walkToMap" /\ f.src = Top.src /\ f.cur = s /\ f.dt = Top.dt
      /\ f.todo = Top.todo /\ f.val = Top.val
  BY <1>3 DEF FrameFields
<1> HIDE DEF f
<1>8. Walks(f)
  BY <1>3, <1>7 DEF Walks
<1>9. GoodTurn(f)
  BY <1>1, <1>6, <1>7, <1>8, WalkTurn DEF GoodTurn, WalkOps
<1> QED BY <1>2, <1>3, <1>9, Turns, Ends

\* The walk ends with the map it filled.
LEMMA WalkToMapOverTyped == ASSUME Inv, TypedInv, WalkToMapOver PROVE TypedStep
<1>1. ~Idle /\ Top.op \in WalkOps /\ Return(Top.cur)
  BY DEF WalkToMapOver, At, WalkOps
<1> QED BY <1>1, WalkOpIs, MapIs, Ends

-----------------------------------------------------------------------------
(* Struct destinations.                                                    *)

\* What a struct handler knows of its own frame.
LEMMA StructOpIs ==
  ASSUME Inv, TypedInv, ~Idle, Top.op \in StructOps
  PROVE  /\ FrameTyped(Top) /\ WellTyped(Top.src) /\ Of(Top.cur, Top.dt) /\ Top.dt \in DOMAIN Types
         /\ RetType(Top) = Top.dt /\ Types[Top.dt].kind = "struct" /\ Kind(Top.cur) = "struct"
         /\ DOMAIN Top = FrameFields
<1>1. FrameTyped(Top) /\ Of(Top.cur, Top.dt) /\ Top.dt \in DOMAIN Types /\ DOMAIN Top = FrameFields
  BY TopTyped DEF FrameOK
<1>2. WellTyped(Top.src) /\ RetType(Top) = Top.dt /\ Types[Top.dt].kind = "struct"
  BY <1>1 DEF StructOps, FrameTyped, FillOps, ElemsOps, RetType, DtKind
<1> QED BY <1>1, <1>2 DEF Of, Kind

\* What makes a frame of these functions well typed.
LEMMA StructFrame ==
  ASSUME NEW f, f.op \in StructOps, WellTyped(f.src), Of(f.cur, f.dt), Types[f.dt].kind = "struct",
         f.op \in {"toStruct", "structFromMap", "structFromStruct"} => StartsFresh(f),
         f.op = "structFromMap" => Kind(f.src) = "map",
         f.op = "structFromStruct" => Kind(f.src) = "struct",
         f.op = "matchKeys" => Matches(f),
         f.op = "assignFields" => Assigns(f),
         f.op \in {"walkToStruct", "finishPairs"} => Pairs(f),
         f.op = "fieldDone" => /\ f.field \in DOMAIN f.cur.kids
                               /\ f.back = "assignFields" => Assigns(f)
                               /\ f.back = "walkToStruct" => Pairs(f),
         f.op = "finishStruct" => LeftOver(f),
         f.op = "remainDone" => f.left = << >> /\ Info[f.dt].remain \in DOMAIN f.cur.kids
  PROVE  FrameTyped(f) /\ RetType(f) = f.dt
BY DEF FrameTyped, RetType, DtKind, Of, EarlyOps, EntryPoints, IfaceOps, ElemsOps, PtrOps,
       FillOps, MergeOps, EntryOps, WalkOps, MapOps, StructOps

\* toStruct: by the type and the kind of the source.
LEMMA ToStructTyped == ASSUME Inv, TypedInv, ToStruct PROVE TypedStep
<1> DEFINE f1 == [Top EXCEPT !.op = "structFromMap"]
           f2 == [Top EXCEPT !.op = "structFromStruct"]
<1>1. ~Idle /\ Top.op = "toStruct" /\ Top.op \in StructOps
  BY DEF ToStruct, At, StructOps
<1>2. \/ Top.src.t = Top.dt /\ Return(Top.src)
      \/ Kind(Top.src) = "map" /\ Become(f1)
      \/ Kind(Top.src) = "struct" /\ Become(f2)
      \/ Return(Top.cur)
  BY DEF ToStruct
<1>3. /\ WellTyped(Top.src) /\ Of(Top.cur, Top.dt) /\ RetType(Top) = Top.dt
      /\ Types[Top.dt].kind = "struct" /\ DOMAIN Top = FrameFields
  BY <1>1, StructOpIs
<1>4. StartsFresh(Top)
  BY <1>1, TopTyped DEF FrameTyped, EntryPoints
<1>5. f1.op = "structFromMap" /\ f1.src = Top.src /\ f1.cur = Top.cur /\ f1.dt = Top.dt /\ StartsFresh(f1)
  BY <1>3, <1>4 DEF FrameFields, StartsFresh
<1>6. f2.op = "structFromStruct" /\ f2.src = Top.src /\ f2.cur = Top.cur /\ f2.dt = Top.dt
      /\ StartsFresh(f2)
  BY <1>3, <1>4 DEF FrameFields, StartsFresh
<1> HIDE DEF f1, f2
<1>7. Kind(Top.src) = "map" => GoodTurn(f1)
  BY <1>3, <1>5, StructFrame DEF GoodTurn, Waiting, StructOps
<1>8. Kind(Top.src) = "struct" => GoodTurn(f2)
  BY <1>3, <1>6, StructFrame DEF GoodTurn, Waiting, StructOps
<1> QED BY <1>2, <1>3, <1>7, <1>8, Turns, Ends DEF Of

\* One field: reached, and set or left to a conversion of its own.
LEMMA AssignTyped ==
  ASSUME Inv, TypedInv, ~Idle, NEW back \in {"assignFields", "walkToStruct"}, Top.op = back,
         NEW f, DOMAIN f = FrameFields, f.op = back, f.src = Top.src, f.cur = Top.cur, f.dt = Top.dt,
         back = "assignFields" => Assigns(f),
         back = "walkToStruct" => Pairs(f),
         NEW i \in DOMAIN Fields(Top.dt), NEW v, WellTyped(v), AssignField(f, i, v, back)
  PROVE  TypedStep
<1> DEFINE fs   == Fields(f.dt)
           into == Reach(f.cur, i)
           w    == "string" \in fs[i].opts /\ ~weak
           f0   == [f EXCEPT !.op = back]
           next == [f EXCEPT !.op = back, !.cur = into]
           g    == [next EXCEPT !.op = "fieldDone", !.back = back, !.field = i, !.weakened = w]
           c    == Below(ConvertFrame(v, into.kids[i], fs[i].type, fs[i].opts))
<1>1. Return(f.cur) \/ Become(f0) \/ Become(next) \/ Call(g, c)
  BY DEF AssignField
<1>2. /\ WellTyped(Top.src) /\ Of(Top.cur, Top.dt) /\ RetType(Top) = Top.dt /\ Top.op \in StructOps
      /\ Types[Top.dt].kind = "struct" /\ Kind(Top.cur) = "struct"
  BY StructOpIs DEF StructOps
<1>3. /\ Of(into, Top.dt) /\ i \in DOMAIN into.kids
      /\ Of(into.kids[i], fs[i].type)
  BY <1>2, ReachTyped DEF Of
<1>4. FrameTyped(c) /\ c.op \notin Waiting /\ RetType(c) = fs[i].type
  BY <1>3, ChildTyped DEF Source
<1> HIDE DEF into, c, w
<1>5. /\ f0.op = back /\ f0.src = f.src /\ f0.cur = f.cur /\ f0.dt = f.dt /\ f0.todo = f.todo
      /\ f0.got = f.got /\ f0.left = f.left /\ f0.rest = f.rest /\ f0.val = f.val
  BY DEF FrameFields
<1>6. /\ next.op = back /\ next.src = f.src /\ next.cur = into /\ next.dt = f.dt
      /\ next.todo = f.todo /\ next.got = f.got /\ next.left = f.left /\ next.rest = f.rest
      /\ next.val = f.val
  BY DEF FrameFields
<1>7. /\ g.op = "fieldDone" /\ g.src = f.src /\ g.cur = into /\ g.dt = f.dt /\ g.todo = f.todo
      /\ g.got = f.got /\ g.left = f.left /\ g.rest = f.rest /\ g.val = f.val
      /\ g.field = i /\ g.back = back
  BY DEF FrameFields
<1> HIDE DEF f0, next, g
<1>8. ASSUME NEW h, h.src = f.src, h.dt = f.dt, h.todo = f.todo, h.got = f.got, h.left = f.left,
             h.rest = f.rest, h.val = f.val
      PROVE  (Assigns(f) => Assigns(h)) /\ (Pairs(f) => Pairs(h))
  BY <1>8 DEF Assigns, Pairs, GotTyped, LeftIsKeys, Walks, RestTyped
<1>9. GoodTurn(f0)
  BY <1>2, <1>5, <1>8, StructFrame DEF GoodTurn, Waiting, StructOps
<1>10. GoodTurn(next)
  BY <1>2, <1>3, <1>6, <1>8, StructFrame DEF GoodTurn, Waiting, StructOps
<1>11. FrameTyped(g) /\ RetType(g) = RetType(Top)
  BY <1>2, <1>3, <1>7, <1>8, StructFrame DEF StructOps
<1>12. Accepts(g, fs[i].type)
  BY <1>7 DEF Accepts, Waiting
<1> QED BY <1>1, <1>2, <1>4, <1>9, <1>10, <1>11, <1>12, Turns, Descends, Ends DEF GoodCall

\* The converted value is stored in the field it was converted for.
LEMMA FieldDoneTyped == ASSUME Inv, TypedInv, FieldDone PROVE TypedStep
<1> DEFINE out == [Top.cur EXCEPT !.kids[Top.field] = ret]
           b   == Top.back
           f   == [Top EXCEPT !.op = b, !.cur = out, !.weakened = FALSE]
<1>1. ~Idle /\ Top.op = "fieldDone" /\ Top.op \in StructOps
  BY DEF FieldDone, At, StructOps
<1>2. Return(out) \/ Become(f)
  BY DEF FieldDone
<1>3. /\ FrameTyped(Top) /\ WellTyped(Top.src) /\ Of(Top.cur, Top.dt) /\ RetType(Top) = Top.dt
      /\ Types[Top.dt].kind = "struct" /\ Kind(Top.cur) = "struct" /\ DOMAIN Top = FrameFields
  BY <1>1, StructOpIs
<1>4. b \in {"assignFields", "walkToStruct"}
  BY <1>1, TopTyped DEF FrameOK
<1>5. /\ Top.field \in DOMAIN Top.cur.kids
      /\ b = "assignFields" => Assigns(Top)
      /\ b = "walkToStruct" => Pairs(Top)
  BY <1>1, <1>3 DEF FrameTyped
<1>6. Of(ret, Fields(Top.dt)[Top.field].type)
  BY <1>1, TopTyped DEF Waiting, Accepts, Of
<1>7. Top.cur.kids[Top.field].t = Fields(Top.dt)[Top.field].type
  BY <1>3, <1>5, StructIs DEF Of
<1>8. Of(out, Top.dt)
  BY <1>3, <1>5, <1>6, <1>7, KidReplaced DEF Of
<1> HIDE DEF out, b
<1>9. /\ f.op = b /\ f.src = Top.src /\ f.cur = out /\ f.dt = Top.dt /\ f.todo = Top.todo
      /\ f.got = Top.got /\ f.left = Top.left /\ f.rest = Top.rest /\ f.val = Top.val
  BY <1>3 DEF FrameFields
<1> HIDE DEF f
<1>10. (b = "assignFields" => Assigns(f)) /\ (b = "walkToStruct" => Pairs(f))
  BY <1>5, <1>9 DEF Assigns, Pairs, GotTyped, LeftIsKeys, Walks, RestTyped
<1>11. GoodTurn(f)
  BY <1>3, <1>4, <1>8, <1>9, <1>10, StructFrame DEF GoodTurn, Waiting, StructOps
<1> QED BY <1>2, <1>3, <1>8, <1>11, Turns, Ends

-----------------------------------------------------------------------------
(* map -> struct.                                                          *)

\* One more key at the end of a sequence.
LEMMA AppendTyped ==
  ASSUME NEW s, IsSeq(s), NEW k
  PROVE  /\ IsSeq(Append(s, k))
         /\ \A n \in DOMAIN Append(s, k) : Append(s, k)[n] = k \/ \E m \in DOMAIN s : Append(s, k)[n] = s[m]
<1>1. PICK S : s \in Seq(S)
  BY DEF IsSeq
<1> DEFINE T == S \union {k}
<1>2. s \in Seq(T) /\ k \in T
  BY <1>1
<1> HIDE DEF T
<1>3. /\ Append(s, k) \in Seq(T) /\ Len(Append(s, k)) = Len(s) + 1 /\ Append(s, k)[Len(s) + 1] = k
      /\ \A n \in 1 .. Len(s) : Append(s, k)[n] = s[n]
  BY <1>2, AppendProperties
<1>4. Len(s) \in Nat /\ DOMAIN s = 1 .. Len(s) /\ DOMAIN Append(s, k) = 1 .. Len(s) + 1
  BY <1>2, <1>3, LenProperties
<1>5. \A n \in 1 .. Len(s) + 1 : n \in 1 .. Len(s) \/ n = Len(s) + 1
  BY <1>4
<1> QED BY <1>3, <1>4, <1>5 DEF IsSeq

\* structFromMap starts to match the keys of the map.
LEMMA StructFromMapTyped == ASSUME Inv, TypedInv, StructFromMap PROVE TypedStep
<1> DEFINE d == DOMAIN Top.src.kids
           f == [Top EXCEPT !.op = "matchKeys", !.todo = d]
<1>1. ~Idle /\ Top.op = "structFromMap" /\ Top.op \in StructOps
  BY DEF StructFromMap, At, StructOps
<1>2. Return(Top.cur) \/ Become(f)
  BY DEF StructFromMap
<1>3. /\ FrameTyped(Top) /\ WellTyped(Top.src) /\ Of(Top.cur, Top.dt) /\ RetType(Top) = Top.dt
      /\ Types[Top.dt].kind = "struct" /\ DOMAIN Top = FrameFields
  BY <1>1, StructOpIs
<1>4. Kind(Top.src) = "map" /\ StartsFresh(Top)
  BY <1>1, <1>3 DEF FrameTyped, EntryPoints
<1>5. d = DOMAIN Top.src.kids
  OBVIOUS
<1> HIDE DEF d
<1>6. /\ f.op = "matchKeys" /\ f.src = Top.src /\ f.cur = Top.cur /\ f.dt = Top.dt /\ f.todo = d
      /\ f.got = << >> /\ f.left = << >>
  BY <1>3, <1>4 DEF FrameFields, StartsFresh
<1> HIDE DEF f
<1>7. IsSeq(<< >>) /\ DOMAIN << >> = {}
  <2>1. << >> \in Seq({})
    OBVIOUS
  <2> QED BY <2>1, NoKids DEF IsSeq
<1>8. Matches(f)
  BY <1>4, <1>5, <1>6, <1>7 DEF Matches, GotTyped, LeftIsKeys
<1>9. GoodTurn(f)
  BY <1>3, <1>6, <1>8, StructFrame DEF GoodTurn, Waiting, StructOps
<1> QED BY <1>2, <1>3, <1>9, Turns, Ends

\* A key goes to the field it names, or to those nothing claimed.
LEMMA MatchKeyTyped == ASSUME Inv, TypedInv, MatchKey PROVE TypedStep
<1>0. PICK k \in Top.todo :
        LET i == Lookup(Top.dt, k, cfg.loose)
            f == [Top EXCEPT !.todo = @ \ {k}]
            keeps == i \in Supplied(Top) /\ ~ExactMatch(Top.dt, k)
        IN  Become(IF i = 0 THEN [f EXCEPT !.left = Append(@, k)]
                   ELSE IF keeps THEN f
                   ELSE [f EXCEPT !.got = [j \in DOMAIN @ \union {i} |->
                           IF j = i THEN Top.src.kids[k] ELSE @[j]]])
  BY Zenon DEF MatchKey
<1>1. ~Idle /\ Top.op = "matchKeys" /\ Top.op \in StructOps
  BY Zenon DEF MatchKey, At, StructOps
<1> DEFINE i  == Lookup(Top.dt, k, cfg.loose)
           t  == Top.todo \ {k}
           f0 == [Top EXCEPT !.todo = t]
           l  == Append(f0.left, k)
           g  == [j \in DOMAIN f0.got \union {i} |-> IF j = i THEN Top.src.kids[k] ELSE f0.got[j]]
           f1 == [f0 EXCEPT !.left = l]
           f2 == [f0 EXCEPT !.got = g]
<1>2. /\ FrameTyped(Top) /\ WellTyped(Top.src) /\ Of(Top.cur, Top.dt) /\ RetType(Top) = Top.dt
      /\ Types[Top.dt].kind = "struct" /\ DOMAIN Top = FrameFields /\ Top.dt \in DOMAIN Types
  BY <1>1, StructOpIs
<1>3. Become(f0) \/ Become(f1) \/ (i # 0 /\ Become(f2))
  <2> DEFINE keeps == i \in Supplied(Top) /\ ~ExactMatch(Top.dt, k)
  <2>1. Become(IF i = 0 THEN f1 ELSE IF keeps THEN f0 ELSE f2)
    BY <1>0
  <2> HIDE DEF i, f0, f1, f2, keeps
  <2> QED BY <2>1
<1>4. Matches(Top)
  BY <1>1, <1>2 DEF FrameTyped
<1>5. k \in DOMAIN Top.src.kids /\ WellTyped(Top.src.kids[k])
  BY <1>2, <1>4, PartTyped DEF Matches
<1>6. i # 0 => i \in DOMAIN Fields(Top.dt)
  BY <1>2, LookupIs
<1>7. t \subseteq DOMAIN Top.src.kids
  BY <1>4 DEF Matches
<1> HIDE DEF i, t
<1>8. /\ f0.op = "matchKeys" /\ f0.src = Top.src /\ f0.cur = Top.cur /\ f0.dt = Top.dt /\ f0.todo = t
      /\ f0.got = Top.got /\ f0.left = Top.left /\ DOMAIN f0 = FrameFields
  BY <1>1, <1>2 DEF FrameFields
<1> HIDE DEF f0
<1>9. i # 0 => \A j \in DOMAIN g : j \in DOMAIN Fields(Top.dt) /\ WellTyped(g[j])
  BY <1>4, <1>5, <1>6, <1>8 DEF Matches, GotTyped
<1>10. IsSeq(l) /\ \A n \in DOMAIN l : l[n] \in DOMAIN Top.src.kids
  BY <1>4, <1>5, <1>8, AppendTyped DEF Matches, LeftIsKeys
<1> HIDE DEF l, g
<1>11. /\ f1.op = "matchKeys" /\ f1.src = Top.src /\ f1.cur = Top.cur /\ f1.dt = Top.dt /\ f1.todo = t
       /\ f1.got = Top.got /\ f1.left = l
  BY <1>8 DEF FrameFields
<1>12. /\ f2.op = "matchKeys" /\ f2.src = Top.src /\ f2.cur = Top.cur /\ f2.dt = Top.dt /\ f2.todo = t
       /\ f2.got = g /\ f2.left = Top.left
  BY <1>8 DEF FrameFields
<1> HIDE DEF f1, f2
<1>13. Matches(f0) /\ Matches(f1) /\ (i # 0 => Matches(f2))
  BY <1>4, <1>7, <1>8, <1>9, <1>10, <1>11, <1>12 DEF Matches, GotTyped, LeftIsKeys
<1>14. GoodTurn(f0) /\ GoodTurn(f1)
  BY <1>2, <1>8, <1>11, <1>13, StructFrame DEF GoodTurn, Waiting, StructOps
<1>15. i # 0 => GoodTurn(f2)
  BY <1>2, <1>12, <1>13, StructFrame DEF GoodTurn, Waiting, StructOps
<1> QED BY <1>3, <1>14, <1>15, Turns

\* A turn that hands the frame on to another operation as it is.
LEMMA HandedOn ==
  ASSUME Inv, TypedInv, ~Idle, Top.op \in StructOps,
         NEW op \in {"assignFields", "finishStruct", "finishPairs", "walkToStruct"},
         op = "assignFields" => Assigns(Top),
         op \in {"finishPairs", "walkToStruct"} => Pairs(Top),
         op = "finishStruct" => LeftIsKeys(Top)
  PROVE  GoodTurn([Top EXCEPT !.op = op])
<1> DEFINE f == [Top EXCEPT !.op = op]
<1>1. /\ WellTyped(Top.src) /\ Of(Top.cur, Top.dt) /\ RetType(Top) = Top.dt
      /\ Types[Top.dt].kind = "struct" /\ DOMAIN Top = FrameFields
  BY StructOpIs
<1>2. /\ f.op = op /\ f.src = Top.src /\ f.cur = Top.cur /\ f.dt = Top.dt /\ f.todo = Top.todo
      /\ f.got = Top.got /\ f.left = Top.left /\ f.rest = Top.rest /\ f.val = Top.val
  BY <1>1 DEF FrameFields
<1> HIDE DEF f
<1>3. /\ op = "assignFields" => Assigns(f)
      /\ op \in {"finishPairs", "walkToStruct"} => Pairs(f)
      /\ op = "finishStruct" => LeftIsKeys(f)
  BY <1>2 DEF Assigns, Pairs, GotTyped, LeftIsKeys, Walks, RestTyped
<1>4. op = "finishStruct" => LeftOver(f)
  BY <1>3 DEF LeftOver, LeftIsKeys
<1>5. GoodTurn(f)
  BY <1>1, <1>2, <1>3, <1>4, StructFrame DEF GoodTurn, Waiting, StructOps
<1> QED BY <1>5 DEF f

\* The match loop is followed by the assignments, they by finishStruct.
LEMMA MatchesDoneTyped == ASSUME Inv, TypedInv, MatchKeysDone \/ AssignFieldsDone PROVE TypedStep
<1>1. CASE MatchKeysDone
  <2>1. ~Idle /\ Top.op = "matchKeys" /\ Top.op \in StructOps /\ Become([Top EXCEPT !.op = "assignFields"])
    BY <1>1 DEF MatchKeysDone, At, StructOps
  <2>2. Assigns(Top)
    BY <2>1, TopTyped DEF FrameTyped, Matches, Assigns
  <2>3. GoodTurn([Top EXCEPT !.op = "assignFields"])
    BY <2>1, <2>2, HandedOn
  <2> QED BY <2>1, <2>3, Turns
<1>2. CASE AssignFieldsDone
  <2>1. ~Idle /\ Top.op = "assignFields" /\ Top.op \in StructOps /\ Become([Top EXCEPT !.op = "finishStruct"])
    BY <1>2 DEF AssignFieldsDone, At, StructOps
  <2>2. LeftIsKeys(Top)
    BY <2>1, TopTyped DEF FrameTyped, Assigns
  <2>3. GoodTurn([Top EXCEPT !.op = "finishStruct"])
    BY <2>1, <2>2, HandedOn
  <2> QED BY <2>1, <2>3, Turns
<1> QED BY <1>1, <1>2

\* The assignments, in declaration order.
LEMMA AssignNextTyped == ASSUME Inv, TypedInv, AssignNextField PROVE TypedStep
<1>0. PICK i \in PendingFields(Top) : AssignField([Top EXCEPT !.i = i + 1], i, Top.got[i], "assignFields")
  BY Zenon DEF AssignNextField
<1>1. ~Idle /\ Top.op = "assignFields" /\ Top.op \in StructOps
  BY Zenon DEF AssignNextField, At, StructOps
<1> DEFINE n == i + 1
           f == [Top EXCEPT !.i = n]
           v == Top.got[i]
<1>2. FrameTyped(Top) /\ DOMAIN Top = FrameFields
  BY <1>1, StructOpIs
<1>3. Assigns(Top)
  BY <1>1, <1>2 DEF FrameTyped
<1>4. i \in DOMAIN Fields(Top.dt) /\ WellTyped(v)
  BY <1>3 DEF Assigns, GotTyped, PendingFields, Supplied
<1>5. AssignField(f, i, v, "assignFields")
  BY <1>0
<1> HIDE DEF n, v
<1>6. /\ DOMAIN f = FrameFields /\ f.op = "assignFields" /\ f.src = Top.src /\ f.cur = Top.cur
      /\ f.dt = Top.dt /\ f.got = Top.got /\ f.left = Top.left
  BY <1>1, <1>2 DEF FrameFields
<1> HIDE DEF f
<1>7. Assigns(f)
  BY <1>3, <1>6 DEF Assigns, GotTyped, LeftIsKeys
<1> QED BY <1>1, <1>4, <1>5, <1>6, <1>7, AssignTyped

\* The remain field is one of the fields of its type.
LEMMA RemainIs ==
  ASSUME NEW t \in DOMAIN Types, Types[t].kind = "struct", Info[t].remain # 0
  PROVE  Info[t].remain \in DOMAIN Fields(t) /\ Fields(t)[Info[t].remain].type \in DOMAIN Types
<1>1. Info[t].remain \in 0 .. Len(Info[t].fields) /\ Len(Info[t].fields) \in Nat
      /\ DOMAIN Info[t].fields = 1 .. Len(Info[t].fields)
  BY InfoAssumption
<1> QED BY <1>1, FieldTypes DEF Fields

\* No key at all.
LEMMA NoKeys == IsSeq(<< >>)
<1>1. << >> \in Seq({})
  OBVIOUS
<1> QED BY <1>1 DEF IsSeq

\* The conversion into the remain field, through its pointer if it is one.
LEMMA RemainTyped ==
  ASSUME Inv, TypedInv, ~Idle, Top.op \in {"finishStruct", "finishPairs"},
         NEW f, DOMAIN f = FrameFields, f.src = Top.src, f.cur = Top.cur, f.dt = Top.dt,
         f.left = << >>, Info[Top.dt].remain # 0,
         NEW m, WellTyped(m), NEW follow, follow => RemainIsPointer(f), RemainInto(f, m, follow)
  PROVE  TypedStep
<1> DEFINE i    == Info[f.dt].remain
           rt   == Fields(f.dt)[i].type
           into == Reach(f.cur, i)
           slot == into.kids[i]
           ot   == IF follow THEN Elem(rt) ELSE rt
           old  == IF ~follow THEN slot
                   ELSE IF slot.nil THEN ZeroOf[Elem(rt)] ELSE slot.kids[1]
           g    == [f EXCEPT !.op = "remainDone", !.cur = into]
           c    == Below(ConvertFrame(m, old, ot, Fields(f.dt)[i].opts))
<1>1. Call(g, c)
  BY DEF RemainInto
<1>2. /\ WellTyped(Top.src) /\ Of(Top.cur, Top.dt) /\ RetType(Top) = Top.dt /\ Top.dt \in DOMAIN Types
      /\ Types[Top.dt].kind = "struct" /\ Kind(Top.cur) = "struct" /\ Top.op \in StructOps
  <2>1. Top.op \in StructOps
    BY DEF StructOps
  <2> QED BY <2>1, StructOpIs
<1>3. i \in DOMAIN Fields(Top.dt) /\ rt \in DOMAIN Types
  BY <1>2, RemainIs
<1>4. Of(into, Top.dt) /\ i \in DOMAIN into.kids /\ Of(slot, rt)
  BY <1>2, <1>3, ReachTyped DEF Of
<1>5. follow => Types[rt].kind = "ptr"
  BY DEF RemainIsPointer, RemainType
<1>6. follow => Elem(rt) \in DOMAIN Types
  BY <1>3, <1>5, TypesAssumption DEF Elem
<1> HIDE DEF into, rt, i
<1>7. Of(old, ot)
  <2>1. CASE ~follow
    BY <1>4, <2>1
  <2>2. CASE follow /\ slot.nil
    BY <1>6, <2>2, ZeroTyped
  <2>3. CASE follow /\ ~slot.nil
    BY <1>4, <1>5, <2>3, PointeeTyped DEF Of, Kind
  <2> QED BY <2>1, <2>2, <2>3
<1> HIDE DEF slot, old
<1>8. FrameTyped(c) /\ c.op \notin Waiting /\ RetType(c) = ot
  BY <1>7, ChildTyped DEF Source
<1> HIDE DEF c
<1>9. g.op = "remainDone" /\ g.src = Top.src /\ g.cur = into /\ g.dt = f.dt /\ g.left = << >>
  BY DEF FrameFields
<1> HIDE DEF g
<1>10. FrameTyped(g) /\ RetType(g) = RetType(Top)
  BY <1>2, <1>4, <1>9, StructFrame DEF StructOps, i
<1>11. RemainType(g) = rt /\ (follow => RemainIsPointer(g))
  BY <1>9 DEF RemainType, RemainIsPointer, rt, i
<1>12. Accepts(g, ot)
  BY <1>9, <1>11 DEF Accepts, Waiting
<1> QED BY <1>1, <1>8, <1>10, <1>12, Descends DEF GoodCall

\* finishStruct returns the struct.
LEMMA FinishStructTyped == ASSUME Inv, TypedInv, FinishStruct PROVE TypedStep
<1>1. ~Idle /\ Top.op \in StructOps /\ Return(Top.cur)
  BY DEF FinishStruct, At, StructOps
<1> QED BY <1>1, StructOpIs, Ends

\* What a remain field that takes nothing leaves behind is typed.
LEMMA RemainLeft ==
  ASSUME NEW f, f.dt \in DOMAIN Types, Types[f.dt].kind = "struct", Of(f.cur, f.dt),
         Info[f.dt].remain # 0
  PROVE  Of(RemainReached(f), f.dt) /\ Of(RemainAllocated(f), f.dt)
<1> DEFINE i    == Info[f.dt].remain
           rt   == RemainType(f)
           into == Reach(f.cur, i)
           slot == into.kids[i]
           new  == Holding(rt, <<ZeroOf[Elem(rt)]>>)
<1>1. i \in DOMAIN Fields(f.dt) /\ rt \in DOMAIN Types /\ rt = Fields(f.dt)[i].type
  BY RemainIs DEF RemainType
<1>2. f.cur.t = f.dt /\ WellTyped(f.cur) /\ Kind(f.cur) = "struct"
  BY DEF Of, Kind
<1>3. Of(into, f.dt) /\ i \in DOMAIN into.kids /\ Of(slot, rt)
  BY <1>1, <1>2, ReachTyped
<1>4. Of(RemainReached(f), f.dt)
  BY <1>3 DEF RemainReached
<1>5. WellTyped(into) /\ Kind(into) = "struct" /\ slot.t = rt
  BY <1>3 DEF Of, Kind
<1> HIDE DEF rt
<1>6. CASE RemainIsPointer(f) /\ slot.nil
  <2>1. Types[rt].kind = "ptr"
    BY <1>6 DEF RemainIsPointer, rt
  <2>2. Elem(rt) \in DOMAIN Types
    BY <1>1, <2>1, TypesAssumption DEF Elem
  <2>3. Of(new, rt)
    BY <1>1, <2>1, <2>2, ZeroTyped, PtrTyped DEF Of
  <2>4. RemainAllocated(f) = [into EXCEPT !.kids[i] = new]
    BY <1>6 DEF RemainAllocated, RemainReached, rt
  <2> HIDE DEF new, into
  <2>5. Of([into EXCEPT !.kids[i] = new], into.t)
    BY <1>3, <1>5, <2>3, KidReplaced DEF Of
  <2> QED BY <1>3, <1>4, <2>4, <2>5 DEF Of
<1>7. CASE ~(RemainIsPointer(f) /\ slot.nil)
  <2>1. RemainAllocated(f) = into
    BY <1>7 DEF RemainAllocated, RemainReached
  <2> QED BY <1>3, <1>4, <2>1
<1> QED BY <1>6, <1>7

\* fillRemain: the unclaimed entries as a map of the type of the source.
LEMMA FillRemainTyped == ASSUME Inv, TypedInv, FillRemain PROVE TypedStep
<1> DEFINE keys    == {Top.left[n] : n \in DOMAIN Top.left}
           ks      == [k \in keys |-> Top.src.kids[k]]
           entries == Holding(Top.src.t, ks)
           filled  == [Top EXCEPT !.left = << >>]
           follow  == RemainIsPointer(Top)
<1>1. ~Idle /\ Top.op = "finishStruct" /\ Top.left # << >> /\ Info[Top.dt].remain # 0
  BY DEF FillRemain, At
<1>2. \/ Become(filled) \/ Become([filled EXCEPT !.cur = RemainReached(Top)])
      \/ Become([filled EXCEPT !.cur = RemainAllocated(Top)])
      \/ RemainInto(filled, entries, follow)
  BY DEF FillRemain
<1>3. /\ FrameTyped(Top) /\ WellTyped(Top.src) /\ Of(Top.cur, Top.dt) /\ RetType(Top) = Top.dt
      /\ Types[Top.dt].kind = "struct" /\ DOMAIN Top = FrameFields
  BY <1>1, StructOpIs DEF StructOps
<1>4. LeftIsKeys(Top)
  BY <1>1, <1>3 DEF FrameTyped, LeftOver
<1>5. Kind(Top.src) = "map" /\ keys \subseteq DOMAIN Top.src.kids
  BY <1>4 DEF LeftIsKeys
<1>6. \A k \in DOMAIN Top.src.kids : Of(Top.src.kids[k], Elem(Top.src.t))
  BY <1>3, <1>5, TypedIs, PartTyped DEF KidsFit, Kind, Of
<1>7. IsFun(ks) /\ \A k \in DOMAIN ks : Of(ks[k], Elem(Top.src.t))
  BY <1>5, <1>6 DEF IsFun
<1> HIDE DEF keys, ks
<1>8. WellTyped(entries)
  BY <1>3, <1>5, <1>7, TypedIs, MapTyped DEF Kind, Of
<1> HIDE DEF entries
<1>9. /\ DOMAIN filled = FrameFields /\ filled.op = "finishStruct" /\ filled.src = Top.src
      /\ filled.cur = Top.cur /\ filled.dt = Top.dt /\ filled.left = << >>
  BY <1>1, <1>3 DEF FrameFields
<1> HIDE DEF filled
<1>10. GoodTurn(filled)
  <2>1. LeftOver(filled)
    BY <1>9, NoKeys DEF LeftOver
  <2> QED BY <1>3, <1>9, <2>1, StructFrame DEF GoodTurn, Waiting, StructOps
<1>13. ASSUME NEW v, Of(v, Top.dt) PROVE GoodTurn([filled EXCEPT !.cur = v])
  <2> DEFINE g == [filled EXCEPT !.cur = v]
  <2>1. /\ DOMAIN g = FrameFields /\ g.op = "finishStruct" /\ g.src = Top.src
        /\ g.cur = v /\ g.dt = Top.dt /\ g.left = << >>
    BY <1>9 DEF FrameFields
  <2> HIDE DEF g
  <2>2. LeftOver(g)
    BY <2>1, NoKeys DEF LeftOver
  <2>3. GoodTurn(g)
    BY <1>3, <1>13, <2>1, <2>2, StructFrame DEF GoodTurn, Waiting, StructOps
  <2> QED BY <2>3 DEF g
<1>14. Of(RemainReached(Top), Top.dt) /\ Of(RemainAllocated(Top), Top.dt)
  <2>1. Top.dt \in DOMAIN Types
    BY <1>3, TypedIs DEF Of
  <2> QED BY <1>1, <1>3, <2>1, RemainLeft
<1>11. follow => RemainIsPointer(filled)
  BY <1>9 DEF RemainIsPointer, RemainType
<1> HIDE DEF follow
<1>12. RemainInto(filled, entries, follow) => TypedStep
  BY <1>1, <1>8, <1>9, <1>11, RemainTyped
<1>15. /\ GoodTurn([filled EXCEPT !.cur = RemainReached(Top)])
       /\ GoodTurn([filled EXCEPT !.cur = RemainAllocated(Top)])
  BY <1>13, <1>14
<1> QED BY <1>2, <1>10, <1>12, <1>15, Turns

\* The converted map is stored in the remain field, or in its pointer.
LEMMA RemainDoneTyped == ASSUME Inv, TypedInv, RemainDone PROVE TypedStep
<1> DEFINE i    == Info[Top.dt].remain
           slot == IF ret.t = RemainType(Top) THEN ret ELSE Holding(RemainType(Top), <<ret>>)
           out  == [Top.cur EXCEPT !.kids[i] = slot]
           f    == [Top EXCEPT !.op = "finishStruct", !.cur = out]
<1>1. ~Idle /\ Top.op = "remainDone" /\ Top.op \in StructOps
  BY DEF RemainDone, At, StructOps
<1>2. /\ FrameTyped(Top) /\ WellTyped(Top.src) /\ Of(Top.cur, Top.dt) /\ RetType(Top) = Top.dt
      /\ Types[Top.dt].kind = "struct" /\ Kind(Top.cur) = "struct" /\ DOMAIN Top = FrameFields
  BY <1>1, StructOpIs
<1>3. Become(f)
  BY <1>2 DEF RemainDone, FrameFields
<1>4. Top.left = << >> /\ i \in DOMAIN Top.cur.kids
  BY <1>1, <1>2 DEF FrameTyped
<1>5. i \in DOMAIN Fields(Top.dt) /\ Of(Top.cur.kids[i], RemainType(Top))
  BY <1>2, <1>4, StructIs DEF RemainType, Of
<1>6. RemainType(Top) \in DOMAIN Types
  BY <1>5, TypedIs DEF Of
<1>7. WellTyped(ret)
      /\ (ret.t = RemainType(Top) \/ (RemainIsPointer(Top) /\ ret.t = Elem(RemainType(Top))))
  BY <1>1, TopTyped DEF Waiting, Accepts
<1>8. Of(slot, RemainType(Top))
  BY <1>6, <1>7, PtrTyped DEF Of, RemainIsPointer
<1> HIDE DEF slot
<1>9. Of(out, Top.dt)
  BY <1>2, <1>4, <1>5, <1>8, KidReplaced DEF Of
<1> HIDE DEF out
<1>10. f.op = "finishStruct" /\ f.src = Top.src /\ f.cur = out /\ f.dt = Top.dt /\ f.left = << >>
  BY <1>2, <1>4 DEF FrameFields
<1> HIDE DEF f
<1>11. GoodTurn(f)
  <2>1. LeftOver(f)
    BY <1>10, NoKeys DEF LeftOver
  <2> QED BY <1>2, <1>9, <1>10, <2>1, StructFrame DEF GoodTurn, Waiting, StructOps
<1> QED BY <1>3, <1>11, Turns

-----------------------------------------------------------------------------
(* struct -> struct.                                                       *)

\* structFromStruct starts the walk over the source.
LEMMA StructFromStructTyped == ASSUME Inv, TypedInv, StructFromStruct PROVE TypedStep
<1>1. ~Idle /\ Top.op = "structFromStruct" /\ Top.op \in StructOps
  BY DEF StructFromStruct, At, StructOps
<1>2. Return(Top.cur) \/ Become([Top EXCEPT !.op = "walkToStruct"])
  BY DEF StructFromStruct
<1>3. FrameTyped(Top) /\ Of(Top.cur, Top.dt) /\ RetType(Top) = Top.dt
  BY <1>1, StructOpIs
<1>4. Kind(Top.src) = "struct" /\ StartsFresh(Top)
  BY <1>1, <1>3 DEF FrameTyped, EntryPoints
<1>5. Pairs(Top)
  BY <1>4, NoKids DEF Pairs, Walks, GotTyped, RestTyped, StartsFresh
<1>6. GoodTurn([Top EXCEPT !.op = "walkToStruct"])
  BY <1>1, <1>5, HandedOn
<1> QED BY <1>2, <1>3, <1>6, Turns, Ends

\* A field of the source: kept aside, or assigned at once.
LEMMA WalkToStructTyped == ASSUME Inv, TypedInv, WalkToStruct PROVE TypedStep
<1>0. PICK item \in Items(Top) :
        LET v == Dereferenced(item)
            i == Lookup(Top.dt, item.name, cfg.loose)
            f == item.next
        IN  IF i = 0
            THEN /\ Become([f EXCEPT !.rest = [k \in DOMAIN @ \union {item.name} |->
                                                IF k = item.name THEN v ELSE @[k]]])
                 /\ NoErrors /\ UNCHANGED <<ret, path, weak>>
            ELSE AssignField([f EXCEPT !.got = [j \in DOMAIN @ \union {i} |->
                                                IF j = i THEN v ELSE @[j]]],
                             i, v, "walkToStruct")
  BY Zenon DEF WalkToStruct
<1>1. ~Idle /\ Top.op = "walkToStruct" /\ Top.op \in StructOps
  BY Zenon DEF WalkToStruct, At, StructOps
<1> DEFINE v  == Dereferenced(item)
           i  == Lookup(Top.dt, item.name, cfg.loose)
           f  == item.next
           r  == [k \in DOMAIN f.rest \union {item.name} |-> IF k = item.name THEN v ELSE f.rest[k]]
           g  == [j \in DOMAIN f.got \union {i} |-> IF j = i THEN v ELSE f.got[j]]
           f1 == [f EXCEPT !.rest = r]
           f2 == [f EXCEPT !.got = g]
<1>2. /\ FrameTyped(Top) /\ WellTyped(Top.src) /\ Of(Top.cur, Top.dt) /\ RetType(Top) = Top.dt
      /\ Types[Top.dt].kind = "struct" /\ DOMAIN Top = FrameFields /\ Top.dt \in DOMAIN Types
  BY <1>1, StructOpIs
<1>3. Pairs(Top)
  BY <1>1, <1>2 DEF FrameTyped
<1>4. WellTyped(v) /\ WalkOn(Top, f)
  BY <1>2, <1>3, ItemIs, DereferencedTyped DEF Pairs
<1>5. (i = 0 /\ Become(f1)) \/ (i # 0 /\ AssignField(f2, i, v, "walkToStruct"))
  BY <1>0
<1>6. i # 0 => i \in DOMAIN Fields(Top.dt)
  BY <1>2, LookupIs
<1> HIDE DEF v, i, f
<1>7. f.rest = Top.rest /\ f.got = Top.got /\ f.dt = Top.dt
  BY <1>4 DEF WalkOn
<1>8. \A k \in DOMAIN r : WellTyped(r[k])
  BY <1>3, <1>4, <1>7 DEF Pairs, RestTyped
<1>9. i # 0 => \A j \in DOMAIN g : j \in DOMAIN Fields(Top.dt) /\ WellTyped(g[j])
  BY <1>3, <1>4, <1>6, <1>7 DEF Pairs, GotTyped
<1> HIDE DEF r, g
<1>10. /\ f1.op = f.op /\ f1.src = f.src /\ f1.cur = f.cur /\ f1.dt = f.dt /\ f1.todo = f.todo
       /\ f1.got = f.got /\ f1.left = f.left /\ f1.rest = r /\ f1.val = f.val
  BY <1>4 DEF FrameFields, WalkOn
<1>11. /\ f2.op = f.op /\ f2.src = f.src /\ f2.cur = f.cur /\ f2.dt = f.dt /\ f2.todo = f.todo
       /\ f2.got = g /\ f2.left = f.left /\ f2.rest = f.rest /\ f2.val = f.val
       /\ DOMAIN f2 = FrameFields
  BY <1>4 DEF FrameFields, WalkOn
<1> HIDE DEF f1, f2
<1>12. /\ f.op = "walkToStruct" /\ f.src = Top.src /\ f.cur = Top.cur /\ f.left = << >>
       /\ Walks(f)
  BY <1>1, <1>3, <1>4 DEF WalkOn, Pairs
<1>13. Pairs(f1)
  BY <1>3, <1>7, <1>8, <1>10, <1>12 DEF Pairs, GotTyped, RestTyped, Walks
<1>14. i # 0 => Pairs(f2)
  BY <1>3, <1>7, <1>9, <1>11, <1>12 DEF Pairs, GotTyped, RestTyped, Walks
<1>15. GoodTurn(f1)
  BY <1>2, <1>7, <1>10, <1>12, <1>13, StructFrame DEF GoodTurn, Waiting, StructOps
<1>16. i # 0 /\ AssignField(f2, i, v, "walkToStruct") => TypedStep
  BY <1>1, <1>4, <1>6, <1>7, <1>11, <1>12, <1>14, AssignTyped
<1> QED BY <1>5, <1>15, <1>16, Turns

\* The walk is followed by finishStructPairs.
LEMMA WalkToStructOverTyped == ASSUME Inv, TypedInv, WalkToStructOver PROVE TypedStep
<1>1. ~Idle /\ Top.op = "walkToStruct" /\ Top.op \in StructOps
  BY DEF WalkToStructOver, At, StructOps
<1>2. Return(Top.cur) \/ Become([Top EXCEPT !.op = "finishPairs"])
  BY DEF WalkToStructOver
<1>3. FrameTyped(Top) /\ Of(Top.cur, Top.dt) /\ RetType(Top) = Top.dt
  BY <1>1, StructOpIs
<1>4. Pairs(Top)
  BY <1>1, <1>3 DEF FrameTyped
<1>5. GoodTurn([Top EXCEPT !.op = "finishPairs"])
  BY <1>1, <1>4, HandedOn
<1> QED BY <1>2, <1>3, <1>5, Turns, Ends

\* An order is a sequence; nothing is walked in one order only.
LEMMA OrderIs == \A S : \A o \in Orders(S) : IsSeq(o) /\ (S = {} => o = << >>)
<1>1. Cardinality({}) = 0
  BY FS_EmptySet
<1>2. ASSUME NEW S, NEW o \in Orders(S) PROVE IsSeq(o) /\ (S = {} => o = << >>)
  <2>1. Len(o) = Cardinality(S)
    BY <1>2 DEF Orders
  <2>2. PICK m \in 0 .. Cardinality(S) : o \in [1 .. m -> S]
    BY <1>2 DEF Orders
  <2>3. o \in Seq(S)
    BY <2>2, SeqDef
  <2>4. S = {} => o = << >>
    BY <1>1, <2>1, <2>3, EmptySeq
  <2> QED BY <2>3, <2>4 DEF IsSeq
<1> QED BY <1>2

\* finishStructPairs: what nothing claimed, into the remain field or unused.
LEMMA FinishPairsTyped == ASSUME Inv, TypedInv, FinishPairs PROVE TypedStep
<1> DEFINE ks == [k \in DOMAIN Top.rest |-> Any(Top.rest[k])]
           m  == Holding("mapStringAny", ks)
<1>1. ~Idle /\ Top.op = "finishPairs" /\ Top.op \in StructOps
  BY Zenon DEF FinishPairs, At, StructOps
<1>2. \/ /\ DOMAIN Top.rest = {} \/ Info[Top.dt].remain = 0
         /\ \E o \in Orders(DOMAIN Top.rest) : Become([Top EXCEPT !.op = "finishStruct", !.left = o])
      \/ Return(Top.cur)
      \/ Info[Top.dt].remain # 0 /\ RemainInto(Top, m, FALSE)
  BY Zenon DEF FinishPairs
<1>3. /\ FrameTyped(Top) /\ WellTyped(Top.src) /\ Of(Top.cur, Top.dt) /\ RetType(Top) = Top.dt
      /\ Types[Top.dt].kind = "struct" /\ DOMAIN Top = FrameFields
  BY <1>1, StructOpIs
<1>4. Pairs(Top)
  BY <1>1, <1>3 DEF FrameTyped
<1>5. CASE /\ DOMAIN Top.rest = {} \/ Info[Top.dt].remain = 0
           /\ \E o \in Orders(DOMAIN Top.rest) : Become([Top EXCEPT !.op = "finishStruct", !.left = o])
  <2>1. PICK o \in Orders(DOMAIN Top.rest) : Become([Top EXCEPT !.op = "finishStruct", !.left = o])
    BY Zenon, <1>5
  <2> DEFINE f == [Top EXCEPT !.op = "finishStruct", !.left = o]
  <2>2. f.op = "finishStruct" /\ f.src = Top.src /\ f.cur = Top.cur /\ f.dt = Top.dt /\ f.left = o
    BY <1>3 DEF FrameFields
  <2>3. Become(f)
    BY <2>1
  <2> HIDE DEF f
  <2>4. IsSeq(o) /\ (Info[Top.dt].remain # 0 => o = << >>)
    BY <1>5, <2>1, OrderIs
  <2>5. LeftOver(f)
    BY <2>2, <2>4 DEF LeftOver
  <2>6. GoodTurn(f)
    BY <1>3, <2>2, <2>5, StructFrame DEF GoodTurn, Waiting, StructOps
  <2> QED BY <2>3, <2>6, Turns
<1>6. CASE Info[Top.dt].remain # 0 /\ RemainInto(Top, m, FALSE)
  <2>1. IsFun(ks) /\ \A k \in DOMAIN ks : Of(ks[k], "any")
    BY <1>4, AnyTyped DEF IsFun, Pairs, RestTyped
  <2> HIDE DEF ks
  <2>2. WellTyped(m)
    BY <2>1, TypesAssumption, MapTyped DEF Elem, Of
  <2> HIDE DEF m
  <2>3. Top.left = << >>
    BY <1>4 DEF Pairs
  <2> QED BY <1>1, <1>3, <1>6, <2>2, <2>3, RemainTyped
<1>7. CASE Return(Top.cur)
  BY <1>3, <1>7, Ends
<1> QED BY Zenon, <1>2, <1>5, <1>6, <1>7

\* A turn of the walk that offers nothing to write.
LEMMA SkipInWalkTyped == ASSUME Inv, TypedInv, SkipInWalk PROVE TypedStep
<1>1. ~Idle /\ Top.op \in {"walkToMap", "walkToStruct"}
  BY Zenon DEF SkipInWalk, At
<1>2. \/ Top.todo = {} /\ Become(SkipField(Top))
      \/ \E item \in Items(Top) : Become(item.next)
  BY Zenon DEF SkipInWalk, SkipsField
<1>3. /\ WellTyped(Top.src) /\ Of(Top.cur, Top.dt) /\ DOMAIN Top = FrameFields
      /\ Types[Top.dt].kind \in {"map", "struct"} /\ RetType(Top) = Top.dt /\ Walks(Top)
      /\ Top.op = "walkToMap" => Top.op \in WalkOps
      /\ Top.op = "walkToStruct" => Pairs(Top) /\ Top.op \in StructOps /\ Types[Top.dt].kind = "struct"
  <2>1. CASE Top.op = "walkToMap"
    <3>1. Top.op \in WalkOps
      BY <2>1 DEF WalkOps
    <3> QED BY <1>1, <2>1, <3>1, WalkOpIs, MapIs
  <2>2. CASE Top.op = "walkToStruct"
    <3>1. Top.op \in StructOps
      BY <2>2 DEF StructOps
    <3>2. Pairs(Top)
      BY <1>1, <2>2, TopTyped DEF FrameTyped
    <3> QED BY <1>1, <2>2, <3>1, <3>2, StructOpIs DEF Pairs
  <2> QED BY <1>1, <2>1, <2>2
<1>4. ASSUME NEW g, WalkOn(Top, g) PROVE GoodTurn(g)
  <2>1. /\ g.op = Top.op /\ g.src = Top.src /\ g.cur = Top.cur /\ g.dt = Top.dt
        /\ g.got = Top.got /\ g.left = Top.left /\ g.rest = Top.rest /\ Walks(g)
    BY <1>4 DEF WalkOn
  <2>2. CASE Top.op = "walkToMap"
    BY <1>1, <1>3, <2>1, <2>2, WalkTurn DEF GoodTurn
  <2>3. CASE Top.op = "walkToStruct"
    <3>1. Pairs(g)
      BY <1>3, <2>1, <2>3 DEF Pairs, GotTyped, RestTyped
    <3> QED BY <1>3, <2>1, <2>3, <3>1, StructFrame DEF GoodTurn, Waiting
  <2> QED BY <1>1, <2>2, <2>3
<1>5. CASE Top.todo = {} /\ Become(SkipField(Top))
  BY <1>3, <1>4, <1>5, SkipIs, Turns
<1>6. CASE \E item \in Items(Top) : Become(item.next)
  <2>1. PICK item \in Items(Top) : Become(item.next)
    BY <1>6
  <2>2. WalkOn(Top, item.next)
    BY <1>3, ItemIs
  <2>3. GoodTurn(item.next)
    BY <1>4, <2>2
  <2> QED BY <2>1, <2>3, Turns
<1> QED BY <1>2, <1>5, <1>6

\* Every step of the handlers of struct.go is well typed.
LEMMA StructsTyped == ASSUME Inv, TypedInv, StructsNext PROVE TypedStep
BY ToStructTyped, SkipInWalkTyped, MapFromStructTyped, WalkToMapTyped, EntryKeyDoneTyped,
   WriteEntryTyped, RefuseEntryTyped, EntryDoneTyped, WalkToMapOverTyped, FieldDoneTyped,
   StructFromMapTyped, MatchKeyTyped, MatchesDoneTyped, AssignNextTyped, FinishStructTyped,
   FillRemainTyped, RemainDoneTyped, StructFromStructTyped, WalkToStructTyped,
   WalkToStructOverTyped, FinishPairsTyped DEF StructsNext

-----------------------------------------------------------------------------
(* The session.                                                            *)

\* What a client or a hook puts in is well typed.
LEMMA InputTyped == ASSUME NEW v \in Inputs PROVE WellTyped(v)
<1>1. Closed(Inputs)
  BY InputsAssumption DEF Closed
<1> QED BY <1>1 DEF WellTyped

\* A session starts with an empty stack.
LEMMA TypedInit == Init => TypedInv
<1> SUFFICES ASSUME Init PROVE TypedInv
  OBVIOUS
<1>1. /\ scen \in Scenarios /\ stack = << >> /\ Idle /\ Len(stack) = 0
      /\ results \in Seq({}) /\ Len(results) = 0
  BY DEF Init, Idle
<1>2. Len(Plan) \in Nat
  BY <1>1, ScenariosAssumption DEF Plan
<1>3. OutcomesTyped
  BY <1>1, <1>2 DEF OutcomesTyped, IsSeq
<1>4. StackTyped
  BY <1>1 DEF StackTyped
<1> QED BY <1>3, <1>4 DEF TypedInv

\* A call starts from an input of the client or from what a finished call
\* left behind, in a destination of the type it is for.
LEMMA StartTyped == ASSUME Inv, TypedInv, StartCall PROVE TypedInv'
<1> DEFINE m    == Len(results) + 1
           step == Plan[m]
           src  == IF step.from = 0 THEN step.src ELSE results[step.from].dst
           cur  == IF step.into = 0 THEN step.cur ELSE results[step.into].dst
           r    == Frame("run", src, cur, step.dt, NoTag)
           c    == ConvertFrame(src, cur, step.dt, NoTag)
<1>1. /\ Idle /\ Len(results) < Len(Plan) /\ stack' = <<r, c>> /\ scen' = scen
      /\ results' = results
  BY DEF StartCall
<1>2. /\ Len(results) \in Nat /\ Len(Plan) \in Nat /\ scen \in Scenarios /\ Len(results) <= Len(Plan)
      /\ \A n \in 1 .. Len(results) : Of(results[n].dst, Plan[n].dt)
  BY ScenariosAssumption DEF TypedInv, OutcomesTyped, IsSeq, Plan
<1>3. m \in DOMAIN Plan
  <2> DEFINE l == Len(results)
             p == Len(Plan)
  <2>1. DOMAIN Plan = 1 .. p
    BY <1>2, ScenariosAssumption DEF Plan
  <2>2. l \in Nat /\ p \in Nat /\ l < p /\ m = l + 1
    BY <1>1, <1>2
  <2> HIDE DEF l, p, m
  <2>3. m \in 1 .. p
    BY <2>2
  <2> QED BY <2>1, <2>3
<1>4. /\ step.from \in 0 .. m - 1 /\ step.into \in 0 .. m - 1
      /\ step.src = NoValue \/ step.src \in Inputs
      /\ step.cur \in Inputs /\ step.cur.t = step.dt
      /\ step.into # 0 => Plan[step.into].dt = step.dt
  BY <1>2, <1>3, ScenariosAssumption DEF Plan
<1> HIDE DEF step
<1>5. Source(src)
  <2>1. CASE step.from = 0
    BY <1>4, <2>1, InputTyped DEF Source
  <2>2. CASE step.from # 0
    <3>1. step.from \in 1 .. Len(results)
      BY <1>2, <1>4, <2>2
    <3> QED BY <1>2, <2>2, <3>1 DEF Source, Of
  <2> QED BY <2>1, <2>2
<1>6. Of(cur, step.dt)
  <2>1. CASE step.into = 0
    BY <1>4, <2>1, InputTyped DEF Of
  <2>2. CASE step.into # 0
    <3>1. step.into \in 1 .. Len(results)
      BY <1>2, <1>4, <2>2
    <3> QED BY <1>2, <1>4, <2>2, <3>1 DEF Of
  <2> QED BY <2>1, <2>2
<1> HIDE DEF src, cur
<1>7. FrameTyped(c) /\ c.op \notin Waiting /\ RetType(c) = step.dt
  BY <1>5, <1>6, ChildTyped
<1>8. r.op = "run" /\ r.src = src /\ r.cur = cur /\ r.dt = step.dt
  BY DEF Frame
<1> HIDE DEF r, c
<1>9. FrameTyped(r)
  BY <1>5, <1>6, <1>8 DEF FrameTyped, Of, EarlyOps, EntryPoints, IfaceOps, ElemsOps, PtrOps,
     FillOps, MergeOps, EntryOps, WalkOps, MapOps, StructOps
<1>10. Accepts(r, RetType(c))
  BY <1>7, <1>8 DEF Accepts, Waiting
<1>11. Len(stack') = 2 /\ stack'[1] = r /\ stack'[2] = c /\ Top' = c
  BY <1>1 DEF Top
<1>12. StackTyped'
  <2>1. \A n \in 1 .. 2 : n = 1 \/ n = 2
    OBVIOUS
  <2>2. \A n \in 1 .. 2 : FrameTyped(stack'[n])
    BY <1>7, <1>9, <1>11, <2>1
  <2>3. \A n \in 1 .. 2 - 1 : Accepts(stack'[n], RetType(stack'[n + 1]))
    BY <1>10, <1>11
  <2> QED BY <1>7, <1>11, <2>2, <2>3 DEF StackTyped
<1>13. OutcomesTyped'
  BY <1>1, <1>2, <1>8, <1>11 DEF TypedInv, OutcomesTyped, Plan, step
<1> QED BY <1>12, <1>13 DEF TypedInv

\* A call leaves a value of the type it was for.
LEMMA EndTyped == ASSUME Inv, TypedInv, EndCall PROVE TypedInv'
<1> DEFINE r == [dst |-> ret, errs |-> errs, meta |-> meta]
<1>1. /\ ~Idle /\ Top.op = "run" /\ results' = Append(results, r) /\ stack' = << >> /\ Idle'
      /\ scen' = scen
  BY DEF EndCall, At, Idle
<1>2. r.dst = ret
  OBVIOUS
<1> HIDE DEF r
<1>3. PICK S : results \in Seq(S)
  BY DEF TypedInv, OutcomesTyped, IsSeq
<1>4. results \in Seq(S \union {r}) /\ Len(results) \in Nat
  BY <1>3
<1>5. /\ results' \in Seq(S \union {r}) /\ Len(results') = Len(results) + 1
      /\ \A m \in 1 .. Len(results) : results'[m] = results[m]
      /\ results'[Len(results) + 1] = r
  BY <1>1, <1>4
<1>6. Len(stack) = 1 /\ Top = stack[1]
  <2>1. Len(stack) \in Nat \ {0} /\ stack[Len(stack)].op = "run"
    BY <1>1 DEF Inv, StackOK, IsSeq, Top, Idle
  <2>2. \A n \in 2 .. Len(stack) : stack[n].op # "run"
    BY <1>1 DEF Inv, PathOK
  <2>3. Len(stack) \notin 2 .. Len(stack)
    BY <2>1, <2>2
  <2>4. Len(stack) = 1
    <3> DEFINE n == Len(stack)
    <3>1. n \in Nat \ {0} /\ n \notin 2 .. n
      BY <2>1, <2>3
    <3> HIDE DEF n
    <3>2. n = 1
      BY <3>1
    <3> QED BY <3>2 DEF n
  <2> QED BY <2>4 DEF Top
<1>7. /\ Len(results) < Len(Plan) /\ Len(Plan) \in Nat /\ stack[1].dt = Plan[Len(results) + 1].dt
      /\ scen \in Scenarios /\ \A n \in 1 .. Len(results) : Of(results[n].dst, Plan[n].dt)
  BY <1>1, ScenariosAssumption DEF TypedInv, OutcomesTyped, Plan
<1>8. Of(ret, Plan[Len(results) + 1].dt)
  BY <1>1, <1>6, <1>7, TopTyped DEF Waiting, Accepts, Of
<1>9. ASSUME NEW n \in 1 .. Len(results') PROVE Of(results'[n].dst, Plan[n].dt)
  <2>1. CASE n \in 1 .. Len(results)
    BY <1>5, <1>7, <2>1
  <2>2. CASE n = Len(results) + 1
    BY <1>2, <1>5, <1>8, <2>2
  <2> QED BY <1>4, <1>5, <2>1, <2>2
<1>10. OutcomesTyped'
  BY <1>1, <1>4, <1>5, <1>7, <1>9 DEF OutcomesTyped, IsSeq, Plan
<1>11. StackTyped'
  BY <1>1 DEF StackTyped
<1> QED BY <1>10, <1>11 DEF TypedInv

\* Every step of the engine leaves a well-typed stack behind.
LEMMA TypedNext == ASSUME Inv, TypedInv, [Next]_vars PROVE TypedInv'
<1>1. CASE ConvertNext \/ ContainersNext \/ StructsNext
  <2>1. ~Idle /\ Top.op # "run" /\ UNCHANGED <<scen, results>>
    BY <1>1, Undisturbed
  <2>2. TypedStep
    BY <1>1, ConvertTyped, ContainersTyped, StructsTyped
  <2> QED BY <2>1, <2>2, StepTyped
<1>2. CASE Rest \/ UNCHANGED vars
  <2>1. UNCHANGED vars
    BY <1>2 DEF Rest
  <2> QED BY <2>1 DEF vars, TypedInv, StackTyped, OutcomesTyped, Top, Idle, Plan
<1> QED BY <1>1, <1>2, StartTyped, EndTyped DEF Next

\* Whatever a conversion does on the way, recursing through pointers, maps,
\* slices and structs, merging and allocating, every running function holds a
\* destination of exactly the type it is for, whose parts have the types their
\* holder gives them: no Set of the reflect package can panic on a value of the
\* wrong type, and what a codec returns can be stored where its caller asks.
THEOREM TypesAlwaysRight == Spec => []TypeOK
<1>1. Inv /\ TypedInv => ContentOK
  <2> SUFFICES ASSUME Inv, TypedInv, NEW n \in DOMAIN stack
               PROVE  stack[n].cur.t = stack[n].dt /\ Shaped(stack[n].cur)
    BY DEF ContentOK
  <2>1. FrameTyped(stack[n])
    BY DEF Inv, StackOK, IsSeq, TypedInv, StackTyped
  <2> QED BY <2>1, TypedIsShaped DEF FrameTyped
<1>2. StateOK /\ ContentOK => TypeOK
  BY DEF TypeOK
<1> QED BY <1>1, <1>2, StackInit, StackStep, TypedInit, TypedNext, StateIsTyped, PTL DEF Spec

=============================================================================
