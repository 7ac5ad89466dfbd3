------------------------------ MODULE MCStructs ------------------------------
(***************************************************************************)
(* Structs written to maps and back, and struct to struct, with every tag  *)
(* option, embedded pointers, remain maps and nested string fields; texts  *)
(* spelled out and read back; and the maps read into structs of MCErrors.  *)
(***************************************************************************)
EXTENDS MCErrors

Opts(num, port, ref, size) == Holding("Opts", <<num, Int(port), ref, Int(size)>>)
NoInt == Nil("ptrInt")
Full  == Opts(PtrInt("1"), "80", PtrInt("2"), "7")
Nest(opts, list, ref, keep) == Holding("Nest", <<opts, list, ref, keep>>)
Flats == Holding("sliceFlat", <<Flat("y", "2"), Flat("", "0")>>)
PtrFlat(h) == Holding("ptrFlat", <<Flat(h, "7")>>)

\* With and without a nil pointer that goes out through deref, embedded pointers
\* nil at every depth, remain maps of every form, and what fails to go out.
Structs ==
  {Flat("h", "7"), Flat("", "0"),
   Full, Opts(NoInt, "0", PtrInt("0"), "0"), Opts(PtrInt("0"), "80", NoInt, "7"),
   Nest(Full, Flats, PtrFlat("h"), Any(Flat("x", "1"))),
   Nest(Opts(NoInt, "0", NoInt, "0"), Holding("sliceFlat", << >>), PtrFlat(""), Any(PtrInt("1"))),
   Nest(Full, Nil("sliceFlat"), Nil("ptrFlat"), NilAny),
   Holding("Outer", <<Flat("x", "1"), Flats, PtrFlat("h"), Any(Int("1"))>>), Holding("Self", <<Full, Int("2")>>),
   Holding("Emb", <<Str("h"), Int("7"), Int("1")>>), Holding("Emb", <<Str("h")>>),
   Holding("Deep", <<Str("h")>>), Holding("Deep", <<Str("h"), Int("7")>>),
   Holding("Deep", <<Str("h"), Int("0"), Int("0"), Nil("mapStringAny")>>),
   Holding("Deep", <<Str("h"), Int("7"), Int("1"), MapAny([extra |-> Int("2"), more |-> List(<<Str("x")>>)])>>),
   Holding("RestP", <<Str("h"), Holding("ptrRest", <<MapAny([extra |-> Int("1")])>>)>>),
   Holding("RestP", <<Str("h"), Nil("ptrRest")>>)}
  \union
  {Holding("Rest", <<Str("h"), rest>>) :
     rest \in {MapAny([extra |-> Int("1"), more |-> Str("x")]), MapAny([extra |-> MapAny([x |-> NilAny]), more |-> NilAny]),
               MapAny([Host |-> Str("x")]), MapAny([extra |-> Flat("x", "1")]), MapAny(<< >>), Nil("mapStringAny")}}

\* There and back, and the shortcut to another struct.
Others == {"Flat", "Rest", "Emb", "Deep"}
StructSessions ==
  {Session(c, <<To(s, "mapStringAny"), Then(1, s.t)>>) :
     c \in {Default, Strict, [Default EXCEPT !.omitNil = TRUE], [Strict EXCEPT !.deref = TRUE]}, s \in Structs}
  \union
  {Session([c EXCEPT !.meta = FALSE], <<To(s, "mapStringAny"), Then(1, t), To(s, t)>>) :
     c \in {Default, [Default EXCEPT !.omitNil = TRUE], [Strict EXCEPT !.deref = TRUE]},
     s \in {x \in Structs : x.t # "Outer"}, t \in Others}

SpellingSessions ==
  {Session(c, <<To(Str(x), t), Then(1, "string")>>) :
     c \in {Default, [Strict EXCEPT !.failFast = TRUE]}, x \in DOMAIN BytesTable, t \in {"bytes", "runes"}}

MCScenarios == MapSessions \union StructSessions \union SpellingSessions

AllInputs ==
  WithParts(Sources \union {OldMail} \union KeyMaps \union MapLists \union {OldMap}
            \union Structs \union {Str(x) : x \in DOMAIN BytesTable}
            \union {ZeroOf[t] : t \in DOMAIN Types})
MCInputs == AllInputs

=============================================================================
