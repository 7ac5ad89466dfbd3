------------------------------- MODULE MCTypes -------------------------------
(***************************************************************************)
(* The types of the model-checking runs, the struct analyses the engine's  *)
(* runs are given, and what a key normalizer makes of the texts.           *)
(***************************************************************************)
EXTENDS Naturals, Sequences

Type(kind, elem, key, has) == [kind |-> kind, elem |-> elem, key |-> key, has |-> has, size |-> 0]
Plain(kind)    == Type(kind, "", "", {})
PtrTo(elem)    == Type("ptr", elem, "", {})
SliceOf(elem)  == Type("slice", elem, "", {})
ArrayOf(n, elem) == [Type("array", elem, "", {}) EXCEPT !.size = n]
MapOf(k, elem) == Type("map", elem, k, {})

TypeTable ==
  [any          |-> Plain("iface"),
   string       |-> Plain("string"),
   int          |-> Plain("int"),
   func         |-> Plain("other"),
   label        |-> Type("string", "", "", {"named"}),
   labels       |-> Type("slice", "string", "", {"named"}),
   byte         |-> Type("int", "", "", {"byte"}),
   rune         |-> Type("int", "", "", {"rune"}),
   bytes        |-> SliceOf("byte"),
   runes        |-> SliceOf("rune"),
   pair         |-> ArrayOf(2, "int"),
   pairFlat     |-> ArrayOf(2, "Flat"),
   pairAny      |-> ArrayOf(2, "any"),
   trio         |-> ArrayOf(3, "rune"),
   ptrInt       |-> PtrTo("int"),
   ptrAny       |-> PtrTo("any"),
   ptrFlat      |-> PtrTo("Flat"),
   ptrRest      |-> PtrTo("mapStringAny"),
   sliceAny     |-> SliceOf("any"),
   sliceInt     |-> SliceOf("int"),
   sliceString  |-> SliceOf("string"),
   sliceFlat    |-> SliceOf("Flat"),
   sliceMap     |-> SliceOf("mapStringAny"),
   mapStringAny |-> MapOf("string", "any"),
   mapStringInt |-> MapOf("string", "int"),
   mapIntAny    |-> MapOf("int", "any"),
   mapIntInt    |-> MapOf("int", "int"),
   mapLabelInt  |-> MapOf("label", "int"),
   Reader       |-> Type("other", "", "", {"Decoder"}),
   Writer       |-> Type("struct", "", "", {"Encoder"}),
   Clock        |-> Type("other", "", "", {"Text"}),
   Flat  |-> Plain("struct"), Mail  |-> Plain("struct"), Rest  |-> Plain("struct"),
   Opts  |-> Plain("struct"), Outer |-> Plain("struct"), Emb   |-> Plain("struct"),
   EmbX  |-> Plain("struct"), Bad   |-> Plain("struct"), Fixed |-> Plain("struct"),
   RestP |-> Plain("struct"), RestX |-> Plain("struct"), Self  |-> Plain("struct"),
   Deep  |-> Plain("struct"), Nest  |-> Plain("struct")]

\* A field of the struct itself, with options; behind embedded pointers (their
\* index paths) of exported (allocatable) or unexported types.
FieldWith(name, type, opts) ==
  [name |-> name, type |-> type, opts |-> opts, emb |-> {}, alloc |-> TRUE, set |-> TRUE]
Field(name, type)       == FieldWith(name, type, {})
Behind(emb, ok, f)      == [f EXCEPT !.emb = emb, !.alloc = ok]
E                       == <<2>>
EF                      == <<2, 2>>
StructOf(fields)        == [err |-> FALSE, fields |-> fields, remain |-> 0]
WithRemain(fields, n)   == [err |-> FALSE, fields |-> fields, remain |-> n]

InfoTable ==
  [Flat  |-> StructOf(<<Field("host", "string"), Field("port", "int")>>),
   Mail  |-> StructOf(<<Field("host", "string"), Field("port", "int"), Field("size", "int")>>),
   Rest  |-> WithRemain(<<Field("host", "string"), FieldWith("rest", "mapStringAny", {"remain"})>>, 2),
   RestP |-> WithRemain(<<Field("host", "string"), FieldWith("rest", "ptrRest", {"remain"})>>, 2),
   RestX |-> WithRemain(<<Field("host", "string"), FieldWith("rest", "ptrInt", {"remain"})>>, 2),
   Opts  |-> StructOf(<<FieldWith("num", "ptrInt", {"omitempty"}),
                        FieldWith("port", "int", {"string"}),
                        FieldWith("ref", "ptrInt", {"deref"}),
                        Field("size", "int")>>),
   Outer |-> StructOf(<<FieldWith("flat", "Flat", {"string"}), Field("list", "sliceFlat"),
                        Field("ref", "ptrFlat"), FieldWith("keep", "any", {"keep"})>>),
   Self  |-> StructOf(<<FieldWith("opts", "Opts", {"string"}), Field("size", "int")>>),
   Nest  |-> StructOf(<<Field("opts", "Opts"), Field("list", "sliceFlat"),
                        FieldWith("ref", "ptrFlat", {"deref"}), FieldWith("keep", "any", {"keep"})>>),
   Emb   |-> StructOf(<<Field("host", "string"), Behind({E}, TRUE, Field("port", "int")),
                        Behind({E}, TRUE, Field("size", "int"))>>),
   EmbX  |-> StructOf(<<Field("host", "string"), Behind({E}, FALSE, Field("port", "int"))>>),
   Deep  |-> WithRemain(<<Field("host", "string"), Behind({E}, TRUE, Field("port", "int")),
                          Behind({E, EF}, TRUE, Field("size", "int")),
                          Behind({E, EF}, TRUE, FieldWith("rest", "mapStringAny", {"remain"}))>>, 4),
   Bad   |-> [err |-> TRUE, fields |-> <<Field("host", "string")>>, remain |-> 0],
   Fixed |-> WithRemain(<<[Field("host", "string") EXCEPT !.set = FALSE],
                          [FieldWith("rest", "mapStringAny", {"remain"}) EXCEPT !.set = FALSE],
                          Field("port", "int")>>, 2),
   Writer |-> StructOf(<<Field("host", "string")>>)]

Texts == {"", "0", "1", "2", "7", "80", "bad", "x", "y", "h", "encoded", "decoded",
          "host", "Host", "HOST", "port", "Port", "size", "rest", "extra", "more",
          "num", "ref", "flat", "list", "keep", "opts"}
FoldTable == [t \in Texts |-> IF t \in {"Host", "HOST"} THEN "host" ELSE IF t = "Port" THEN "port" ELSE t]

\* What a .cfg names is worked out at every use, what it stands for only once:
\* hence a name for each table.
MCTypes == TypeTable
MCInfo  == InfoTable
MCFold  == FoldTable

=============================================================================
