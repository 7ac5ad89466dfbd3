----------------------------- MODULE MCStructInfo -----------------------------
(***************************************************************************)
(* Structs that inline each other, themselves, or one type twice, with     *)
(* clashing keys, bad tags and remain fields in them, under every option   *)
(* the analysis reads; and the declarations behind MCInfo, the analyses    *)
(* the engine's runs start from.                                           *)
(***************************************************************************)
EXTENDS Promotion, MCTypes

V == INSTANCE Values WITH Types <- MCTypes, Info <- MCInfo, Fold <- MCFold,
                          Bytes <- << >>, IntOf <- << >>, NaI <- ""

\* A field: exported and plain, in an unexported one, or embedded.
Decl(name, type, base, tags) ==
  [name |-> name, type |-> type, base |-> base, exported |-> TRUE, embedded |-> FALSE, tags |-> tags]
Cfg(parts)        == [cfg |-> parts]
Plain_(name, raw) == Decl(name, "string", "string", Cfg(raw))
Hidden(f)         == [f EXCEPT !.exported = FALSE]
Embedded(f)       == [f EXCEPT !.embedded = TRUE]

DefaultCfg == [tag |-> "cfg", fallback |-> << >>, normalizer |-> TRUE, keyFunc |-> FALSE,
               inlineEmbedded |-> FALSE, taggedOnly |-> FALSE]

MCNames   == {"X", "Y", "Z", "M", "N", "A", "B", "R", "a"}
MCKeyFunc == [n \in MCNames |-> IF n = "X" THEN "x" ELSE n]
MCNorm    == [k \in Texts \union MCNames \union {"-"} |->
                IF k \in Texts THEN MCFold[k] ELSE IF k = "X" THEN "x" ELSE IF k = "Y" THEN "y" ELSE k]

-----------------------------------------------------------------------------
(* Clashing keys.                                                          *)

X        == Decl("X", "string", "string", << >>)
Y        == Plain_("Y", <<"", "", "omitempty">>)
Zy       == Plain_("Z", <<"y">>)
Rem(n)   == Decl(n, "mapStringAny", "mapStringAny", Cfg(<<"", "remain">>))
In(b)    == Decl(b, "ptr" \o b, b, Cfg(<<"", "inline">>))

RootFields == {In("A"), Embedded(Hidden(Decl("a", "A", "A", << >>))), X, Rem("M")}
AFields    == {Zy, In("B"), In("R"), Rem("M"), Plain_("X", <<"y", "omitemty">>)}
BFields    == {<<Plain_("Y", <<"x">>), In("A")>>, <<In("A"), X>>, <<Rem("B"), Plain_("X", <<"-", "">>)>>}

\* The fields of a Go struct have different names.
Proper(w) == \A t \in DOMAIN w.types : \A i, j \in DOMAIN w.types[t] :
               i # j => w.types[t][i].name # w.types[t][j].name
Clashes ==
  {[root |-> "R", types |-> [R |-> <<f, g, h>>, A |-> <<a, b>>, B |-> bs], cfg |-> DefaultCfg] :
     f \in RootFields, g \in {In("B"), X}, h \in {In("A"), Rem("N"), Y},
     a \in AFields, b \in AFields \union {X}, bs \in BFields}

-----------------------------------------------------------------------------
(* Options.                                                                *)

Fallbacks == Decl("Y", "string", "string", [json |-> <<"y", "string">>, yaml |-> <<"-">>])
Configs ==
  {[DefaultCfg EXCEPT !.fallback = fb, !.normalizer = n, !.keyFunc = k, !.inlineEmbedded = e, !.taggedOnly = t] :
     fb \in {<< >>, <<"json">>, <<"yaml", "json">>}, n, k, e, t \in BOOLEAN}
Optioned ==
  {[root |-> "R", cfg |-> c,
    types |-> [R |-> <<f, Embedded(Decl("A", "ptrA", "A", << >>)), Fallbacks,
                       Embedded(Hidden(Decl("a", "string", "string", << >>)))>>,
               A |-> <<X, g, Hidden(Plain_("N", <<"y">>))>>]] :
     c \in Configs, f \in {X, Zy, Plain_("B", <<"-">>)}, g \in {Y, Embedded(Plain_("Y", <<"", "inline">>))}}

-----------------------------------------------------------------------------
(* The declarations behind MCInfo.                                         *)

Key(key, type)        == Decl(key, type, type, Cfg(<<key>>))
Opt(key, type, opt)   == Decl(key, type, type, Cfg(<<key, opt>>))
host == Key("host", "string")
port == Key("port", "int")
size == Key("size", "int")
rest == Opt("rest", "mapStringAny", "remain")

Declarations ==
  [Flat  |-> <<host, port>>,
   Mail  |-> <<host, port, size>>,
   Rest  |-> <<host, rest>>,
   RestP |-> <<host, Opt("rest", "ptrRest", "remain")>>,
   RestX |-> <<host, Opt("rest", "ptrInt", "remain")>>,
   Opts  |-> <<Opt("num", "ptrInt", "omitempty"), Opt("port", "int", "string"),
               Opt("ref", "ptrInt", "deref"), size>>,
   Outer |-> <<Opt("flat", "Flat", "string"), Key("list", "sliceFlat"), Key("ref", "ptrFlat"),
               Opt("keep", "any", "keep")>>,
   Self  |-> <<Opt("opts", "Opts", "string"), size>>,
   Nest  |-> <<Key("opts", "Opts"), Key("list", "sliceFlat"), Opt("ref", "ptrFlat", "deref"),
               Opt("keep", "any", "keep")>>,
   Emb   |-> <<host, Embedded(In("E"))>>,
   Deep  |-> <<host, Embedded(In("D"))>>,
   EmbX  |-> <<host, Embedded(Hidden(Decl("e", "ptre", "e", << >>)))>>,
   Bad   |-> <<host, Opt("port", "int", "omitemty")>>,
   Fixed |-> <<Hidden(Decl("inner", "Inner", "Inner", Cfg(<<"", "inline">>))),
               Decl("Ports", "Ports", "Ports", Cfg(<<"", "inline">>))>>,
   Writer |-> <<host>>,
   E |-> <<port, size>>, e |-> <<port>>, D |-> <<port, Embedded(In("F"))>>, F |-> <<size, rest>>,
   Inner |-> <<host, rest>>, Ports |-> <<port>>]

Declared1 == {[root |-> t, types |-> Declarations, cfg |-> DefaultCfg] : t \in DOMAIN MCInfo}

\* The analyses the engine's runs are given are those of Go declarations, and
\* a key finds the field there that the engine takes it to.
IsMCInfo ==
  Done /\ world \in Declared1 =>
    LET info == MCInfo[world.root]
        found(key) == IF key \in DOMAIN byName THEN byName[key]
                      ELSE IF MCNorm[key] \in DOMAIN byNorm THEN byNorm[MCNorm[key]] ELSE 0
    IN  /\ info.err = (errs # << >>)
        /\ info.fields = [n \in DOMAIN fields |-> View(world, fields[n])]
        /\ info.remain = remain
        /\ \A key \in Texts : V!Lookup(world.root, key, TRUE) = found(key)

MCWorlds == {w \in Clashes : Proper(w)} \union Optioned \union Declared1

=============================================================================
