----------------------------- MODULE MCContainers -----------------------------
(***************************************************************************)
(* Slices, arrays, maps, pointers, empty interfaces and awkward structs (a *)
(* bad tag, read-only, unreachable, a remain field that is no map), fresh  *)
(* and merged into what the destination holds; every input is given twice, *)
(* and every list to a slice and to an array.                              *)
(* And hooks that answer, fail, yield nil or decline, with types that      *)
(* encode, decode and read themselves from text, at the root and inside    *)
(* containers.                                                             *)
(***************************************************************************)
EXTENDS MCData, Promises

\* Sources: generic trees, typed containers, structs, pointers, nils.
Sources ==
  {MapAny([host |-> Str("h"), port |-> Int("7")]),
   MapAny([port |-> Str("80"), extra |-> Str("bad")]),
   Nil("mapStringAny"), Nil("sliceAny"), Nil("ptrFlat"), NilAny, MapAny(<< >>),
   Holding("mapIntAny", [x \in {"1", "2"} |-> Any(Int(x))]),
   Holding("mapStringInt", [host |-> Int("1")]),
   List(<<MapAny([host |-> Str("x")]), MapAny([port |-> Int("7")])>>),
   List(<<Int("1"), Str("bad"), Str("2")>>), List(<<Int("7"), Int("1")>>),
   List(<<Str("bad"), Int("2")>>), List(<<NilAny, Str("7")>>),
   Holding("sliceInt", <<Int("1"), Int("2")>>), Holding("sliceInt", << >>),
   Holding("sliceFlat", <<Flat("h", "1")>>), Holding("ptrFlat", <<Flat("x", "2")>>),
   Holding("ptrAny", <<Any(Flat("x", "1"))>>), Holding("ptrAny", <<NilAny>>),
   Pair("2", "7"), Holding("pairAny", <<Any(Flat("h", "1")), NilAny>>),
   Holding("bytes", Letters("byte", "80")),
   Flat("y", "80"), Int("7"), Str("bad"), Scalar("func", "x"),
   Holding("labels", <<Str("1")>>), Holding("Bad", <<Str("h")>>),
   Holding("Rest", <<Str("h"), MapAny([extra |-> Int("1")])>>),
   Holding("EmbX", [i \in {1} |-> Str("h")])}

\* Destinations, empty and filled.
Olds ==
  {ZeroOf[t] : t \in {"any", "string", "ptrInt", "ptrFlat", "sliceInt", "sliceAny", "sliceFlat",
                      "sliceMap", "sliceString", "mapStringAny", "mapStringInt", "mapLabelInt", "mapIntAny",
                      "mapIntInt", "pairFlat", "trio", "bytes", "func", "Bad", "Fixed", "Emb", "EmbX", "RestX", "RestP"}}
  \union {Holding("sliceInt", <<Int("7"), Int("7"), Int("7")>>),
          Holding("sliceFlat", <<Flat("old", "1")>>), Pair("1", "80"),
          Holding("ptrFlat", <<Flat("old", "1")>>), Any(Int("2")),
          MapAny([host |-> MapAny([x |-> Int("1")]), more |-> Int("2")])}

\* A list, or what is lifted into one, given to a slice and to an array.
GivenLists == {x \in Sources : Kind(x) # "string"}
Into2 == {<<ZeroOf["sliceInt"], ZeroOf["pair"]>>, <<ZeroOf["sliceFlat"], ZeroOf["pairFlat"]>>,
          <<Holding("sliceInt", <<Int("7"), Int("2")>>), Pair("7", "2")>>,
          <<Holding("sliceFlat", <<Flat("old", "1")>>),
            Holding("pairFlat", <<Flat("old", "1"), ZeroOf["Flat"]>>)>>}
ListSessions ==
  {Session(c, <<ToInto(s, o[1]), ToInto(s, o[2])>>) :
     c \in {Default, [Strict EXCEPT !.failFast = TRUE], [Default EXCEPT !.zeroFields = TRUE]},
     s \in GivenLists, o \in Into2}

Twice(c, s, o) == Session(c, <<ToInto(s, o), [ToInto(s, o) EXCEPT !.into = 1]>>)

TwiceSessions ==
  {Twice(c, s, o) : c \in {Default, [Default EXCEPT !.zeroFields = TRUE, !.failFast = TRUE]},
                    s \in Sources, o \in Olds}
  \union {Twice([Strict EXCEPT !.shallow = TRUE, !.max = 1], s, o) :
            s \in {x \in Sources : Kind(x) \in {"slice", "map"} /\ ~x.nil},
            o \in {x \in Olds : Kind(x) \in {"slice", "map", "iface"}}}

-----------------------------------------------------------------------------
(* Hooks and codec methods.                                                *)

Hook(from, to, err, val) == [from |-> from, to |-> to, err |-> err, val |-> val]
HookLists ==
  {<< >>, <<Hook("string", "int", FALSE, Int("2"))>>, <<Hook("*", "Reader", TRUE, NoValue)>>,
   <<Hook("Flat", "*", FALSE, Str("80")), Hook("*", "*", TRUE, NoValue)>>,
   <<Hook("int", "*", FALSE, NilAny)>>, <<Hook("*", "Clock", FALSE, Any(Str("x")))>>,
   <<Hook("Writer", "string", TRUE, NoValue)>>}
Users == [decode : {"skip", "err", "ok"}, encode : {"skip", "err", "nil", "ok"}, text : {"ok", "err"}]

Writer == Holding("Writer", <<Str("h")>>)
Speakers == {Str("7"), Str("bad"), Int("1"), Flat("h", "1"), Writer, Scalar("Clock", "1")}
Listeners == {Int("2"), Str("y"), Scalar("Reader", "y"), Scalar("Clock", "y")}
Holders == {List(<<Writer, Str("1"), Flat("h", "1")>>), MapAny([host |-> Writer, port |-> Int("1")])}
Answered == {Int("2"), Str("80"), NilAny, Any(Str("x"))}

HookSessions ==
  {[cfg |-> [c EXCEPT !.hooks = hs], user |-> u, plan |-> <<ToInto(s, o)>>] :
     c \in {Default, [Strict EXCEPT !.zeroFields = TRUE, !.failFast = TRUE]},
     hs \in HookLists, u \in Users, s \in Speakers, o \in Listeners}
  \union
  {[cfg |-> [Default EXCEPT !.hooks = hs, !.max = 2], user |-> u, plan |-> <<To(s, t)>>] :
     hs \in HookLists, u \in {x \in Users : x.text = "ok"}, s \in Holders,
     t \in {"sliceInt", "mapStringAny", "Flat", "any"}}

MCScenarios == TwiceSessions \union ListSessions \union HookSessions

AllInputs ==
  WithParts(Sources \union Olds \union UNION {{o[1], o[2]} : o \in Into2}
            \union Speakers \union Listeners \union Holders \union Answered
            \union {ZeroOf[t] : t \in DOMAIN Types})
MCInputs == AllInputs

=============================================================================
