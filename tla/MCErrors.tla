------------------------------- MODULE MCErrors -------------------------------
(***************************************************************************)
(* Maps with good, bad, nil and missing entries read into structs, under   *)
(* every error limit and both typing modes.                                *)
(***************************************************************************)
EXTENDS MCData, Promises

Entries == [host : {Str("h"), List(<< >>)}, port : {Str("80"), Int("7"), Str("bad")},
            size : {Int("7"), Str("bad"), NilAny}, extra : {Int("1")}]

Sources ==
  UNION {{MapAny([k \in ks |-> e[k]]) : e \in Entries} :
         ks \in {{"host", "port"}, {"port", "size", "extra"}, {"size"}, {"host", "port", "size"}}}

Limits == {[c EXCEPT !.failFast = ff, !.max = mx] :
             c \in {Default, Strict}, ff \in BOOLEAN, mx \in 0 .. 2}

OldMail == Mail("old", "1", "2")
ErrorSessions ==
  {Session([c EXCEPT !.errorUnused = (c.max = 1)], <<ToInto(s, OldMail)>>) :
     c \in Limits, s \in Sources}

-----------------------------------------------------------------------------
(* Keys that match a field exactly, by folding, or not at all: the order   *)
(* the input map is walked in must not show, nor a key get lost.           *)

\* Inputs with an exact and a folded key for one field, unclaimed keys, nils.
KeyMaps ==
  {MapAny([host |-> Str("h"), Host |-> Str("x")]),
   MapAny([host |-> Str("h"), HOST |-> Str("x"), Port |-> Str("7")]),
   MapAny([Host |-> Str("y"), port |-> Str("80"), Port |-> Int("1")]),
   MapAny([host |-> NilAny, Host |-> Str("x"), port |-> Str("bad")]),
   MapAny([Host |-> Str("x"), extra |-> Int("1")]),
   MapAny([host |-> Str("x"), rest |-> Int("2")]),
   MapAny([host |-> Str("x"), extra |-> Int("1"), more |-> Str("y")]),
   MapAny([Host |-> Str("x"), extra |-> MapAny([host |-> Str("h")]), more |-> List(<<Int("1")>>)]),
   MapAny([flat |-> MapAny([host |-> Str("h"), Host |-> Str("x")]),
           list |-> List(<<MapAny([Port |-> Str("bad")]), Flat("y", "2")>>)])}

Unclaimed1(s, t) == {k \in DOMAIN s.kids : Lookup(t, k, TRUE) = 0}

\* Elements of lists of maps.
SingleMaps == {MapAny([host |-> Str("h")]), MapAny([host |-> Int("1"), port |-> Int("7")]),
               MapAny([extra |-> MapAny([x |-> Int("2")])]), NilAny}
MapLists == {List(ms) : ms \in UNION {[1 .. n -> SingleMaps] : n \in 0 .. 2}}
OldMap   == MapAny([extra |-> Int("1"), more |-> Int("2")])

\* The same call twice, into destinations with at most one key to report as
\* unused; there and back through a remain field; lists of maps into a map.
KeySessions ==
  {Session(c, <<To(p[1], p[2]), To(p[1], p[2])>>) :
     c \in {Default, [Default EXCEPT !.errorUnused = TRUE, !.max = 1], [Strict EXCEPT !.failFast = TRUE]},
     p \in {q \in KeyMaps \X {"Flat", "Outer"} : Cardinality(Unclaimed1(q[1], q[2])) < 2}}
  \union
  {Session([c EXCEPT !.meta = FALSE], <<To(s, t), Then(1, "mapStringAny")>>) :
     c \in {Default, [Default EXCEPT !.loose = FALSE]},
     t \in {"Rest", "RestP", "Deep"}, s \in KeyMaps}
  \union
  {Session(c, <<ToInto(l, o)>>) :
     c \in {Default, [Default EXCEPT !.max = 1]}, l \in MapLists,
     o \in {ZeroOf["mapStringAny"], OldMap}}

MapSessions == ErrorSessions \union KeySessions

=============================================================================
