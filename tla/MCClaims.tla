------------------------------- MODULE MCClaims -------------------------------
(***************************************************************************)
(* The smallest sessions in which the code departs from what its           *)
(* documentation says; one set of scenarios per claim.                     *)
(***************************************************************************)
EXTENDS MCData, Promises

FailingHook == [Default EXCEPT !.hooks = <<[from |-> "string", to |-> "int", err |-> TRUE, val |-> NoValue]>>]
Repeated(c, src, dt) == Session(c, <<To(src, dt), To(src, dt)>>)

KeyMap  == MapAny([host |-> Str("h"), extra |-> Int("1"), more |-> Int("2")])
ListMap == MapAny([list |-> List(<<Str("x"), Str("y")>>)])
BadMap  == MapAny([host |-> Str("h"), port |-> Str("bad")])
MapList == List(<<MapAny([host |-> Str("h")]), MapAny([port |-> Int("1")])>>)

\* A hook that fails on a value the built-in conversion would accept.
HookSessions == {Session(FailingHook, <<ToInto(Str("7"), Int("1"))>>)}

\* Two keys that no field claims.
UnusedSessions ==
  {Repeated(Default, KeyMap, "Flat")}

\* A field whose value cannot be converted.
KeysSessions ==
  {Session(Default, <<To(BadMap, "Flat")>>)}

\* A list in an empty interface, whose first element a hook refuses.
StopSessions ==
  {Session([FailingHook EXCEPT !.hooks = <<[from |-> "*", to |-> "any", err |-> TRUE, val |-> NoValue]>>,
                               !.failFast = TRUE],
           <<To(ListMap, "mapIntAny")>>)}

\* A list of maps into one map, zeroing the destination.
MergeSessions ==
  {Session([Default EXCEPT !.zeroFields = TRUE],
           <<To(MapList, "mapStringAny")>>)}

ClaimInputs ==
  WithParts({Str("7"), Str("x"), Int("1"), KeyMap, BadMap, ListMap, MapList} \union {ZeroOf[t] : t \in DOMAIN Types})

=============================================================================
