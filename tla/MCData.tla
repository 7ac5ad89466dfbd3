-------------------------------- MODULE MCData --------------------------------
(***************************************************************************)
(* The values and sessions the model-checking runs work on.                *)
(***************************************************************************)
EXTENDS Engine, MCTypes

IntTable == [t \in Texts |-> IF t \in {"0", "1", "2", "7", "80"} THEN t ELSE IF t = "" THEN "0" ELSE NaI]

\* The texts that are spelled out.
BytesTable == [t \in {"", "7", "80", "bad"} |->
                 CASE t = "" -> << >> [] t = "7" -> <<"55">> [] t = "80" -> <<"56", "48">>
                   [] OTHER -> <<"98", "97", "100">>]

MCIntOf == IntTable
MCBytes == BytesTable

-----------------------------------------------------------------------------
(* Values.                                                                 *)

Str(x)       == Scalar("string", x)
Int(x)       == Scalar("int", x)
PtrInt(x)    == Holding("ptrInt", <<Int(x)>>)
MapAny(kids) == Holding("mapStringAny", [k \in DOMAIN kids |-> Any(kids[k])])
List(elems)  == Holding("sliceAny", [n \in DOMAIN elems |-> Any(elems[n])])
Pair(m, n)   == Holding("pair", <<Int(m), Int(n)>>)
NilAny       == Nil("any")
Flat(h, p)   == Holding("Flat", <<Str(h), Int(p)>>)
Mail(h, p, s) == Holding("Mail", <<Str(h), Int(p), Int(s)>>)

\* Values with what they hold, and that holds, four levels down.
WithParts(values) ==
  LET Parts(S) == UNION {{v.kids[k] : k \in DOMAIN v.kids} : v \in S}
      one   == Parts(values)
      two   == Parts(one)
      three == Parts(two)
  IN  values \union one \union two \union three \union Parts(three)

-----------------------------------------------------------------------------
(* Scenarios.                                                              *)

Default == [zeroFields |-> FALSE, weakTypes |-> TRUE, deref |-> FALSE, omitNil |-> FALSE,
            shallow |-> FALSE, errorUnused |-> FALSE, failFast |-> FALSE, max |-> 0,
            loose |-> TRUE, hooks |-> << >>, meta |-> TRUE]
Strict  == [Default EXCEPT !.weakTypes = FALSE]
Silent  == [decode |-> "skip", encode |-> "skip", text |-> "ok"]

To(src, dt)         == [src |-> src, from |-> 0, cur |-> ZeroOf[dt], into |-> 0, dt |-> dt]
ToInto(src, cur)    == [src |-> src, from |-> 0, cur |-> cur, into |-> 0, dt |-> cur.t]
Then(n, dt)         == [src |-> NoValue, from |-> n, cur |-> ZeroOf[dt], into |-> 0, dt |-> dt]
Session(c, plan)    == [cfg |-> c, user |-> Silent, plan |-> plan]

=============================================================================
