------------------------------- MODULE MCCasts -------------------------------
(***************************************************************************)
(* Scalars of two widths: integers of 6 and 4 bits in the place of 64 and  *)
(* 32, floats with 4 and 2 bits of significand.  Like those of Go they     *)
(* reach well beyond every integer and cannot tell all of them apart: not  *)
(* even the largest of either width and sign, which the wide float has     *)
(* only of the narrow integers (as float64 has of int32, not of int64).    *)
(***************************************************************************)
EXTENDS Casts

ScalarType(kind, bits) == [kind |-> kind, bits |-> bits, self |-> ""]
Rendering(kind, how)   == [kind |-> kind, bits |-> 6, self |-> how]

MCMantissa  == [b \in {4, 6} |-> IF b = 4 THEN 2 ELSE 4]
MCMaxHalves == [b \in {4, 6} |-> IF b = 4 THEN 192 ELSE 480]

\* amd64 yields one integer for all of them, arm64 the nearest, and 0 for NaN.
MCBuilds ==
  {[int  |-> [nan |-> -32, high |-> -32, low |-> -32], uint |-> [nan |-> 32, high |-> 32]],
   [int  |-> [nan |-> 0, high |-> 31, low |-> -32], uint |-> [nan |-> 0, high |-> 63]]}

MCScalarTypes ==
  {ScalarType(kind, bits) : kind \in {"int", "uint", "float", "complex"}, bits \in {4, 6}}
    \union {ScalarType(kind, 0) : kind \in {"bool", "string", "number"}}

Ints   == {[t |-> ScalarType("int", 6), x |-> n] :
             n \in {-32, -31, -17, -16, -9, -8, -7, -1, 0, 1, 5, 7, 8, 9, 15, 16, 17, 23, 31}}
            \union {[t |-> ScalarType("int", 4), x |-> n] : n \in {-8, -1, 0, 7}}
Uints  == {[t |-> ScalarType("uint", 6), x |-> n] : n \in {0, 1, 7, 8, 15, 16, 17, 31, 32, 33, 41, 62, 63}}
            \union {[t |-> ScalarType("uint", 4), x |-> n] : n \in {0, 7, 8, 15}}
Halved == {0, 1, -1, 2, -2, 5, -7, 11, 14, 16, -16, -18, 30, 32, 60, 64, -64, -72, 120, 128, 160, -192, 208, 480, -480}
Floats ==
  LET Strange == {Not("nan"), Not("inf"), Not("-inf")}
  IN  {[t |-> ScalarType("float", 6), x |-> f] : f \in {Fin(h) : h \in Halved} \union Strange}
        \union {[t |-> ScalarType("float", 4), x |-> f] :
                  f \in {Fin(h) : h \in {0, 1, -3, 6, 24, 32, 64, -96, 128, 192}} \union Strange}
Written ==
  {[t |-> ScalarType(kind, 0), x |-> x] :
     kind \in {"string", "number"}, x \in {Text(""), Num(3), Num(14), Num(-2), Num(62), Num(64), Num(230), [k |-> "exp", h |-> 20]}}
    \union {[t |-> ScalarType("string", 0), x |-> x] :
              x \in {Text("true"), Text("word"), Text("nan"), [k |-> "octal", h |-> 16], Num(500)}}
Others ==
  {[t |-> ScalarType("bool", 0), x |-> b] : b \in BOOLEAN}
    \union {[t |-> ScalarType("complex", 6), x |-> [re |-> Fin(h), im |-> Fin(3)]] : h \in {1, 208, 480}}
    \union {[t |-> ScalarType("bytes", 0), x |-> Num(14)], [t |-> ScalarType("opaque", 0), x |-> Text("")],
            [t |-> Rendering("int", "text"), x |-> 7], [t |-> Rendering("int", "fails"), x |-> 7]}

MCInputs == Ints \union Uints \union Floats \union Written \union Others

=============================================================================
