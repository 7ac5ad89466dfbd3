-------------------------------- MODULE Casts --------------------------------
(***************************************************************************)
(* The scalar conversions of cast.go, one handler per kind of destination, *)
(* called one after the other: on one value again and again, or on what    *)
(* the call before made of it.                                             *)
(*                                                                         *)
(* A type is [kind, bits, self]; self is how it renders itself: "" not at  *)
(* all, "text", or "fails".  A value is [t, x], x depending on the kind:   *)
(*   bool     a Boolean         int, uint   an integer                     *)
(*   float    a float           complex     [re, im], two floats           *)
(*   string, number (json.Number), bytes    a text                         *)
(* and "opaque" stands for the kinds no handler reads.  A float is [k, h]: *)
(* "fin" and twice its value, or "nan", "inf", "-inf".  A text is [k, h]   *)
(* too: "num" is the plain decimal of h/2, "exp" one with an exponent,     *)
(* "octal" a leading zero and octal digits of h/2; and there are "",       *)
(* "true", "false", those of the floats that are not finite, and "word".   *)
(***************************************************************************)
EXTENDS Integers, Sequences

CONSTANTS
  ScalarTypes,
  Inputs,     \* the values the first call may be given
  Builds,     \* what a build makes of the floats no 64-bit integer holds
  Wide,       \* bits of int64, uint64 and float64
  Mantissa,   \* bits of a float type -> bits of its significand
  MaxHalves,  \* bits of a float type -> twice its largest finite value
  MaxCalls    \* bound: calls in a history

ASSUME CastsAssumption == Wide \in Nat \ {0} /\ MaxCalls \in Nat \ {0}

VARIABLES
  calls,  \* [src, dt, weak, ok, out] of each call made; out is the error if not ok
  build   \* [int, uint]: what NaN, a float too high and one too low become

vars == <<calls, build>>

-----------------------------------------------------------------------------
(* Numbers.                                                                *)

MinInt(b)  == -(2 ^ (b - 1))
MaxInt(b)  == 2 ^ (b - 1) - 1
MaxUint(b) == 2 ^ b - 1
IntRange(b)  == MinInt(b) .. MaxInt(b)
UintRange(b) == 0 .. MaxUint(b)

Abs(n)  == IF n < 0 THEN -n ELSE n
Sign(n) == IF n < 0 THEN -1 ELSE 1

Fin(h) == [k |-> "fin", h |-> h]
Not(k) == [k |-> k, h |-> 0]

\* To m significant bits, to the nearest, a tie to the even neighbour.
Round(h, m) ==
  LET drop == CHOOSE d \in 0 .. Abs(h) :
                /\ Abs(h) < 2 ^ (m + d)
                /\ d > 0 => Abs(h) >= 2 ^ (m + d - 1)
      unit == 2 ^ drop
      kept == Abs(h) \div unit
      rest == 2 * (Abs(h) % unit)
      up   == rest > unit \/ (rest = unit /\ kept % 2 = 1)
  IN  Sign(h) * unit * (IF up THEN kept + 1 ELSE kept)

\* The float of that many bits nearest to h/2; beyond the largest, an infinity.
AsFloat(h, bits) ==
  LET r == Round(h, Mantissa[bits])
  IN  IF Abs(r) <= MaxHalves[bits] THEN Fin(r) ELSE Not(IF r > 0 THEN "inf" ELSE "-inf")
Narrowed(f, bits) == IF f.k = "fin" THEN AsFloat(f.h, bits) ELSE f

\* Comparisons with an integer, as a float64 that may not be exact; false of NaN.
Above(f, n) == f.k = "inf"  \/ (f.k = "fin" /\ f.h > Round(2 * n, Mantissa[Wide]))
Under(f, n) == f.k = "-inf" \/ (f.k = "fin" /\ f.h < Round(2 * n, Mantissa[Wide]))

IsWhole(f) == f.k \in {"inf", "-inf"} \/ (f.k = "fin" /\ f.h % 2 = 0)
Trunc(f)   == Sign(f.h) * (Abs(f.h) \div 2)

\* int64(f) and uint64(f): the language defines them only in range.
Stray(f)  == CASE f.k = "nan"               -> "nan"
               [] f.k = "-inf" \/ f.h < 0   -> "low"
               [] OTHER                     -> "high"
Int64(f)  == IF f.k = "fin" /\ Trunc(f) \in IntRange(Wide) THEN Trunc(f) ELSE build.int[Stray(f)]
Uint64(f) == IF f.k = "fin" /\ Trunc(f) \in UintRange(Wide) THEN Trunc(f) ELSE build.uint[Stray(f)]

\* Mutant: every destination is as wide as a float64.
OverflowWide(f, bits) == f.k = "fin" /\ Abs(f.h) > MaxHalves[Wide]

\* The float handed to a destination of that many bits overflows it (reflect);
\* an infinity does not.
OverflowFloat(f, bits) == f.k = "fin" /\ Abs(f.h) > MaxHalves[bits]

-----------------------------------------------------------------------------
(* Texts (strconv).                                                        *)

Num(h)  == [k |-> "num", h |-> h]
Text(k) == [k |-> k, h |-> 0]

\* The shortest plain decimal that reads back as the float: below 10 its own
\* digits, from there on one that ends in zeros if it can.
ShortestDecimal(f, bits) ==
  LET tens  == {h \in -MaxHalves[bits] .. MaxHalves[bits] : h % 20 = 0 /\ AsFloat(h, bits) = f}
      close == {h \in tens : \A g \in tens : Abs(h - f.h) <= Abs(g - f.h)}
  IN  IF Abs(f.h) < 20 \/ tens = {} THEN f.h ELSE CHOOSE h \in close : TRUE
\* Mutant: no digit is kept behind the point.
FormatWhole(f, bits) == IF f.k = "fin" THEN Num(2 * Trunc(f)) ELSE Text(f.k)

FormatFloat(f, bits) == IF f.k = "fin" THEN Num(ShortestDecimal(f, bits)) ELSE Text(f.k)

\* An integer in base 0: no fraction, no exponent, a leading zero is octal.
IsInt(x, range) == x.k \in {"num", "octal"} /\ x.h % 2 = 0 /\ x.h \div 2 \in range

\* A float knows no octal: "010" is 10.
Decimal(x) == IF x.k = "octal" THEN ((x.h \div 2) \div 8) * 20 + (x.h % 16) ELSE x.h
ParseFloat(x, bits) == IF x.k \in {"num", "exp", "octal"} THEN AsFloat(Decimal(x), bits) ELSE Not(x.k)
IsFloat(x, bits) ==
  \/ x.k \in {"nan", "inf", "-inf"}
  \/ x.k \in {"num", "exp", "octal"} /\ ParseFloat(x, bits).k = "fin"

IsBool(x) == x.k \in {"true", "false"} \/ (x.k = "num" /\ x.h \in {0, 2})
IsTrue(x) == x.k = "true" \/ x.h = 2

-----------------------------------------------------------------------------
(* What the constants may be.                                              *)

\* Values of a type are what it can hold: a float is one its significand has.
FloatFits(f, bits) ==
  \/ f \in {Not("nan"), Not("inf"), Not("-inf")}
  \/ /\ f = Fin(f.h) /\ f.h \in Int
     /\ Round(f.h, Mantissa[bits]) = f.h /\ Abs(f.h) <= MaxHalves[bits]

IsType(t) ==
  /\ t.kind \in {"int", "uint"} => t.bits \in 1 .. Wide
  /\ t.kind \in {"float", "complex"} => t.bits \in DOMAIN Mantissa

IsValue(v) ==
  /\ v = [t |-> v.t, x |-> v.x] /\ IsType(v.t)
  /\ v.t.kind = "bool"  => v.x \in BOOLEAN
  /\ v.t.kind = "int"   => v.x \in IntRange(v.t.bits)
  /\ v.t.kind = "uint"  => v.x \in UintRange(v.t.bits)
  /\ v.t.kind = "float" => FloatFits(v.x, v.t.bits)
  /\ v.t.kind = "complex" => FloatFits(v.x.re, v.t.bits) /\ FloatFits(v.x.im, v.t.bits)
  /\ v.t.kind \in {"string", "number", "bytes"} => v.x = [k |-> v.x.k, h |-> v.x.h] /\ v.x.h \in Int

\* The widest float has fewer bits than the widest integer (53 of 64), yet every
\* float type reaches beyond all of them.
ASSUME WidthsAssumption ==
  /\ Wide \in DOMAIN Mantissa /\ Mantissa[Wide] < Wide
  /\ \A b \in DOMAIN Mantissa :
       /\ Mantissa[b] \in Nat \ {0} /\ Mantissa[b] <= Mantissa[Wide]
       /\ MaxHalves[b] \in 2 ^ (Wide + 1) .. MaxHalves[Wide]
       /\ Round(MaxHalves[b], Mantissa[b]) = MaxHalves[b]

ASSUME ValuesAssumption ==
  /\ \A t \in ScalarTypes : IsType(t)
  /\ \A v \in Inputs : IsValue(v)
  /\ \A b \in Builds : \A s \in {"nan", "high", "low"} : b.int[s] \in IntRange(Wide)

-----------------------------------------------------------------------------
(* Calls.                                                                  *)

Init == calls = << >> /\ build \in Builds

\* The next call is given the value the first was, or the last result.
Sources ==
  IF calls = << >> THEN Inputs
  ELSE {calls[1].src} \union (IF calls[Len(calls)].ok THEN {calls[Len(calls)].out} ELSE {})

\* A call of the handler for destinations of one kind.
Calls(kind) ==
  IF Len(calls) >= MaxCalls THEN {}
  ELSE [src : Sources, dt : {t \in ScalarTypes : t.kind = kind}, weak : BOOLEAN]

Answer(c, ok, out) ==
  /\ calls' = Append(calls, [src |-> c.src, dt |-> c.dt, weak |-> c.weak, ok |-> ok, out |-> out])
  /\ UNCHANGED build
Set(c, x)    == Answer(c, TRUE, [t |-> c.dt, x |-> x])
Fail(c, err) == Answer(c, FALSE, err)

From(c, kinds)   == c.src.t.kind \in kinds
Numeric == {"int", "uint", "float"}
Texts   == {"string", "number"}

\* Only weak typing reads numbers out of Booleans and strings; a json.Number
\* is read by both.
Forbidden(c) == ~c.weak /\ From(c, {"bool", "string"})
Digits(x) == IF x.k = "" THEN Num(0) ELSE x

SetInt(c, n)   == IF n \in IntRange(c.dt.bits)  THEN Set(c, n) ELSE Fail(c, "overflow")
SetUint(c, n)  == IF n \in UintRange(c.dt.bits) THEN Set(c, n) ELSE Fail(c, "overflow")
SetFloat(c, f) == IF OverflowFloat(f, c.dt.bits) THEN Fail(c, "overflow")
                  ELSE Set(c, Narrowed(f, c.dt.bits))
Bit(x) == IF x THEN 1 ELSE 0

-----------------------------------------------------------------------------
(* Handlers.                                                               *)

ToBool(c) ==
  \/ /\ From(c, {"bool"})
     /\ Set(c, c.src.x)
  \/ /\ ~From(c, {"bool"}) /\ ~c.weak
     /\ Fail(c, "strict")
  \/ /\ c.weak /\ From(c, {"int", "uint"})
     /\ Set(c, c.src.x # 0)
  \/ /\ c.weak /\ From(c, {"float"})
     /\ Set(c, c.src.x # Fin(0))
  \/ /\ c.weak /\ From(c, Texts)
     /\ CASE c.src.x.k = ""    -> Set(c, FALSE)
          [] IsBool(c.src.x)   -> Set(c, IsTrue(c.src.x))
          [] OTHER             -> Fail(c, "unconvertible")
  \/ /\ c.weak /\ ~From(c, {"bool"} \union Numeric \union Texts)
     /\ Fail(c, "unconvertible")

ToInt(c) ==
  \/ /\ From(c, {"int"})
     /\ SetInt(c, c.src.x)
  \/ /\ From(c, {"uint"})
     /\ IF c.src.x > MaxInt(Wide) THEN Fail(c, "overflow") ELSE SetInt(c, c.src.x)
  \/ /\ From(c, {"float"})
     /\ CASE ~IsWhole(c.src.x) /\ ~c.weak -> Fail(c, "unconvertible")
          [] Under(c.src.x, MinInt(Wide)) \/ Above(c.src.x, MaxInt(Wide)) -> Fail(c, "overflow")
          [] OTHER -> SetInt(c, Int64(c.src.x))
  \/ /\ Forbidden(c)
     /\ Fail(c, "strict")
  \/ /\ c.weak /\ From(c, {"bool"})
     /\ SetInt(c, Bit(c.src.x))
  \/ /\ From(c, Texts) /\ ~Forbidden(c)
     /\ LET x == Digits(c.src.x)
        IN  IF IsInt(x, IntRange(c.dt.bits)) THEN SetInt(c, x.h \div 2) ELSE Fail(c, "unconvertible")
  \/ /\ ~From(c, {"bool"} \union Numeric \union Texts)
     /\ Fail(c, "unconvertible")

\* Mutant: the negative is not cut down to the destination's width.
WrapWide(c, n) == IF c.weak THEN SetUint(c, n % 2 ^ Wide) ELSE Fail(c, "overflow")

\* Weak typing wraps a negative into the destination's width (widthMask).
Wrap(c, n) == IF c.weak THEN Set(c, n % 2 ^ c.dt.bits) ELSE Fail(c, "overflow")

ToUint(c) ==
  \/ /\ From(c, {"int"})
     /\ IF c.src.x < 0 THEN Wrap(c, c.src.x) ELSE SetUint(c, c.src.x)
  \/ /\ From(c, {"uint"})
     /\ SetUint(c, c.src.x)
  \/ /\ From(c, {"float"})
     /\ CASE ~IsWhole(c.src.x) /\ ~c.weak  -> Fail(c, "unconvertible")
          [] Under(c.src.x, 0)             -> Wrap(c, Int64(c.src.x))
          [] Above(c.src.x, MaxUint(Wide)) -> Fail(c, "overflow")
          [] OTHER                         -> SetUint(c, Uint64(c.src.x))
  \/ /\ Forbidden(c)
     /\ Fail(c, "strict")
  \/ /\ c.weak /\ From(c, {"bool"})
     /\ SetUint(c, Bit(c.src.x))
  \/ /\ From(c, Texts) /\ ~Forbidden(c)
     /\ LET x == Digits(c.src.x)
        IN  IF IsInt(x, UintRange(c.dt.bits)) THEN SetUint(c, x.h \div 2) ELSE Fail(c, "unconvertible")
  \/ /\ ~From(c, {"bool"} \union Numeric \union Texts)
     /\ Fail(c, "unconvertible")

ToFloat(c) ==
  \/ /\ From(c, {"int", "uint"})
     /\ SetFloat(c, AsFloat(2 * c.src.x, Wide))
  \/ /\ From(c, {"float"})
     /\ SetFloat(c, c.src.x)
  \/ /\ Forbidden(c)
     /\ Fail(c, "strict")
  \/ /\ c.weak /\ From(c, {"bool"})
     /\ SetFloat(c, Fin(2 * Bit(c.src.x)))
  \/ /\ From(c, Texts) /\ ~Forbidden(c)
     /\ LET x == Digits(c.src.x)
        IN  IF IsFloat(x, c.dt.bits) THEN SetFloat(c, ParseFloat(x, c.dt.bits)) ELSE Fail(c, "unconvertible")
  \/ /\ ~From(c, {"bool"} \union Numeric \union Texts)
     /\ Fail(c, "unconvertible")

\* Only a complex source is checked for overflow; a real one is narrowed.
Real(c, f) == Set(c, [re |-> Narrowed(f, c.dt.bits), im |-> Fin(0)])

ToComplex(c) ==
  \/ /\ From(c, {"complex"})
     /\ IF OverflowFloat(c.src.x.re, c.dt.bits) \/ OverflowFloat(c.src.x.im, c.dt.bits)
        THEN Fail(c, "overflow")
        ELSE Set(c, [re |-> Narrowed(c.src.x.re, c.dt.bits), im |-> Narrowed(c.src.x.im, c.dt.bits)])
  \/ /\ From(c, {"int", "uint"})
     /\ Real(c, AsFloat(2 * c.src.x, Wide))
  \/ /\ From(c, {"float"})
     /\ Real(c, c.src.x)
  \/ /\ ~From(c, {"complex"} \union Numeric)
     /\ Fail(c, "unconvertible")

Renders(c)  == c.src.t.self # ""
Stringify(c) == CASE c.src.t.kind = "bool"  -> Text(IF c.src.x THEN "true" ELSE "false")
                  [] c.src.t.kind = "float" -> FormatFloat(c.src.x, c.src.t.bits)
                  [] c.src.t.kind = "bytes" -> c.src.x
                  [] OTHER                  -> Num(2 * c.src.x)

\* Mutant: weak typing renders the value before it asks the type.
StringifyFirst(c) ==
  \/ /\ From(c, Texts)
     /\ Set(c, c.src.x)
  \/ /\ ~From(c, Texts) /\ c.weak
     /\ IF From(c, {"bool", "bytes"} \union Numeric) THEN Set(c, Stringify(c)) ELSE Fail(c, "unconvertible")
  \/ /\ ~From(c, Texts) /\ ~c.weak
     /\ IF c.src.t.self = "text" THEN Set(c, Text("word")) ELSE Fail(c, "strict")

\* A type's own text is taken in both modes.
ToString(c) ==
  \/ /\ From(c, Texts)
     /\ Set(c, c.src.x)
  \/ /\ ~From(c, Texts) /\ Renders(c)
     /\ IF c.src.t.self = "fails" THEN Fail(c, "self") ELSE Set(c, Text("word"))
  \/ /\ ~From(c, Texts) /\ ~Renders(c) /\ ~c.weak
     /\ Fail(c, "strict")
  \/ /\ ~From(c, Texts) /\ ~Renders(c) /\ c.weak
     /\ IF From(c, {"bool", "bytes"} \union Numeric) THEN Set(c, Stringify(c)) ELSE Fail(c, "unconvertible")

Next ==
  \/ \E c \in Calls("bool")    : ToBool(c)
  \/ \E c \in Calls("int")     : ToInt(c)
  \/ \E c \in Calls("uint")    : ToUint(c)
  \/ \E c \in Calls("float")   : ToFloat(c)
  \/ \E c \in Calls("complex") : ToComplex(c)
  \/ \E c \in Calls("string") \union Calls("number") : ToString(c)

Spec == Init /\ [][Next]_vars

-----------------------------------------------------------------------------
(* Properties.                                                             *)

\* The last call, if any.
Last == {calls[n] : n \in {Len(calls)} \ {0}}

\* The numbers a value stands for, in halves; none if it is not finite.
Halves(v) == CASE v.t.kind \in {"int", "uint"} -> {2 * v.x}
               [] v.t.kind = "float" /\ v.x.k = "fin" -> {v.x.h}
               [] OTHER -> {}
Whole(h) == Sign(h) * (Abs(h) \div 2)
RangeOf(t) == IF t.kind = "int" THEN IntRange(t.bits) ELSE UintRange(t.bits)

\* A float no 64-bit integer of the destination's kind holds, that cast.go:98
\* and cast.go:195 let through all the same: the limit itself, which as a
\* float64 is one more than the largest integer, and below zero any float.
Unguarded(c) ==
  /\ c.src.t.kind = "float" /\ c.src.x.k = "fin"
  /\ \/ c.dt.kind = "int" /\ Trunc(c.src.x) = MaxInt(Wide) + 1
     \/ c.dt.kind = "uint" /\ Trunc(c.src.x) = MaxUint(Wide) + 1
     \/ c.dt.kind = "uint" /\ c.weak /\ Trunc(c.src.x) < MinInt(Wide)

\* What README.md:64 and option.go:108 say of a number that reaches an integer
\* type, against toInt and toUint and their order of checks, masks and
\* conversions, for every pair of widths: strict typing stores the number
\* itself or refuses it, and refuses it only if the type lacks it; weak typing
\* cuts the fraction off and wraps a negative into an unsigned type by its width.
ByMode(c) ==
  c.dt.kind \in {"int", "uint"} /\ ~Unguarded(c) =>
    \A h \in Halves(c.src) :
      LET want == IF c.weak /\ c.dt.kind = "uint" /\ Whole(h) < 0
                  THEN Whole(h) % 2 ^ c.dt.bits ELSE Whole(h)
      IN  /\ c.ok <=> want \in RangeOf(c.dt) /\ (c.weak \/ h % 2 = 0)
          /\ c.ok => c.out.x = want

IntegersByMode == \A c \in Last : ByMode(c)

\* A number that reaches a float type arrives as one of the two floats around
\* it, though it is rounded twice on its way into a narrow one, and never as
\* an infinity: beyond the largest float it is refused, in both modes.
Faithful(c) ==
  c.dt.kind = "float" =>
    \A h \in Halves(c.src) :
      /\ c.ok <=> Abs(h) <= MaxHalves[c.dt.bits]
      /\ c.ok => /\ c.out.x.k = "fin"
                 /\ \A g \in (h .. c.out.x.h - 1) \union (c.out.x.h + 1 .. h) :
                      Round(g, Mantissa[c.dt.bits]) # g

FloatsFaithful == \A c \in Last : Faithful(c)

\* WithStrictTypes only takes conversions away: what it makes of a value, weak
\* typing makes of it too.
WeakExtendsStrict ==
  \A m, n \in DOMAIN calls :
    LET s == calls[m]
        w == calls[n]
    IN  s.src = w.src /\ s.dt = w.dt /\ ~s.weak /\ s.ok /\ w.weak => w.ok /\ w.out = s.out

\* Weak typing writes a scalar of any width as a text that weak typing reads
\* back as the scalar it came from: FormatFloat, FormatInt and FormatBool
\* against ParseFloat, ParseInt in base 0 and ParseBool.
RoundTrip ==
  \A n \in DOMAIN calls :
    LET w == calls[n]
        r == calls[n + 1]
    IN  /\ n + 1 \in DOMAIN calls
        /\ w.weak /\ w.ok /\ w.dt.kind \in Texts
        /\ w.src.t.kind \in {"bool"} \union Numeric /\ w.src.t.self = ""
        /\ r.weak /\ r.src = w.out /\ r.dt = w.src.t
        => r.ok /\ r.out = w.src

\* option.go:109: under WithStrictTypes only conversions that cannot lose
\* information are performed.
LosesNothing ==
  \A c \in Last :
    ~c.weak /\ c.ok /\ c.dt.kind \in Numeric => \A h \in Halves(c.src) : Halves(c.out) = {h}

=============================================================================
