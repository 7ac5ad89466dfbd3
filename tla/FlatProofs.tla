------------------------------ MODULE FlatProofs ------------------------------
(***************************************************************************)
(* Proofs about map -> struct (struct.go structFromMap, assignField,       *)
(* finishStruct) for the calls whose named fields are scalars no user code *)
(* has a say in (Flattish of Promises): any struct of any number of such   *)
(* fields, any map, options, limit, remain field and earlier destination.  *)
(*                                                                         *)
(* The inductive invariant is FlatInv. It says of the calls that are over  *)
(* what was promised (FlatCallsOK), and of the one under way which phase   *)
(* it is in and what holds there (FlatRunningOK): Opening (convert's       *)
(* stages), Matching (keys go to fields, in any order), Assigning (the     *)
(* fields before the current one are done), Casting (one field's value is  *)
(* converted), FieldBack (its answer is there), Finishing (unused and      *)
(* unset keys), Remaining (the leftovers are converted into the remain     *)
(* field, by calls whose errors and metadata all lie below it), Over. Of   *)
(* the destination, the errors and the metadata each phase says what is    *)
(* settled so far, which none of the four promises says on its own. It     *)
(* stands on the stack, error, typing and session invariants of the        *)
(* modules extended here.                                                  *)
(***************************************************************************)
EXTENDS PipelineProofs, TypeProofs

-----------------------------------------------------------------------------
(* Lists in order.                                                         *)

\* Nothing lists nothing.
LEMMA ListsNone ==
  ASSUME NEW a \in Nat, NEW b \in Int, b < a, NEW s, NEW e
  PROVE  Lists(s, a, b, {}, e)
<1> DEFINE o == [m \in a .. b |-> m]
<1>1. a .. b = {}
  OBVIOUS
<1>2. o \in [a .. b -> {}]
  BY <1>1
<1> QED BY <1>1, <1>2 DEF Lists

\* What a list says is said by any other that has the same entries there.
LEMMA ListsSame ==
  ASSUME NEW s, NEW t, NEW a, NEW b, NEW S, NEW e, Lists(s, a, b, S, e), \A m \in a .. b : t[m] = s[m]
  PROVE  Lists(t, a, b, S, e)
<1>1. PICK o \in [a .. b -> S] :
        /\ \A m \in a .. b : s[m] = e[o[m]]
        /\ \A i \in S : \E m \in a .. b : o[m] = i
        /\ \A m, k \in a .. b : m < k => o[m] < o[k]
  BY DEF Lists
<1>2. \A m \in a .. b : t[m] = e[o[m]]
  BY <1>1
<1> QED BY <1>1, <1>2 DEF Lists

\* An entry for a greater member goes behind.
LEMMA ListsGrow ==
  ASSUME NEW s, IsSeq(s), NEW S \in SUBSET Nat, NEW e, Lists(s, 1, Len(s), S, e),
         NEW i \in Nat, \A j \in S : j < i
  PROVE  Lists(Append(s, e[i]), 1, Len(Append(s, e[i])), S \union {i}, e)
<1> DEFINE t == Append(s, e[i])
           n == Len(s)
<1>1. PICK o \in [1 .. n -> S] :
        /\ \A m \in 1 .. n : s[m] = e[o[m]]
        /\ \A j \in S : \E m \in 1 .. n : o[m] = j
        /\ \A m, k \in 1 .. n : m < k => o[m] < o[k]
  BY DEF Lists
<1>2. PICK W : s \in Seq(W)
  BY DEF IsSeq
<1>3. n \in Nat /\ Len(t) = n + 1 /\ t[n + 1] = e[i] /\ \A m \in 1 .. n : t[m] = s[m]
  <2>1. s \in Seq(W \union {e[i]})
    BY <1>2
  <2> QED BY <2>1
<1> HIDE DEF t, n
<1> DEFINE p == [m \in 1 .. n + 1 |-> IF m = n + 1 THEN i ELSE o[m]]
<1>4. p \in [1 .. n + 1 -> S \union {i}]
  BY <1>3
<1>5. \A m \in 1 .. n : p[m] = o[m] /\ o[m] \in S /\ m # n + 1
  BY <1>3
<1>6. p[n + 1] = i /\ n + 1 \in 1 .. n + 1 /\ \A m \in 1 .. n + 1 : m = n + 1 \/ m \in 1 .. n
  BY <1>3
<1> HIDE DEF p
<1>7. \A m \in 1 .. n + 1 : t[m] = e[p[m]]
  BY <1>1, <1>3, <1>5, <1>6
<1>8. \A j \in S \union {i} : \E m \in 1 .. n + 1 : p[m] = j
  <2>1. 1 .. n \subseteq 1 .. n + 1
    BY <1>3
  <2> QED BY <1>1, <1>5, <1>6, <2>1
<1>9. \A m, k \in 1 .. n + 1 : m < k => p[m] < p[k]
  <2> SUFFICES ASSUME NEW m \in 1 .. n + 1, NEW k \in 1 .. n + 1, m < k PROVE p[m] < p[k]
    OBVIOUS
  <2>1. m \in 1 .. n
    BY <1>3
  <2>2. CASE k = n + 1
    BY <2>1, <2>2, <1>5, <1>6
  <2>3. CASE k \in 1 .. n
    BY <2>1, <2>3, <1>1, <1>5
  <2> QED BY <1>6, <2>2, <2>3
<1>10. Lists(t, 1, n + 1, S \union {i}, e)
  BY <1>4, <1>7, <1>8, <1>9 DEF Lists
<1> QED BY <1>3, <1>10 DEF t

\* It has as many entries as there are members.
LEMMA ListsCount ==
  ASSUME NEW s, NEW S \in SUBSET Nat, NEW e, NEW n \in Nat, Lists(s, 1, n, S, e)
  PROVE  IsFiniteSet(S) /\ Cardinality(S) = n
<1>1. PICK o \in [1 .. n -> S] :
        /\ \A j \in S : \E m \in 1 .. n : o[m] = j
        /\ \A m, k \in 1 .. n : m < k => o[m] < o[k]
  BY DEF Lists
<1>2. o \in Surjection(1 .. n, S)
  BY <1>1 DEF Surjection
<1>3. o \in Injection(1 .. n, S)
  <2> SUFFICES ASSUME NEW m \in 1 .. n, NEW k \in 1 .. n, o[m] = o[k] PROVE m = k
    BY DEF Injection, IsInjective
  <2>1. o[m] \in S /\ o[k] \in S
    BY <1>1
  <2>2. o[m] \in Nat
    BY <2>1
  <2>3. m \in Nat /\ k \in Nat
    OBVIOUS
  <2>4. ~(o[m] < o[k]) /\ ~(o[k] < o[m])
    BY <2>2
  <2> QED BY <1>1, <2>3, <2>4
<1>4. ExistsBijection(1 .. n, S)
  BY <1>2, <1>3 DEF Bijection, ExistsBijection
<1>5. IsFiniteSet(1 .. n) /\ Cardinality(1 .. n) = n
  BY FS_Interval
<1> QED BY <1>4, <1>5, FS_Bijection

\* A list behind another.
LEMMA ListsBehind ==
  ASSUME NEW s, IsSeq(s), NEW v, IsSeq(v), NEW S \in SUBSET Nat, NEW e, Lists(v, 1, Len(v), S, e)
  PROVE  Lists(s \o v, Len(s) + 1, Len(s \o v), S, e)
<1>1. PICK W : s \in Seq(W) /\ v \in Seq(W)
  <2>1. PICK A, B : s \in Seq(A) /\ v \in Seq(B)
    BY DEF IsSeq
  <2>2. s \in Seq(A \union B) /\ v \in Seq(A \union B)
    BY <2>1
  <2> QED BY <2>2
<1> DEFINE n == Len(s)
           k == Len(v)
           t == s \o v
<1>2. n \in Nat /\ k \in Nat /\ Len(t) = n + k /\ \A m \in 1 .. k : t[n + m] = v[m]
  BY <1>1
<1> HIDE DEF n, k, t
<1>3. PICK o \in [1 .. k -> S] :
        /\ \A m \in 1 .. k : v[m] = e[o[m]]
        /\ \A j \in S : \E m \in 1 .. k : o[m] = j
        /\ \A m, l \in 1 .. k : m < l => o[m] < o[l]
  BY DEF Lists, k
<1> DEFINE p == [m \in n + 1 .. n + k |-> o[m - n]]
<1>4. \A m \in n + 1 .. n + k : m - n \in 1 .. k /\ m \in Nat /\ m = n + (m - n) /\ p[m] = o[m - n]
  BY <1>2
<1>5. p \in [n + 1 .. n + k -> S]
  BY <1>2
<1> HIDE DEF p
<1>6. \A m \in n + 1 .. n + k : t[m] = e[p[m]]
  BY <1>2, <1>3, <1>4
<1>7. \A j \in S : \E m \in n + 1 .. n + k : p[m] = j
  <2> SUFFICES ASSUME NEW j \in S PROVE \E m \in n + 1 .. n + k : p[m] = j
    OBVIOUS
  <2>1. PICK m \in 1 .. k : o[m] = j
    BY <1>3
  <2>2. n + m \in n + 1 .. n + k /\ (n + m) - n = m
    BY <1>2
  <2>3. p[n + m] = j
    BY <1>4, <2>1, <2>2
  <2> QED BY <2>2, <2>3
<1>8. \A m, l \in n + 1 .. n + k : m < l => p[m] < p[l]
  <2> SUFFICES ASSUME NEW m \in n + 1 .. n + k, NEW l \in n + 1 .. n + k, m < l PROVE p[m] < p[l]
    OBVIOUS
  <2>1. m - n < l - n
    BY <1>2, <1>4
  <2> QED BY <1>3, <1>4, <2>1
<1> QED BY <1>2, <1>5, <1>6, <1>7, <1>8 DEF Lists, n, k, t

\* Every entry is what one of the members has.
LEMMA ListsHas ==
  ASSUME NEW s, NEW a, NEW b, NEW S, NEW e, Lists(s, a, b, S, e), NEW m \in a .. b
  PROVE  \E i \in S : s[m] = e[i]
BY DEF Lists

-----------------------------------------------------------------------------
(* Keys and the fields they claim.                                         *)

\* The fields of a struct type are numbered, the named ones among them.
LEMMA FieldsAre ==
  ASSUME NEW t \in DOMAIN Types, Types[t].kind = "struct"
  PROVE  /\ Len(Fields(t)) \in Nat /\ DOMAIN Fields(t) = 1 .. Len(Fields(t))
         /\ Named(t) \subseteq 1 .. Len(Fields(t)) /\ Named(t) \in SUBSET Nat /\ 0 \notin Named(t)
         /\ \A i \in Named(t) : Fields(t)[i].type \in DOMAIN Types /\ i # Info[t].remain
BY InfoAssumption DEF Fields, Named

\* A key finds a field of its name if there is one; what it finds is a field.
LEMMA Found ==
  ASSUME NEW t \in DOMAIN Types, Types[t].kind = "struct", NEW k, NEW loose
  PROVE  LET i == Lookup(t, k, loose)
         IN  /\ i = 0 \/ i \in Named(t)
             /\ ExactMatch(t, k) => i \in Named(t) /\ Fields(t)[i].name = k
<1> DEFINE exact  == {i \in Named(t) : Fields(t)[i].name = k}
           folded == {i \in Named(t) : Fold[Fields(t)[i].name] = Fold[k]}
           least  == CHOOSE i \in folded : \A j \in folded : i <= j
<1>1. Lookup(t, k, loose) = IF exact # {} THEN CHOOSE i \in exact : TRUE
                            ELSE IF loose /\ folded # {} THEN least ELSE 0
  BY DEF Lookup
<1>2. folded # {} => least \in folded
  BY FieldsAre, FirstIs
<1>3. ExactMatch(t, k) => exact # {}
  BY DEF ExactMatch
<1>4. exact # {} => (CHOOSE i \in exact : TRUE) \in exact
  OBVIOUS
<1> QED BY <1>1, <1>2, <1>3, <1>4

\* What a flat call is: a map into a struct, for its fields and their values.
LEMMA FlatIs ==
  ASSUME NEW n, Into(n) \in DOMAIN Types, Flattish(n)
  PROVE  /\ cfg.hooks = << >> /\ IsValid(Given(n)) /\ Kind(Given(n)) = "map" /\ Mute(Given(n).t)
         /\ Types[Into(n)].kind = "struct" /\ ~Info[Into(n)].err /\ Mute(Into(n))
         /\ Given1(n) \subseteq Named(Into(n)) /\ Misfits(n) \subseteq Given1(n)
         /\ Given1(n) \in SUBSET Nat /\ Misfits(n) \in SUBSET Nat
         /\ \A k \in Keys(n) : Lookup(Into(n), k, cfg.loose) \in Given1(n) \/ k \in Unclaimed(n)
<1>1. /\ cfg.hooks = << >> /\ IsValid(Given(n)) /\ Kind(Given(n)) = "map" /\ Mute(Given(n).t)
      /\ Types[Into(n)].kind = "struct" /\ ~Info[Into(n)].err /\ Mute(Into(n))
  BY DEF Flattish
<1>2. Given1(n) \subseteq Named(Into(n)) /\ Misfits(n) \subseteq Given1(n)
  BY DEF Given1, Misfits
<1>3. Given1(n) \in SUBSET Nat /\ Misfits(n) \in SUBSET Nat
  BY <1>1, <1>2, FieldsAre
<1>4. ASSUME NEW k \in Keys(n)
      PROVE  Lookup(Into(n), k, cfg.loose) \in Given1(n) \/ k \in Unclaimed(n)
  <2>1. k \in Claimants(n, Lookup(Into(n), k, cfg.loose))
    BY DEF Claimants
  <2> QED BY <1>1, <2>1, Found DEF Unclaimed, Given1
<1> QED BY <1>1, <1>2, <1>3, <1>4

\* What a field of a flat call is.
LEMMA FieldIs ==
  ASSUME NEW n, Into(n) \in DOMAIN Types, Flattish(n), NEW i \in Named(Into(n))
  PROVE  LET f == Fields(Into(n))[i]
         IN  /\ f.type \in DOMAIN Types /\ Types[f.type].kind \in {"int", "string"} /\ Mute(f.type)
             /\ f.set /\ (f.alloc \/ i \in DOMAIN Before(n).kids)
             /\ \A k, l \in Claimants(n, i) :
                  k = l \/ ExactMatch(Into(n), k) \/ ExactMatch(Into(n), l)
<1>1. FlatField(n, i) /\ Types[Into(n)].kind = "struct"
  BY DEF Flattish
<1> QED BY <1>1, FieldsAre DEF FlatField

\* A key with the very name of the field is the chosen one, and where there is
\* none there is but one key.
LEMMA ChosenIs ==
  ASSUME NEW n, Into(n) \in DOMAIN Types, Flattish(n), NEW i \in Named(Into(n)),
         NEW k \in Claimants(n, i),
         ExactMatch(Into(n), k) \/ \A l \in Claimants(n, i) : ~ExactMatch(Into(n), l)
  PROVE  ValueFor(n, i) = Unwrap(Given(n).kids[k])
<1> DEFINE name == Fields(Into(n))[i].name
           ks   == Claimants(n, i)
<1>1. Types[Into(n)].kind = "struct" /\ \A l \in ks : l \in Keys(n) /\ Lookup(Into(n), l, cfg.loose) = i
  BY DEF Flattish, Claimants
<1>2. CASE ExactMatch(Into(n), k)
  <2>1. k = name
    BY <1>1, <1>2, Found
  <2>2. Chosen(ks, name) = k
    BY <2>1 DEF Chosen
  <2> QED BY <2>2 DEF ValueFor
<1>3. CASE \A l \in ks : ~ExactMatch(Into(n), l)
  <2>1. name \notin ks
    BY <1>3 DEF ExactMatch
  <2>2. \A l \in ks : l = k
    BY <1>3, FieldIs
  <2>3. Chosen(ks, name) \in ks
    BY <2>1 DEF Chosen
  <2>4. Chosen(ks, name) = k
    BY <2>2, <2>3
  <2> QED BY <2>4 DEF ValueFor
<1> QED BY <1>2, <1>3

\* The value for a field that has one.
LEMMA ValueIs ==
  ASSUME NEW n, Into(n) \in DOMAIN Types, Flattish(n), NEW i \in Given1(n)
  PROVE  IsValid(ValueFor(n, i)) => Kind(ValueFor(n, i)) # "ptr" /\ Mute(ValueFor(n, i).t)
<1>1. Claimants(n, i) # {} /\ Claimants(n, i) \subseteq Keys(n)
  BY DEF Given1, Claimants
<1> DEFINE c == Chosen(Claimants(n, i), Fields(Into(n))[i].name)
<1>2. c \in Claimants(n, i)
  BY <1>1 DEF Chosen
<1>3. FlatValue(Unwrap(Given(n).kids[c]))
  BY <1>1, <1>2 DEF Flattish
<1> QED BY <1>3 DEF FlatValue, ValueFor

-----------------------------------------------------------------------------
(* The fields nothing supplied.                                            *)

\* A set of numbers has a first.
LEMMA Least ==
  ASSUME NEW S, S \subseteq Nat, S # {}
  PROVE  \E j \in S : \A k \in S : j <= k
<1>1. PICK j \in S : \A k \in S : ~ (<<k, j>> \in OpToRel(<, Nat))
  BY NatLessThanWellFounded, WFMin
<1>2. \A k \in S : ~ (k < j)
  BY <1>1 DEF OpToRel
<1>3. \A k \in S : j <= k
  BY <1>2
<1> QED BY <1>3

\* What UnsetFields counts up to field j, from what it counted before.
Passed(f, j) == j \in Supplied(f) \/ j = Info[f.dt].remain
UnsetBody(u, f, j) ==
  IF j = 0 THEN << >>
  ELSE IF Passed(f, j) THEN u[j - 1]
  ELSE Append(u[j - 1], Fields(f.dt)[j].name)
Unsets(u, f, n) == [j \in 0 .. n |-> UnsetBody(u, f, j)]

\* There is such a count.
LEMMA UnsetExists ==
  ASSUME NEW f, NEW n \in Nat
  PROVE  \E u : u = Unsets(u, f, n)
<1> DEFINE S == {m \in 0 .. n : ~ \E u : u = Unsets(u, f, m)}
<1> SUFFICES ASSUME S # {} PROVE FALSE
  BY DEF S
<1>1. PICK m \in S : \A k \in S : m <= k
  <2>1. S \subseteq Nat
    OBVIOUS
  <2> HIDE DEF S
  <2> QED BY <2>1, Least
<1>2. m \in Nat /\ m <= n /\ ~ \E u : u = Unsets(u, f, m)
  BY <1>1
<1>3. m # 0
  <2> SUFFICES ASSUME m = 0 PROVE FALSE
    OBVIOUS
  <2> DEFINE z == [j \in 0 .. 0 |-> << >>]
  <2>1. \A j \in 0 .. 0 : UnsetBody(z, f, j) = << >>
    BY DEF UnsetBody
  <2>2. z = Unsets(z, f, 0)
    <3> HIDE DEF z
    <3>1. z = [j \in 0 .. 0 |-> << >>]
      BY DEF z
    <3> QED BY <2>1, <3>1 DEF Unsets
  <2> QED BY <1>2, <2>2
<1>4. PICK y : y = Unsets(y, f, m - 1)
  <2>1. m - 1 \in 0 .. n /\ ~ (m <= m - 1)
    BY <1>2, <1>3
  <2>2. m - 1 \notin S
    BY <1>1, <2>1
  <2> QED BY <2>1, <2>2
<1> HIDE DEF S
<1> DEFINE z == [j \in 0 .. m |-> IF j = m THEN UnsetBody(y, f, m) ELSE y[j]]
<1>5. \A j \in 0 .. m - 1 : z[j] = y[j] /\ y[j] = UnsetBody(y, f, j)
  <2> SUFFICES ASSUME NEW j \in 0 .. m - 1 PROVE z[j] = y[j] /\ y[j] = UnsetBody(y, f, j)
    OBVIOUS
  <2>1. j \in 0 .. m /\ j # m
    BY <1>2
  <2>2. z[j] = y[j]
    BY <2>1
  <2>3. y[j] = UnsetBody(y, f, j)
    BY <1>4 DEF Unsets
  <2> QED BY <2>2, <2>3
<1>6. z[m] = UnsetBody(y, f, m) /\ DOMAIN z = 0 .. m /\ IsFun(z)
  BY <1>2 DEF IsFun
<1> HIDE DEF z
<1>7. \A j \in 0 .. m : z[j] = UnsetBody(z, f, j)
  <2> SUFFICES ASSUME NEW j \in 0 .. m PROVE z[j] = UnsetBody(z, f, j)
    OBVIOUS
  <2>1. j # 0 => j - 1 \in 0 .. m - 1
    BY <1>2
  <2>2. j # 0 => z[j - 1] = y[j - 1]
    BY <1>5, <2>1
  <2>3. UnsetBody(z, f, j) = UnsetBody(y, f, j)
    BY <2>2 DEF UnsetBody
  <2>4. j = m \/ j \in 0 .. m - 1
    BY <1>2
  <2> QED BY <1>5, <1>6, <2>3, <2>4
<1>8. z = Unsets(z, f, m)
  BY <1>6, <1>7 DEF IsFun, Unsets
<1> QED BY <1>2, <1>8

\* UnsetFields lists the named fields nothing supplied, in order.
NamesOf(f)  == [i \in DOMAIN Fields(f.dt) |-> Fields(f.dt)[i].name]
Lacking(f, j) == {i \in 1 .. j : ~Passed(f, i)}

\* UnsetFields names the fields the frame has no value for, each once, in
\* declaration order.
LEMMA UnsetListed ==
  ASSUME NEW f, f.dt \in DOMAIN Types, Types[f.dt].kind = "struct"
  PROVE  /\ IsSeq(UnsetFields(f))
         /\ Lists(UnsetFields(f), 1, Len(UnsetFields(f)), Named(f.dt) \ Supplied(f), NamesOf(f))
<1> DEFINE n == Len(Fields(f.dt))
           U == CHOOSE u : u = Unsets(u, f, n)
<1>1. n \in Nat /\ DOMAIN Fields(f.dt) = 1 .. n
  BY FieldsAre
<1>2. UnsetFields(f) = U[n]
  BY DEF UnsetFields, Unsets, UnsetBody, Passed
<1>3. U = Unsets(U, f, n)
  <2> HIDE DEF n
  <2> QED BY <1>1, UnsetExists
<1> HIDE DEF U, n
<1>4. \A j \in 0 .. n : U[j] = UnsetBody(U, f, j)
  BY <1>3 DEF Unsets
<1> DEFINE Good(j) == IsSeq(U[j]) /\ Lists(U[j], 1, Len(U[j]), Lacking(f, j), NamesOf(f))
           S == {j \in 0 .. n : ~Good(j)}
<1>5. S = {}
  <2> SUFFICES ASSUME S # {} PROVE FALSE
    OBVIOUS
  <2>1. PICK m \in S : \A k \in S : m <= k
    <3>1. S \subseteq Nat
      BY <1>1
    <3> HIDE DEF S
    <3> QED BY <3>1, Least
  <2>2. m \in Nat /\ m \in 0 .. n /\ ~Good(m)
    BY <1>1, <2>1
  <2>3. m # 0
    <3> SUFFICES ASSUME m = 0 PROVE FALSE
      OBVIOUS
    <3>1. U[0] = << >>
      BY <1>4, <2>2 DEF UnsetBody
    <3>2. Lacking(f, 0) = {}
      BY DEF Lacking
    <3>3. Lists(<< >>, 1, 0, {}, NamesOf(f))
      BY ListsNone
    <3>4. IsSeq(<< >>) /\ Len(<< >>) = 0
      BY NoKeys
    <3> QED BY <2>2, <3>1, <3>2, <3>3, <3>4
  <2>4. m - 1 \in 0 .. n /\ ~ (m <= m - 1) /\ m - 1 \in Nat
    BY <1>1, <2>2, <2>3
  <2>5. m - 1 \notin S
    BY <2>1, <2>4
  <2>6. Good(m - 1)
    BY <2>4, <2>5
  <2>7. U[m] = UnsetBody(U, f, m)
    BY <1>4, <2>2
  <2>8. CASE Passed(f, m)
    <3>1. U[m] = U[m - 1]
      BY <2>3, <2>7, <2>8 DEF UnsetBody
    <3>2. Lacking(f, m) = Lacking(f, m - 1)
      <4>1. \A i : i \in 1 .. m <=> i \in 1 .. m - 1 \/ i = m
        BY <2>2, <2>3
      <4> QED BY <2>8, <4>1 DEF Lacking
    <3> QED BY <2>2, <2>6, <3>1, <3>2
  <2>9. CASE ~Passed(f, m)
    <3>1. U[m] = Append(U[m - 1], NamesOf(f)[m])
      <4>1. m \in DOMAIN Fields(f.dt)
        BY <1>1, <2>2, <2>3
      <4>2. NamesOf(f)[m] = Fields(f.dt)[m].name
        BY <4>1 DEF NamesOf
      <4> QED BY <2>3, <2>7, <2>9, <4>2 DEF UnsetBody
    <3>2. Lacking(f, m) = Lacking(f, m - 1) \union {m}
      <4>1. \A i : i \in 1 .. m <=> i \in 1 .. m - 1 \/ i = m
        BY <2>2, <2>3
      <4> QED BY <2>9, <4>1 DEF Lacking
    <3>3. Lacking(f, m - 1) \in SUBSET Nat /\ \A i \in Lacking(f, m - 1) : i < m
      BY <2>2, <2>4 DEF Lacking
    <3>4. IsSeq(U[m])
      BY <2>6, <3>1, AppendTyped
    <3>5. Lists(U[m], 1, Len(U[m]), Lacking(f, m), NamesOf(f))
      <4> DEFINE s == U[m - 1]
                 L == Lacking(f, m - 1)
                 e == NamesOf(f)
      <4>1. IsSeq(s) /\ Lists(s, 1, Len(s), L, e)
        BY <2>6
      <4> HIDE DEF s, L, e
      <4>2. Lists(Append(s, e[m]), 1, Len(Append(s, e[m])), L \union {m}, e)
        BY <2>2, <3>3, <4>1, ListsGrow DEF L
      <4> QED BY <3>1, <3>2, <4>2 DEF s, L, e
    <3> QED BY <2>2, <3>4, <3>5
  <2> QED BY <2>8, <2>9
<1>6. Good(n)
  <2>1. n \in 0 .. n
    BY <1>1
  <2> QED BY <1>5, <2>1
<1>7. Lacking(f, n) = Named(f.dt) \ Supplied(f)
  BY <1>1 DEF Lacking, Passed, Named
<1> QED BY <1>2, <1>6, <1>7

-----------------------------------------------------------------------------
(* What a flat call knows of itself while it is under way.                 *)

\* The fields before field i that were given a value, and the misfits among them.
Done(n, i)   == {j \in Given1(n) : j < i}
Failed(n, i) == {j \in Misfits(n) : j < i}

\* A destination in which the fields D have what they are to have, and every
\* other one has what it had.
Filled(n, v, D) ==
  /\ DOMAIN Before(n).kids \subseteq DOMAIN v.kids /\ D \subseteq DOMAIN v.kids
  /\ \A j \in Named(Into(n)) \intersect DOMAIN v.kids :
       v.kids[j] = IF j \in D THEN After(n, j) ELSE Old(n, j)

\* The failures are those of the fields S, the recorded keys are the fields S,
\* and nothing else has been recorded.
ErrorsTo(n, es, S) == Lists(es, 1, Len(es), S, CastErrors(n))
KeysTo(n, mt, S) ==
  cfg.meta => /\ Lists(mt.keys, 1, Len(mt.keys), S, FieldPaths(n))
              /\ mt.unused = << >> /\ mt.unset = << >>

\* All fields are done; what came later came from the remain field.
Elsewhere(n, e) == Info[Into(n)].remain # 0 /\ (e.err = "remain" \/ InRemain(n, e.path))
ErrorsOf(n, es) ==
  \E k \in 0 .. Len(es) :
    /\ Lists(es, 1, k, Misfits(n), CastErrors(n))
    /\ \A m \in k + 1 .. Len(es) : Elsewhere(n, es[m])
MetaOf(n, mt) ==
  cfg.meta => /\ \E k \in 0 .. Len(mt.keys) :
                   /\ Lists(mt.keys, 1, k, Given1(n), FieldPaths(n))
                   /\ \A m \in k + 1 .. Len(mt.keys) : InRemain(n, mt.keys[m])
              /\ \A m \in DOMAIN mt.unused : InRemain(n, mt.unused[m])
              /\ \A m \in DOMAIN mt.unset : InRemain(n, mt.unset[m])

\* The match loop: the keys seen have found their fields, an exact name before
\* any other, or are left.
Seen(n, f, i) == Claimants(n, i) \ f.todo
Matched(n, f) ==
  /\ f.todo \subseteq Keys(n)
  /\ DOMAIN f.got = {i \in Named(Into(n)) : Seen(n, f, i) # {}}
  /\ \A i \in DOMAIN f.got : \E k \in Seen(n, f, i) :
       /\ f.got[i] = Given(n).kids[k]
       /\ ExactMatch(Into(n), k) \/ \A l \in Seen(n, f, i) : ~ExactMatch(Into(n), l)
  /\ {f.left[m] : m \in DOMAIN f.left} = Unclaimed(n) \ f.todo

\* When it is over.
Sorted(n, f) ==
  /\ f.dt = Into(n) /\ DOMAIN f.got = Given1(n)
  /\ \A i \in Given1(n) : Unwrap(f.got[i]) = ValueFor(n, i)
  /\ {f.left[m] : m \in DOMAIN f.left} = Unclaimed(n)

\* The frame that has seen to all fields.
Wrapping(n, f, es, mt) ==
  /\ f.dt = Into(n) /\ DOMAIN f.got = Given1(n) /\ ~CutShort(n)
  /\ \/ {f.left[m] : m \in DOMAIN f.left} = Unclaimed(n)
     \/ f.left = << >> /\ Info[Into(n)].remain # 0
  /\ Filled(n, f.cur, Given1(n)) /\ ErrorsOf(n, es) /\ MetaOf(n, mt)

\* The frame that waits for field i.
Awaits(n, f, i) ==
  /\ f.op = "fieldDone" /\ f.field = i /\ f.i = i + 1 /\ f.back = "assignFields"
  /\ i \in Given1(n) \intersect Reached(n)
  /\ Sorted(n, f) /\ Filled(n, f.cur, Done(n, i))

FieldName(n, i) == Seg(Fields(Into(n))[i].name)

Opening(n, z) ==
  /\ Len(z.stack) = 2 /\ z.errs = << >> /\ z.meta = NoMeta
  /\ LET f == z.stack[2]
     IN  /\ f.op \in (Stages \ {"toScalar"}) \union {"toStruct", "structFromMap"}
         /\ f.src = Given(n) /\ f.cur = Before(n) /\ f.dt = Into(n)

Matching(n, z) ==
  /\ Len(z.stack) = 2 /\ z.errs = << >> /\ z.meta = NoMeta
  /\ LET f == z.stack[2]
     IN  /\ f.op = "matchKeys" /\ f.i = 1
         /\ f.src = Given(n) /\ f.cur = Before(n) /\ f.dt = Into(n) /\ Matched(n, f)

Assigning(n, z) ==
  /\ Len(z.stack) = 2 /\ ~z.stopped
  /\ LET f == z.stack[2]
     IN  /\ f.op = "assignFields" /\ f.i \in Nat /\ Sorted(n, f)
         /\ Filled(n, f.cur, Done(n, f.i))
         /\ ErrorsTo(n, z.errs, Failed(n, f.i)) /\ KeysTo(n, z.meta, Done(n, f.i))

Casting(n, z) ==
  /\ Len(z.stack) = 3 /\ ~z.stopped
  /\ \E i \in Given1(n) :
       /\ Awaits(n, z.stack[2], i)
       /\ z.path = <<FieldName(n, i)>>
       /\ z.weak = (cfg.weakTypes \/ "string" \in Fields(Into(n))[i].opts)
       /\ ErrorsTo(n, z.errs, Failed(n, i)) /\ KeysTo(n, z.meta, Done(n, i))
       /\ LET c == z.stack[3]
          IN  /\ c.op \in Stages /\ c.dt = Fields(Into(n))[i].type /\ c.cur = Old(n, i)
              /\ c.op = "convert" => Unwrap(c.src) = ValueFor(n, i)
              /\ c.op # "convert" => c.src = ValueFor(n, i) /\ IsValid(c.src)

FieldBack(n, z) ==
  /\ Len(z.stack) = 2
  /\ \E i \in Given1(n) :
       /\ Awaits(n, z.stack[2], i)
       /\ z.path = <<FieldName(n, i)>> /\ z.ret = After(n, i)
       /\ ErrorsTo(n, z.errs, Failed(n, i + 1)) /\ KeysTo(n, z.meta, Done(n, i))

Finishing(n, z) ==
  /\ Len(z.stack) = 2 /\ z.stack[2].op = "finishStruct"
  /\ Wrapping(n, z.stack[2], z.errs, z.meta)

Remaining(n, z) ==
  /\ Len(z.stack) >= 2 /\ z.stack[2].op = "remainDone"
  /\ Info[Into(n)].remain # 0 /\ z.stack[2].left = << >>
  /\ Wrapping(n, z.stack[2], z.errs, z.meta)
  /\ z.path # << >> /\ z.path[1] = FieldName(n, Info[Into(n)].remain)
  /\ \A m \in 3 .. Len(z.stack) : z.stack[m].at >= 1

\* What a flat call leaves behind.
Kept(n, dst, es, mt) ==
  /\ FieldsFilled(n, dst) /\ MisfitsReported(n, es) /\ UnusedReported(n, es)
  /\ cfg.meta => AccountedFor(n, mt)
Over(n, z) == Len(z.stack) = 1 /\ Kept(n, z.ret, z.errs, z.meta)

OnItsWay(n, z) ==
  \/ Opening(n, z) \/ Matching(n, z) \/ Assigning(n, z) \/ Casting(n, z) \/ FieldBack(n, z)
  \/ Finishing(n, z) \/ Remaining(n, z) \/ Over(n, z)

Now == [stack |-> stack, ret |-> ret, errs |-> errs, stopped |-> stopped, path |-> path,
        weak |-> weak, meta |-> meta]

\* The calls that are over have kept it, and the one being made is on its way.
FlatCallsOK ==
  \A n, dst, es, mt :
    /\ n \in 1 .. Len(results) /\ Flattish(n)
    /\ dst = results[n].dst /\ es = results[n].errs /\ mt = results[n].meta
    => Kept(n, dst, es, mt)

FlatRunningOK ==
  \A n : ~Idle /\ n = Current /\ Flattish(n) => \E z : z = Now /\ OnItsWay(n, z)

MetaOK ==
  /\ DOMAIN meta = {"keys", "unused", "unset"}
  /\ IsSeq(meta.keys) /\ IsSeq(meta.unused) /\ IsSeq(meta.unset)

Base == Inv /\ ErrInv /\ TypedInv /\ SessionOK /\ SessionWithin /\ MetaOK
FlatInv == PipelineInv /\ Base /\ FlatCallsOK /\ FlatRunningOK

-----------------------------------------------------------------------------
\* What is given to a call stays, and so does what is said of it.
LEMMA FlatDataSame ==
  ASSUME scen' = scen, NEW n,
         Given(n)' = Given(n), Before(n)' = Before(n), Into(n)' = Into(n)
  PROVE  /\ Flattish(n)' <=> Flattish(n)
         /\ Given1(n)' = Given1(n) /\ Misfits(n)' = Misfits(n) /\ Reached(n)' = Reached(n)
         /\ CutShort(n)' <=> CutShort(n)
         /\ Unclaimed(n)' = Unclaimed(n)
         /\ \A i : ValueFor(n, i)' = ValueFor(n, i) /\ Old(n, i)' = Old(n, i) /\ After(n, i)' = After(n, i)
         /\ Keys(n)' = Keys(n) /\ \A i : Claimants(n, i)' = Claimants(n, i)
         /\ FieldPaths(n)' = FieldPaths(n) /\ CastErrors(n)' = CastErrors(n)
         /\ \A p : InRemain(n, p)' <=> InRemain(n, p)
         /\ cfg' = cfg
<1>1. cfg' = cfg /\ Limit' = Limit
  BY DEF cfg, Limit
<1>2. Keys(n)' = Keys(n) /\ \A i : Claimants(n, i)' = Claimants(n, i)
  BY <1>1 DEF Keys, Claimants
<1>3. Unclaimed(n)' = Unclaimed(n) /\ Given1(n)' = Given1(n)
  BY <1>2 DEF Unclaimed, Given1
<1>4. \A i : FlatField(n, i)' <=> FlatField(n, i)
  BY <1>2 DEF FlatField
<1>5. Flattish(n)' <=> Flattish(n)
  BY <1>1, <1>2, <1>4 DEF Flattish
<1>6. \A i : ValueFor(n, i)' = ValueFor(n, i)
  BY <1>2 DEF ValueFor
<1>7. \A i : CastFor(n, i)' = CastFor(n, i)
  BY <1>1, <1>6 DEF CastFor
<1>8. Misfits(n)' = Misfits(n)
  BY <1>3, <1>6, <1>7 DEF Misfits
<1>9. Reached(n)' = Reached(n) /\ (CutShort(n)' <=> CutShort(n))
  BY <1>1, <1>8 DEF Reached, CutShort
<1>10. \A i : Old(n, i)' = Old(n, i)
  BY DEF Old
<1>11. \A i : After(n, i)' = After(n, i)
  BY <1>1, <1>3, <1>6, <1>7, <1>8, <1>9, <1>10 DEF After
<1>12. FieldPaths(n)' = FieldPaths(n) /\ CastErrors(n)' = CastErrors(n)
  BY DEF FieldPaths, CastErrors
<1>13. \A p : InRemain(n, p)' <=> InRemain(n, p)
  BY DEF InRemain
<1> QED BY <1>1, <1>2, <1>3, <1>5, <1>6, <1>8, <1>9, <1>10, <1>11, <1>12, <1>13

\* What a call owes depends on what it was given and on nothing that happens
\* while it runs.
LEMMA KeptSame ==
  ASSUME scen' = scen, NEW n,
         Given(n)' = Given(n), Before(n)' = Before(n), Into(n)' = Into(n)
  PROVE  \A dst, es, mt : Kept(n, dst, es, mt)' <=> Kept(n, dst, es, mt)
<1>1. /\ Given1(n)' = Given1(n) /\ Misfits(n)' = Misfits(n) /\ Reached(n)' = Reached(n)
      /\ CutShort(n)' <=> CutShort(n)
      /\ Unclaimed(n)' = Unclaimed(n)
      /\ \A i : After(n, i)' = After(n, i)
      /\ FieldPaths(n)' = FieldPaths(n) /\ CastErrors(n)' = CastErrors(n)
      /\ \A p : InRemain(n, p)' <=> InRemain(n, p)
      /\ cfg' = cfg
  BY FlatDataSame
<1>2. \A dst : FieldsFilled(n, dst)' <=> FieldsFilled(n, dst)
  BY <1>1 DEF FieldsFilled
<1>3. \A s, a, b, S, e : Lists(s, a, b, S, e)' <=> Lists(s, a, b, S, e)
  BY DEF Lists
<1>4. \A es : MisfitsReported(n, es)' <=> MisfitsReported(n, es)
  BY <1>1, <1>3 DEF MisfitsReported
<1>5. \A es : UnusedReported(n, es)' <=> UnusedReported(n, es)
  BY <1>1 DEF UnusedReported
<1>6. \A mt : AccountedFor(n, mt)' <=> AccountedFor(n, mt)
  BY <1>1, <1>3 DEF AccountedFor
<1> QED BY <1>1, <1>2, <1>4, <1>5, <1>6 DEF Kept

\* Nor do the phases of a call depend on anything but the state they look at.
LEMMA OnItsWaySame ==
  ASSUME scen' = scen, NEW n,
         Given(n)' = Given(n), Before(n)' = Before(n), Into(n)' = Into(n)
  PROVE  \A z : OnItsWay(n, z)' <=> OnItsWay(n, z)
<1>1. /\ Given1(n)' = Given1(n) /\ Misfits(n)' = Misfits(n) /\ Reached(n)' = Reached(n)
      /\ CutShort(n)' <=> CutShort(n)
      /\ Unclaimed(n)' = Unclaimed(n)
      /\ \A i : ValueFor(n, i)' = ValueFor(n, i) /\ Old(n, i)' = Old(n, i) /\ After(n, i)' = After(n, i)
      /\ Keys(n)' = Keys(n) /\ \A i : Claimants(n, i)' = Claimants(n, i)
      /\ FieldPaths(n)' = FieldPaths(n) /\ CastErrors(n)' = CastErrors(n)
      /\ \A p : InRemain(n, p)' <=> InRemain(n, p)
      /\ cfg' = cfg
  BY FlatDataSame
<1>2. \A i : Done(n, i)' = Done(n, i) /\ Failed(n, i)' = Failed(n, i)
  BY <1>1 DEF Done, Failed
<1>3. \A v, D : Filled(n, v, D)' <=> Filled(n, v, D)
  BY <1>1 DEF Filled
<1>4. \A s, a, b, S, e : Lists(s, a, b, S, e)' <=> Lists(s, a, b, S, e)
  BY DEF Lists
<1>5. \A es, S : ErrorsTo(n, es, S)' <=> ErrorsTo(n, es, S)
  BY <1>1, <1>4 DEF ErrorsTo
<1>6. \A mt, S : KeysTo(n, mt, S)' <=> KeysTo(n, mt, S)
  BY <1>1, <1>4 DEF KeysTo
<1>7. \A e : Elsewhere(n, e)' <=> Elsewhere(n, e)
  BY <1>1 DEF Elsewhere
<1>8. \A es : ErrorsOf(n, es)' <=> ErrorsOf(n, es)
  BY <1>1, <1>4, <1>7 DEF ErrorsOf
<1>9. \A mt : MetaOf(n, mt)' <=> MetaOf(n, mt)
  BY <1>1, <1>4 DEF MetaOf
<1>10. \A f : Matched(n, f)' <=> Matched(n, f)
  BY <1>1 DEF Matched, Seen
<1>11. \A f : Sorted(n, f)' <=> Sorted(n, f)
  BY <1>1 DEF Sorted
<1>12. \A f, es, mt : Wrapping(n, f, es, mt)' <=> Wrapping(n, f, es, mt)
  BY <1>1, <1>3, <1>8, <1>9 DEF Wrapping
<1>13. \A f, i : Awaits(n, f, i)' <=> Awaits(n, f, i)
  BY <1>1, <1>2, <1>3, <1>11 DEF Awaits
<1>14. \A i : FieldName(n, i)' = FieldName(n, i)
  BY DEF FieldName
<1>15. \A z : Opening(n, z)' <=> Opening(n, z)
  BY DEF Opening
<1>16. \A z : Matching(n, z)' <=> Matching(n, z)
  BY <1>10 DEF Matching
<1>17. \A z : Assigning(n, z)' <=> Assigning(n, z)
  BY <1>2, <1>3, <1>5, <1>6, <1>11 DEF Assigning
<1>18. \A z : Casting(n, z)' <=> Casting(n, z)
  BY <1>1, <1>2, <1>5, <1>6, <1>13, <1>14 DEF Casting
<1>19. \A z : FieldBack(n, z)' <=> FieldBack(n, z)
  BY <1>1, <1>2, <1>5, <1>6, <1>13, <1>14 DEF FieldBack
<1>20. \A z : Finishing(n, z)' <=> Finishing(n, z)
  BY <1>12 DEF Finishing
<1>21. \A z : Remaining(n, z)' <=> Remaining(n, z)
  BY <1>12, <1>14 DEF Remaining
<1>22. \A z : Over(n, z)' <=> Over(n, z)
  BY KeptSame DEF Over
<1> QED BY <1>15, <1>16, <1>17, <1>18, <1>19, <1>20, <1>21, <1>22 DEF OnItsWay

-----------------------------------------------------------------------------
(* What a step of the engine does, whichever it is.                        *)

\* The steps a function of the map -> struct path may take.
LEMMA ConvertSteps ==
  ASSUME ConvertNext
  PROVE  /\ Top.op \in Stages
         /\ Top.op = "convert"  => ConvertEnter
         /\ Top.op = "hooks"    => ApplyHooks
         /\ Top.op = "decode"   => ApplyValueDecoder
         /\ Top.op = "encode"   => ApplyValueEncoder
         /\ Top.op = "text"     => UnmarshalText
         /\ Top.op = "dispatch" => FollowPointer \/ Dispatch
         /\ Top.op = "toScalar" => ToScalar
<1>1. /\ ConvertEnter => Top.op = "convert"
      /\ ApplyHooks => Top.op = "hooks"
      /\ ApplyValueDecoder => Top.op = "decode"
      /\ ApplyValueEncoder => Top.op = "encode"
      /\ UnmarshalText => Top.op = "text"
      /\ FollowPointer => Top.op = "dispatch"
      /\ Dispatch => Top.op = "dispatch"
      /\ ToScalar => Top.op = "toScalar"
  BY DEF At, ConvertEnter, ApplyHooks, ApplyValueDecoder, ApplyValueEncoder, UnmarshalText, FollowPointer,
         Dispatch, ToScalar
<1>2. \/ ConvertEnter \/ ApplyHooks \/ ApplyValueDecoder \/ ApplyValueEncoder
      \/ UnmarshalText \/ FollowPointer \/ Dispatch \/ ToScalar
  BY DEF ConvertNext
<1> HIDE DEF ConvertEnter, ApplyHooks, ApplyValueDecoder, ApplyValueEncoder, UnmarshalText, FollowPointer,
         Dispatch, ToScalar
<1> QED BY <1>1, <1>2 DEF Stages

FlatOps == {"toStruct", "structFromMap", "matchKeys", "assignFields", "finishStruct", "fieldDone", "remainDone"}

\* No step of container.go is taken in a frame of struct.go.
LEMMA ContainerSteps == ContainersNext => Top.op \notin FlatOps
BY DEF FlatOps, At, ContainersNext, ToInterface, GenericReturn, GenericFollow, GenericToMap,
       GenericMapDone, GenericToSlice, GenericElem, GenericElemDone, GenericElemsDone,
       PointerDone, ToPointer, ToSlice, ToArray, SliceElem, SliceElemDone, SliceElemsEmpty, ToMap,
       MergeMap, MergeMapDone, MergeMapsDone, MapFromMap, MapEntry, MapKeyDone, MapElemDone,
       MapEntriesDone

\* The operation at the top of the stack says which step of struct.go is next.
LEMMA StructSteps ==
  ASSUME StructsNext
  PROVE  /\ Top.op = "toStruct"      => ToStruct
         /\ Top.op = "structFromMap" => StructFromMap
         /\ Top.op = "matchKeys"     => MatchKey \/ MatchKeysDone
         /\ Top.op = "assignFields"  => AssignNextField \/ AssignFieldsDone
         /\ Top.op = "fieldDone"     => FieldDone
         /\ Top.op = "finishStruct"  => FinishStruct \/ FillRemain
         /\ Top.op = "remainDone"    => RemainDone
<1>1. /\ ToStruct => Top.op = "toStruct"
      /\ StructFromMap => Top.op = "structFromMap"
      /\ MatchKey => Top.op = "matchKeys"
      /\ MatchKeysDone => Top.op = "matchKeys"
      /\ AssignNextField => Top.op = "assignFields"
      /\ AssignFieldsDone => Top.op = "assignFields"
      /\ FieldDone => Top.op = "fieldDone"
      /\ FinishStruct => Top.op = "finishStruct"
      /\ FillRemain => Top.op = "finishStruct"
      /\ RemainDone => Top.op = "remainDone"
  BY DEF At, ToStruct, StructFromMap, MatchKey, MatchKeysDone, AssignNextField, AssignFieldsDone, FieldDone,
         FinishStruct, FillRemain, RemainDone
<1>2. /\ SkipInWalk \/ MapFromStruct \/ WalkToMap \/ EntryKeyDone \/ WriteEntry
           \/ RefuseEntry \/ EntryDone \/ WalkToMapOver => Top.op \notin FlatOps
      /\ StructFromStruct \/ WalkToStruct \/ WalkToStructOver \/ FinishPairs => Top.op \notin FlatOps
  BY DEF FlatOps, At, SkipInWalk, MapFromStruct, WalkToMap, EntryKeyDone, WriteEntry,
         RefuseEntry, EntryDone, WalkToMapOver, StructFromStruct, WalkToStruct, WalkToStructOver, FinishPairs
<1>3. \/ SkipInWalk \/ MapFromStruct \/ WalkToMap \/ EntryKeyDone \/ WriteEntry
      \/ RefuseEntry \/ EntryDone \/ WalkToMapOver
      \/ StructFromStruct \/ WalkToStruct \/ WalkToStructOver \/ FinishPairs
      \/ ToStruct \/ StructFromMap \/ MatchKey \/ MatchKeysDone \/ AssignNextField
      \/ AssignFieldsDone \/ FieldDone \/ FinishStruct \/ FillRemain \/ RemainDone
  BY DEF StructsNext
<1> QED BY <1>1, <1>2, <1>3 DEF FlatOps

\* The path gains a segment, loses one, or stays.
PathStep == path' = path \/ (\E s : Push(s)) \/ Pop

\* A step of the pipeline moves the path by one segment at most.
LEMMA PathSteps == ConvertNext \/ ContainersNext \/ StructsNext => PathStep
<1> USE DEF PathStep, Private, Quiet
<1>1. ConvertNext => PathStep
  BY DEF ConvertNext, ConvertEnter, ApplyHooks, ApplyValueDecoder, ApplyValueEncoder, UnmarshalText,
         FollowPointer, Dispatch, ToScalar
<1>2. ContainersNext => PathStep
  BY DEF ContainersNext, ToInterface, GenericReturn, GenericFollow, GenericToMap,
         GenericMapDone, GenericToSlice, GenericElem, GenericElemDone, GenericElemsDone,
         PointerDone, ToPointer, ToSlice, ToArray, SliceElem, SliceElemDone, SliceElemsEmpty, ToMap,
         MergeMap, MergeMapDone, MergeMapsDone, MapFromMap, MapEntry, MapKeyDone, MapElemDone,
         MapEntriesDone
<1>3. \/ ToStruct \/ SkipInWalk \/ MapFromStruct \/ WalkToMap \/ EntryKeyDone \/ WriteEntry
      \/ RefuseEntry \/ EntryDone \/ WalkToMapOver
      => PathStep
  BY DEF ToStruct, SkipInWalk, MapFromStruct, WalkToMap, EntryKeyDone, WriteEntry,
         RefuseEntry, EntryDone, WalkToMapOver
<1>4. \/ FieldDone \/ StructFromMap \/ MatchKey \/ MatchKeysDone \/ AssignFieldsDone
      \/ FinishStruct \/ RemainDone \/ StructFromStruct \/ WalkToStructOver
      => PathStep
  BY DEF FieldDone, StructFromMap, MatchKey, MatchKeysDone, AssignFieldsDone, FinishStruct, RemainDone,
         StructFromStruct, WalkToStructOver
<1>5. ASSUME NEW f, NEW i, NEW v, NEW back, AssignField(f, i, v, back)
      PROVE  PathStep
  BY <1>5 DEF AssignField
<1>6. AssignNextField \/ WalkToStruct => PathStep
  BY <1>5 DEF AssignNextField, WalkToStruct
<1>7. ASSUME NEW f, NEW m, NEW follow, RemainInto(f, m, follow)
      PROVE  PathStep
  BY <1>7 DEF RemainInto
<1>8. FillRemain \/ FinishPairs => PathStep
  BY <1>7 DEF FillRemain, FinishPairs
<1> HIDE DEF PathStep
<1> QED BY <1>1, <1>2, <1>3, <1>4, <1>6, <1>8 DEF StructsNext

\* The metadata gains the path as a key, or what one struct left, or stays.
MetaStep ==
  \/ meta' = meta
  \/ RecordKey(path)
  \/ \E a, b : IsSeq(a) /\ IsSeq(b) /\ RecordLeft(a, b)

\* A step of the pipeline records one key, one list of leftovers, or nothing.
LEMMA MetaSteps ==
  ASSUME Inv, TypedInv, ConvertNext \/ ContainersNext \/ StructsNext
  PROVE  MetaStep
<1> USE DEF MetaStep, Private, Quiet
<1>1. ConvertNext => MetaStep
  BY DEF ConvertNext, ConvertEnter, ApplyHooks, ApplyValueDecoder, ApplyValueEncoder, UnmarshalText,
         FollowPointer, Dispatch, ToScalar
<1>2. ContainersNext => MetaStep
  BY DEF ContainersNext, ToInterface, GenericReturn, GenericFollow, GenericToMap,
         GenericMapDone, GenericToSlice, GenericElem, GenericElemDone, GenericElemsDone,
         PointerDone, ToPointer, ToSlice, ToArray, SliceElem, SliceElemDone, SliceElemsEmpty, ToMap,
         MergeMap, MergeMapDone, MergeMapsDone, MapFromMap, MapEntry, MapKeyDone, MapElemDone,
         MapEntriesDone
<1>3. \/ ToStruct \/ SkipInWalk \/ MapFromStruct \/ WalkToMap \/ EntryKeyDone \/ WriteEntry
      \/ RefuseEntry \/ EntryDone \/ WalkToMapOver
      => MetaStep
  BY DEF ToStruct, SkipInWalk, MapFromStruct, WalkToMap, EntryKeyDone, WriteEntry,
         RefuseEntry, EntryDone, WalkToMapOver
<1>4. \/ FieldDone \/ StructFromMap \/ MatchKey \/ MatchKeysDone \/ AssignFieldsDone
      \/ RemainDone \/ StructFromStruct \/ WalkToStructOver \/ AssignNextField \/ WalkToStruct
      \/ FillRemain \/ FinishPairs
      => MetaStep
  BY DEF FieldDone, StructFromMap, MatchKey, MatchKeysDone, AssignFieldsDone, RemainDone,
         StructFromStruct, WalkToStructOver, AssignNextField, WalkToStruct, FillRemain, FinishPairs
<1>5. FinishStruct => MetaStep
  <2> SUFFICES ASSUME FinishStruct PROVE MetaStep
    OBVIOUS
  <2>1. Top.op = "finishStruct" /\ ~Idle /\ RecordLeft(Top.left, UnsetFields(Top))
    BY DEF FinishStruct, At
  <2>2. FrameTyped(Top) /\ Top.dt \in DOMAIN Types /\ Types[Top.dt].kind = "struct"
    BY <2>1, StructOpIs DEF StructOps
  <2>3. IsSeq(Top.left)
    BY <2>1, <2>2 DEF FrameTyped, LeftOver
  <2>4. IsSeq(UnsetFields(Top))
    BY <2>2, UnsetListed
  <2> QED BY <2>1, <2>3, <2>4
<1> HIDE DEF MetaStep
<1> QED BY <1>1, <1>2, <1>3, <1>4, <1>5 DEF StructsNext

-----------------------------------------------------------------------------
(* The pipeline, when nobody has a say in it.                              *)

NextFrame(g, op, v) == g.op = op /\ g.src = v /\ g.cur = Top.cur /\ g.dt = Top.dt

\* What the running function converts.
Source0(f) == IF f.op = "convert" THEN Unwrap(f.src) ELSE f.src

MuteStep ==
  /\ UNCHANGED <<path, weak, meta, scen, results>>
  /\ \/ Top.op = "convert" /\ ~IsValid(Source0(Top)) /\ Return(Untouched(Top)) /\ NoErrors
     \/ Top.op = "toScalar" /\ ToScalar
     \/ /\ IsValid(Source0(Top)) /\ NoErrors
        /\ \E op \in {"hooks", "decode", "encode", "text", "dispatch", Handler(Types[Top.dt].kind)} :
             \E g : Become(g) /\ NextFrame(g, op, Source0(Top))

\* Where no hook or codec method can apply, convert goes from stage to stage
\* with its source, refuses it, or hands it to the handler of its kind.
LEMMA MuteSteps ==
  ASSUME Inv, ~Idle, ConvertNext, cfg.hooks = << >>, Mute(Top.dt),
         IsValid(Source0(Top)) => Kind(Source0(Top)) # "ptr" /\ Mute(Source0(Top).t),
         Top.op # "convert" => IsValid(Top.src)
  PROVE  MuteStep
<1> DEFINE v == Source0(Top)
<1>1. Top.op \in Stages
  BY ConvertSteps
<1>2. \A op : NextFrame([Top EXCEPT !.op = op, !.src = v], op, v)
  BY NextStage DEF NextFrame
<1>3. Top.op # "convert" => \A op : NextFrame([Top EXCEPT !.op = op], op, v)
  BY NextStage DEF NextFrame, Source0
<1>4. UNCHANGED <<scen, results>>
  BY Undisturbed
<1>5. CASE Top.op = "convert"
  <2>1. ConvertEnter /\ v = Unwrap(Top.src)
    BY <1>5, ConvertSteps DEF Source0
  <2>2. UNCHANGED <<path, weak, meta>> /\ NoErrors
    BY <2>1 DEF ConvertEnter, Private
  <2>3. CASE ~IsValid(v)
    <3>1. Return(Untouched(Top))
      BY <2>1, <2>3 DEF ConvertEnter
    <3> QED BY <1>4, <1>5, <2>2, <2>3, <3>1 DEF MuteStep
  <2>4. CASE IsValid(v)
    <3>1. Become([Top EXCEPT !.op = "hooks", !.src = v])
      BY <2>1, <2>4 DEF ConvertEnter
    <3> QED BY <1>2, <1>4, <2>2, <2>4, <3>1 DEF MuteStep
  <2> QED BY <2>3, <2>4
<1>6. CASE Top.op = "toScalar"
  <2>1. ToScalar
    BY <1>6, ConvertSteps
  <2>2. UNCHANGED <<path, weak, meta>>
    BY <2>1 DEF ToScalar, Private
  <2> QED BY <1>4, <1>6, <2>1, <2>2 DEF MuteStep
<1>7. ASSUME Top.op # "convert", NEW op \in {"decode", "encode", "text", "dispatch", Handler(Types[Top.dt].kind)},
             \/ Become([Top EXCEPT !.op = op])
             \/ Become([Top EXCEPT !.op = op, !.src = v]),
             NoErrors, UNCHANGED <<path, weak, meta>>
      PROVE  MuteStep
  <2>1. IsValid(v)
    BY <1>7 DEF Source0
  <2>2. \E g : Become(g) /\ NextFrame(g, op, v)
    BY <1>2, <1>3, <1>7
  <2> QED BY <1>4, <1>7, <2>1, <2>2 DEF MuteStep
<1>8. CASE Top.op = "hooks"
  <2>1. ApplyHooks /\ v = Top.src
    BY <1>8, ConvertSteps DEF Source0
  <2>2. {j \in DOMAIN cfg.hooks : Fires(cfg.hooks[j], Top)} = {}
    OBVIOUS
  <2>3. NoErrors /\ Become([Top EXCEPT !.op = "decode", !.src = v]) /\ UNCHANGED <<path, weak, meta>>
    BY <2>1, <2>2 DEF ApplyHooks
  <2> QED BY <1>7, <1>8, <2>3
<1>9. CASE Top.op = "decode"
  <2>1. ApplyValueDecoder /\ "Decoder" \notin Types[Top.dt].has
    BY <1>9, ConvertSteps DEF Mute
  <2>2. NoErrors /\ Become([Top EXCEPT !.op = "encode"]) /\ UNCHANGED <<path, weak, meta>>
    BY <2>1 DEF ApplyValueDecoder
  <2> QED BY <1>7, <1>9, <2>2
<1>10. CASE Top.op = "encode"
  <2>1. ApplyValueEncoder /\ "Encoder" \notin Types[Top.src.t].has /\ v = Top.src
    BY <1>10, ConvertSteps DEF Mute, Source0
  <2>2. NoErrors /\ Become([Top EXCEPT !.op = "text", !.src = v]) /\ UNCHANGED <<path, weak, meta>>
    BY <2>1 DEF ApplyValueEncoder
  <2> QED BY <1>7, <1>10, <2>2
<1>11. CASE Top.op = "text"
  <2>1. UnmarshalText /\ "Text" \notin Types[Top.dt].has
    BY <1>11, ConvertSteps DEF Mute
  <2>2. NoErrors /\ Become([Top EXCEPT !.op = "dispatch"]) /\ UNCHANGED <<path, weak, meta>>
    BY <2>1 DEF UnmarshalText
  <2> QED BY <1>7, <1>11, <2>2
<1>12. CASE Top.op = "dispatch"
  <2>1. Kind(Top.src) # "ptr"
    BY <1>12 DEF Source0
  <2>2. Dispatch
    BY <1>12, <2>1, ConvertSteps DEF FollowPointer, FollowsPointer
  <2>3. NoErrors /\ Become([Top EXCEPT !.op = Handler(Types[Top.dt].kind)]) /\ UNCHANGED <<path, weak, meta>>
    BY <2>2 DEF Dispatch, Private
  <2> QED BY <1>7, <1>12, <2>3
<1> QED BY <1>1, <1>5, <1>6, <1>8, <1>9, <1>10, <1>11, <1>12 DEF Stages

-----------------------------------------------------------------------------
(* From phase to phase.                                                    *)

EngineStep == ConvertNext \/ ContainersNext \/ StructsNext
GoesTo(n)  == \E z : z = Now' /\ OnItsWay(n, z)

\* Call n is under way, at its top function.
Running(n) == Base /\ ~Idle /\ n = Current /\ Into(n) \in DOMAIN Types /\ Flattish(n)

\* The stack with one function above run, and with two.
LEMMA OneAbove ==
  ASSUME Base, ~Idle, Len(stack) = 2
  PROVE  /\ Top = stack[2] /\ DOMAIN Top = FrameFields /\ Top.op # "run" /\ stack[1].op = "run"
         /\ Top.op \notin Pushing => path = << >> /\ weak = cfg.weakTypes
         /\ \A g : Become(g) => Len(stack') = 2 /\ stack'[2] = g
         /\ \A g, c : Call(g, c) => Len(stack') = 3 /\ stack'[2] = g /\ stack'[3] = c
         /\ \A v : Return(v) => Len(stack') = 1
<1>1. Inv /\ StackOK /\ PathOK /\ WeakOK /\ Top = stack[2] /\ FrameOK(stack[2]) /\ FrameOK(stack[1])
  BY DEF Base, Inv, StackOK, Top
<1>2. stack[1].op = "run" /\ stack[2].op # "run" /\ stack[1].at = 0
  BY <1>1 DEF Base, TypedInv, OutcomesTyped, PathOK
<1>3. stack[2].at = 0 /\ Len(path) = Depth(stack[2])
  BY <1>1, <1>2 DEF PathOK, Depth, Pushing
<1>4. Top.op \notin Pushing => path = << >>
  <2>1. Top.op \notin Pushing => Len(path) = 0
    BY <1>1, <1>3 DEF Depth
  <2>2. IsSeq(path)
    BY <1>1 DEF StackOK
  <2> QED BY <2>1, <2>2 DEF IsSeq
<1>5. Top.op \notin Pushing => weak = cfg.weakTypes
  BY <1>1, <1>2 DEF WeakOK, FrameOK, Pushing
<1>6. \A g : Become(g) => Len(stack') = 2 /\ stack'[2] = g
  BY <1>1, BecomeIs
<1>7. \A g, c : Call(g, c) => Len(stack') = 3 /\ stack'[2] = g /\ stack'[3] = c
  BY <1>1, CallIs
<1>8. \A v : Return(v) => Len(stack') = 1
  BY <1>1, ReturnIs
<1> QED BY <1>1, <1>2, <1>4, <1>5, <1>6, <1>7, <1>8 DEF FrameOK

\* The call opens: what is given goes through the pipeline to structFromMap.
LEMMA OpeningGoes ==
  ASSUME NEW n, Running(n), Opening(n, Now), EngineStep
  PROVE  GoesTo(n)
<1>1. /\ Base /\ Inv /\ ~Idle /\ Len(stack) = 2 /\ errs = << >> /\ meta = NoMeta
      /\ Top.op \in (Stages \ {"toScalar"}) \union {"toStruct", "structFromMap"}
      /\ Top.src = Given(n) /\ Top.cur = Before(n) /\ Top.dt = Into(n)
  BY OneAbove DEF Running, Base, Opening, Now
<1>2. /\ cfg.hooks = << >> /\ IsValid(Given(n)) /\ Kind(Given(n)) = "map" /\ Mute(Given(n).t)
      /\ Types[Into(n)].kind = "struct" /\ ~Info[Into(n)].err /\ Mute(Into(n))
  BY FlatIs DEF Running
<1>3. Source0(Top) = Given(n)
  BY <1>1, <1>2 DEF Source0, Unwrap
<1>4. ASSUME NEW g, Become(g), g.op \in (Stages \ {"toScalar"}) \union {"toStruct", "structFromMap"},
             g.src = Given(n), g.cur = Before(n), g.dt = Into(n), NoErrors, meta' = meta
      PROVE  GoesTo(n)
  <2>1. Len(stack') = 2 /\ stack'[2] = g
    BY <1>1, <1>4, OneAbove
  <2>2. Opening(n, Now')
    BY <1>1, <1>4, <2>1 DEF Opening, Now, NoErrors
  <2> QED BY <2>2 DEF GoesTo, OnItsWay
<1>5. CASE Top.op \in Stages
  <2>1. ConvertNext
    BY <1>5, NoStage DEF EngineStep
  <2>2. MuteStep
    BY <1>1, <1>2, <1>3, <2>1, MuteSteps
  <2>3. PICK op \in {"hooks", "decode", "encode", "text", "dispatch", Handler("struct")} :
          \E g : Become(g) /\ NextFrame(g, op, Given(n)) /\ NoErrors /\ meta' = meta
    BY <1>1, <1>2, <1>3, <2>2 DEF MuteStep
  <2>4. op \in (Stages \ {"toScalar"}) \union {"toStruct", "structFromMap"}
    BY DEF Handler, Stages
  <2> QED BY <1>1, <1>4, <2>3, <2>4 DEF NextFrame
<1>6. CASE Top.op \in {"toStruct", "structFromMap"}
  <2>1. StructsNext
    BY <1>6, ConvertSteps, ContainerSteps DEF EngineStep, Stages, FlatOps
  <2>2. CASE Top.op = "toStruct"
    <3>1. ToStruct
      BY <2>1, <2>2, StructSteps
    <3>2. Top.src.t # Top.dt
      BY <1>1, <1>2 DEF Kind
    <3>3. Become([Top EXCEPT !.op = "structFromMap"]) /\ NoErrors /\ meta' = meta
      BY <1>1, <1>2, <3>1, <3>2 DEF ToStruct, Private
    <3> QED BY <1>1, <1>4, <3>3, NextStage
  <2>3. CASE Top.op = "structFromMap"
    <3>1. StructFromMap
      BY <2>1, <2>3, StructSteps
    <3> DEFINE g == [Top EXCEPT !.op = "matchKeys", !.todo = Keys(n)]
    <3>2. Become(g) /\ NoErrors /\ meta' = meta
      BY <1>1, <1>2, <3>1 DEF StructFromMap, Private, Keys
    <3>3. /\ g.op = "matchKeys" /\ g.todo = Keys(n) /\ g.src = Given(n) /\ g.cur = Before(n)
          /\ g.dt = Into(n) /\ g.i = Top.i /\ g.got = Top.got /\ g.left = Top.left
      BY <1>1, OneAbove DEF FrameFields
    <3>4. StartsFresh(Top)
      BY <1>1, <2>3, TopTyped DEF Base, FrameTyped, EntryPoints
    <3> HIDE DEF g
    <3>5. g.i = 1 /\ DOMAIN g.got = {} /\ DOMAIN g.left = {}
      BY <3>3, <3>4, NoKids DEF StartsFresh
    <3>6. Matched(n, g)
      <4>1. \A i : Claimants(n, i) \subseteq Keys(n)
        BY DEF Claimants
      <4>2. \A i : Seen(n, g, i) = {}
        BY <3>3, <4>1 DEF Seen
      <4>3. Unclaimed(n) \subseteq g.todo
        BY <3>3, <4>1 DEF Unclaimed
      <4> QED BY <3>3, <3>5, <4>2, <4>3 DEF Matched
    <3>7. Len(stack') = 2 /\ stack'[2] = g
      BY <1>1, <3>2, OneAbove
    <3>8. Matching(n, Now')
      BY <1>1, <3>2, <3>3, <3>5, <3>6, <3>7 DEF Matching, Now, NoErrors
    <3> QED BY <3>8 DEF GoesTo, OnItsWay
  <2> QED BY <1>6, <2>2, <2>3
<1> QED BY <1>1, <1>5, <1>6

\* A list with one more entry has one more.
EntriesOf(s) == {s[m] : m \in DOMAIN s}

\* Append adds one entry.
LEMMA AppendedEntries ==
  ASSUME NEW s, IsSeq(s), NEW k
  PROVE  EntriesOf(Append(s, k)) = EntriesOf(s) \union {k}
<1>1. PICK W : s \in Seq(W)
  BY DEF IsSeq
<1> DEFINE t == Append(s, k)
           n == Len(s)
<1>2. n \in Nat /\ DOMAIN s = 1 .. n /\ DOMAIN t = 1 .. n + 1 /\ t[n + 1] = k /\ \A m \in 1 .. n : t[m] = s[m]
  <2>1. s \in Seq(W \union {k})
    BY <1>1
  <2>2. Len(t) = n + 1 /\ t \in Seq(W \union {k})
    BY <2>1
  <2> QED BY <2>1, <2>2
<1> HIDE DEF t, n
<1>3. \A m : m \in 1 .. n + 1 <=> m \in 1 .. n \/ m = n + 1
  BY <1>2
<1>4. EntriesOf(t) = EntriesOf(s) \union {k}
  <2>1. \A x : x \in EntriesOf(t) => x \in EntriesOf(s) \/ x = k
    BY <1>2, <1>3 DEF EntriesOf
  <2>2. \A x : x \in EntriesOf(s) => x \in EntriesOf(t)
    BY <1>2, <1>3 DEF EntriesOf
  <2>3. k \in EntriesOf(t)
    BY <1>2, <1>3 DEF EntriesOf
  <2> QED BY <2>1, <2>2, <2>3
<1> QED BY <1>4 DEF t

\* The match loop went from frame f to g by key k: left over, refused, or its field's.
Took(n, f, g, k) ==
  LET i     == Lookup(Into(n), k, cfg.loose)
      keeps == i \in Supplied(f) /\ ~ExactMatch(Into(n), k)
  IN  /\ g.todo = f.todo \ {k}
      /\ g.left = IF i = 0 THEN Append(f.left, k) ELSE f.left
      /\ g.got = IF i = 0 \/ keeps THEN f.got
                 ELSE [j \in DOMAIN f.got \union {i} |-> IF j = i THEN Given(n).kids[k] ELSE f.got[j]]

\* One more key has found its field, or is left.
LEMMA OneMatched ==
  ASSUME NEW n, Into(n) \in DOMAIN Types, Flattish(n), NEW f, Matched(n, f), IsSeq(f.left),
         NEW k \in f.todo, NEW g, Took(n, f, g, k)
  PROVE  Matched(n, g)
<1> DEFINE t == Into(n)
           Exact(l) == ExactMatch(t, l)
           i == Lookup(t, k, cfg.loose)
<1>1. k \in Keys(n) /\ Types[t].kind = "struct" /\ 0 \notin Named(t)
  BY FieldsAre DEF Matched, Flattish
<1>2. i = 0 \/ i \in Named(t)
  BY <1>1, Found
<1>3. g.todo = f.todo \ {k}
  BY DEF Took
<1>4. \A j : k \in Claimants(n, j) <=> j = i
  BY <1>1 DEF Claimants
<1>5. \A j : Seen(n, g, j) = Seen(n, f, j) \union IF j = i THEN {k} ELSE {}
  BY <1>4, <1>3 DEF Seen
<1>6. /\ f.todo \subseteq Keys(n)
      /\ DOMAIN f.got = {j \in Named(t) : Seen(n, f, j) # {}}
      /\ \A j \in DOMAIN f.got : \E l \in Seen(n, f, j) :
           /\ f.got[j] = Given(n).kids[l]
           /\ Exact(l) \/ \A m \in Seen(n, f, j) : ~Exact(m)
      /\ EntriesOf(f.left) = Unclaimed(n) \ f.todo
  BY DEF Matched, EntriesOf
<1>7. /\ i = 0 => g.left = Append(f.left, k) /\ g.got = f.got
      /\ i # 0 => g.left = f.left
      /\ i # 0 /\ (i \in DOMAIN f.got /\ ~Exact(k)) => g.got = f.got
      /\ i # 0 /\ ~(i \in DOMAIN f.got /\ ~Exact(k)) =>
           g.got = [j \in DOMAIN f.got \union {i} |-> IF j = i THEN Given(n).kids[k] ELSE f.got[j]]
  BY DEF Supplied, Took
<1> HIDE DEF i, Exact
<1>8. EntriesOf(g.left) = Unclaimed(n) \ g.todo
  <2>1. k \in Unclaimed(n) <=> i = 0
    BY <1>4 DEF Unclaimed
  <2>2. CASE i = 0
    <3>1. EntriesOf(g.left) = EntriesOf(f.left) \union {k}
      BY <1>7, <2>2, AppendedEntries
    <3> QED BY <1>6, <1>3, <2>1, <2>2, <3>1
  <2>3. CASE i # 0
    BY <1>6, <1>7, <1>3, <2>1, <2>3
  <2> QED BY <2>2, <2>3
<1>9. /\ DOMAIN g.got = {j \in Named(t) : Seen(n, g, j) # {}}
      /\ \A j \in DOMAIN g.got : \E l \in Seen(n, g, j) :
           /\ g.got[j] = Given(n).kids[l]
           /\ Exact(l) \/ \A m \in Seen(n, g, j) : ~Exact(m)
  <2>1. CASE i = 0
    <3>1. \A j \in Named(t) : Seen(n, g, j) = Seen(n, f, j)
      BY <1>1, <1>5, <2>1
    <3> QED BY <1>6, <1>7, <2>1, <3>1
  <2>2. CASE i # 0 /\ i \in DOMAIN f.got /\ ~Exact(k)
    <3>1. g.got = f.got
      BY <1>7, <2>2
    <3>2. DOMAIN g.got = {j \in Named(t) : Seen(n, g, j) # {}}
      BY <1>5, <1>6, <2>2, <3>1
    <3>3. ASSUME NEW j \in DOMAIN f.got
          PROVE  \E l \in Seen(n, g, j) :
                   /\ f.got[j] = Given(n).kids[l]
                   /\ Exact(l) \/ \A m \in Seen(n, g, j) : ~Exact(m)
      <4>1. PICK l \in Seen(n, f, j) :
              /\ f.got[j] = Given(n).kids[l]
              /\ Exact(l) \/ \A m \in Seen(n, f, j) : ~Exact(m)
        BY <1>6
      <4>2. l \in Seen(n, g, j) /\ \A m \in Seen(n, g, j) : m \in Seen(n, f, j) \/ m = k
        BY <1>5
      <4> QED BY <2>2, <4>1, <4>2
    <3> QED BY <3>1, <3>2, <3>3
  <2>3. CASE i # 0 /\ ~(i \in DOMAIN f.got /\ ~Exact(k))
    <3>1. /\ DOMAIN g.got = DOMAIN f.got \union {i} /\ g.got[i] = Given(n).kids[k]
          /\ \A j \in DOMAIN f.got : j # i => g.got[j] = f.got[j]
      BY <1>7, <2>3
    <3>2. k \in Seen(n, g, i) /\ i \in Named(t)
      BY <1>2, <1>5, <2>3
    <3>3. DOMAIN g.got = {j \in Named(t) : Seen(n, g, j) # {}}
      <4>1. \A j : j # i => Seen(n, g, j) = Seen(n, f, j)
        BY <1>5
      <4> QED BY <1>6, <3>1, <3>2, <4>1
    <3>4. Exact(k) \/ \A m \in Seen(n, g, i) : ~Exact(m)
      <4>1. CASE i \notin DOMAIN f.got
        <5>1. Seen(n, g, i) = {k}
          BY <1>2, <1>5, <1>6, <2>3, <4>1
        <5> QED BY <5>1
      <4> QED BY <2>3, <4>1
    <3>5. ASSUME NEW j \in DOMAIN g.got
          PROVE  \E l \in Seen(n, g, j) :
                   /\ g.got[j] = Given(n).kids[l]
                   /\ Exact(l) \/ \A m \in Seen(n, g, j) : ~Exact(m)
      <4>1. CASE j = i
        BY <3>1, <3>2, <3>4, <4>1
      <4>2. CASE j # i
        <5>1. j \in DOMAIN f.got /\ Seen(n, g, j) = Seen(n, f, j)
          BY <1>5, <3>1, <4>2
        <5> QED BY <1>6, <3>1, <4>2, <5>1
      <4> QED BY <4>1, <4>2
    <3> QED BY <3>3, <3>5
  <2> QED BY <2>1, <2>2, <2>3
<1> QED BY <1>6, <1>8, <1>9, <1>3 DEF Matched, EntriesOf, Exact

\* Before the first field nothing is done, and nothing has failed.
LEMMA NoneDone ==
  ASSUME NEW n, Into(n) \in DOMAIN Types, Flattish(n)
  PROVE  Done(n, 1) = {} /\ Failed(n, 1) = {} /\ Filled(n, Before(n), {})
<1>1. \A j \in Named(Into(n)) : j \in Nat /\ ~(j < 1)
  <2>1. Named(Into(n)) \subseteq 1 .. Len(Fields(Into(n))) /\ Len(Fields(Into(n))) \in Nat
    BY FlatIs, FieldsAre
  <2> QED BY <2>1
<1>2. Given1(n) \subseteq Named(Into(n)) /\ Misfits(n) \subseteq Given1(n)
  BY FlatIs
<1>3. Filled(n, Before(n), {})
  BY DEF Filled, Old
<1> QED BY <1>1, <1>2, <1>3 DEF Done, Failed

\* The next state, as the phases look at it.
LEMMA NextState ==
  \E z : /\ z = Now' /\ z.stack = stack' /\ z.ret = ret' /\ z.errs = errs' /\ z.stopped = stopped'
         /\ z.path = path' /\ z.weak = weak' /\ z.meta = meta'
<1>1. /\ (Now').stack = stack' /\ (Now').ret = ret' /\ (Now').errs = errs' /\ (Now').stopped = stopped'
      /\ (Now').path = path' /\ (Now').weak = weak' /\ (Now').meta = meta'
  BY DEF Now
<1> QED BY <1>1

\* With no error there is nothing to stop for.
LEMMA NotStopped ==
  ASSUME ErrInv, errs = << >>
  PROVE  ~stopped
<1>1. Len(errs) = 0
  OBVIOUS
<1>2. Limit \in Nat
  BY DEF ErrInv, ConfigOK, Limit
<1>3. ~ (Limit > 0 /\ 0 >= Limit)
  BY <1>2
<1> QED BY <1>1, <1>3 DEF ErrInv, LimitMeansStopped

\* When every key has been seen the values are sorted by field.
LEMMA AllMatched ==
  ASSUME NEW n, Into(n) \in DOMAIN Types, Flattish(n), NEW f, Matched(n, f), f.todo = {}, f.dt = Into(n)
  PROVE  Sorted(n, f)
<1>1. \A i : Seen(n, f, i) = Claimants(n, i)
  BY DEF Seen
<1>2. DOMAIN f.got = Given1(n)
  BY <1>1 DEF Matched, Given1
<1>3. ASSUME NEW i \in Given1(n) PROVE Unwrap(f.got[i]) = ValueFor(n, i)
  <2>1. PICK k \in Claimants(n, i) :
          /\ f.got[i] = Given(n).kids[k]
          /\ ExactMatch(Into(n), k) \/ \A l \in Claimants(n, i) : ~ExactMatch(Into(n), l)
    BY <1>1, <1>2 DEF Matched
  <2>2. i \in Named(Into(n))
    BY DEF Given1
  <2> QED BY <2>1, <2>2, ChosenIs
<1> QED BY <1>2, <1>3 DEF Matched, Sorted

\* The match loop goes on to the next key, or to the fields.
LEMMA MatchingGoes ==
  ASSUME NEW n, Running(n), Matching(n, Now), EngineStep
  PROVE  GoesTo(n)
<1>1. /\ Inv /\ TypedInv /\ ErrInv /\ ~Idle /\ Len(stack) = 2 /\ errs = << >> /\ meta = NoMeta
      /\ Into(n) \in DOMAIN Types /\ Flattish(n)
      /\ Top.op = "matchKeys" /\ Top.i = 1 /\ DOMAIN Top = FrameFields
      /\ Top.src = Given(n) /\ Top.cur = Before(n) /\ Top.dt = Into(n) /\ Matched(n, Top)
  BY OneAbove DEF Running, Base, Matching, Now
<1>2. MatchKey \/ MatchKeysDone
  BY <1>1, ConvertSteps, ContainerSteps, StructSteps DEF EngineStep, Stages, FlatOps
<1>3. IsSeq(Top.left)
  BY <1>1, TopTyped DEF FrameTyped, Matches, LeftIsKeys
<1>4. CASE MatchKey
  <2>1. PICK k \in Top.todo :
          LET i     == Lookup(Top.dt, k, cfg.loose)
              f     == [Top EXCEPT !.todo = @ \ {k}]
              keeps == i \in Supplied(Top) /\ ~ExactMatch(Top.dt, k)
          IN  Become(IF i = 0 THEN [f EXCEPT !.left = Append(@, k)]
                     ELSE IF keeps THEN f
                     ELSE [f EXCEPT !.got = [j \in DOMAIN @ \union {i} |->
                             IF j = i THEN Top.src.kids[k] ELSE @[j]]])
    BY <1>4 DEF MatchKey
  <2>2. errs' = errs /\ meta' = meta
    BY <1>4 DEF MatchKey, Private, NoErrors
  <2> DEFINE i     == Lookup(Into(n), k, cfg.loose)
             f     == [Top EXCEPT !.todo = @ \ {k}]
             keeps == i \in Supplied(Top) /\ ~ExactMatch(Into(n), k)
             got   == [j \in DOMAIN Top.got \union {i} |-> IF j = i THEN Given(n).kids[k] ELSE Top.got[j]]
             g     == IF i = 0 THEN [f EXCEPT !.left = Append(@, k)]
                      ELSE IF keeps THEN f ELSE [f EXCEPT !.got = got]
  <2>3. f.todo = Top.todo \ {k} /\ f.left = Top.left /\ f.got = Top.got
    BY <1>1 DEF FrameFields
  <2>4. Become(g)
    BY <1>1, <2>1, <2>3
  <2>5. /\ g.op = "matchKeys" /\ g.i = 1 /\ g.src = Given(n) /\ g.cur = Before(n) /\ g.dt = Into(n)
        /\ g.todo = Top.todo \ {k}
        /\ g.left = IF i = 0 THEN Append(Top.left, k) ELSE Top.left
        /\ g.got = IF i = 0 \/ keeps THEN Top.got ELSE got
    <3> HIDE DEF i, keeps, got
    <3> QED BY <1>1 DEF FrameFields
  <2>6. Matched(n, g)
    <3>1. Took(n, Top, g, k)
      <4> HIDE DEF g
      <4> QED BY <2>5 DEF Took
    <3> HIDE DEF g
    <3>2. Into(n) \in DOMAIN Types
      BY <1>1
    <3>3. Flattish(n)
      BY <1>1
    <3>4. Matched(n, Top)
      BY <1>1
    <3> QED BY <1>3, <3>1, <3>2, <3>3, <3>4, OneMatched
  <2> HIDE DEF g
  <2>7. Len(stack') = 2 /\ stack'[2] = g
    BY <1>1, <2>4, OneAbove DEF Running
  <2>8. Matching(n, Now')
    BY <1>1, <2>2, <2>5, <2>6, <2>7 DEF Matching, Now
  <2> QED BY <2>8 DEF GoesTo, OnItsWay
<1>5. CASE MatchKeysDone
  <2> DEFINE g == [Top EXCEPT !.op = "assignFields"]
  <2>1. Become(g) /\ errs' = errs /\ stopped' = stopped /\ meta' = meta /\ Top.todo = {}
    BY <1>5 DEF MatchKeysDone, Private, NoErrors
  <2>2. /\ g.op = "assignFields" /\ g.i = 1 /\ g.cur = Before(n) /\ g.dt = Into(n)
        /\ g.todo = Top.todo /\ g.left = Top.left /\ g.got = Top.got
    BY <1>1 DEF FrameFields
  <2> HIDE DEF g
  <2>3. Matched(n, g)
    BY <1>1, <2>2 DEF Matched, Seen
  <2>4. Sorted(n, g)
    BY <1>1, <2>1, <2>2, <2>3, AllMatched
  <2>5. Done(n, 1) = {} /\ Failed(n, 1) = {} /\ Filled(n, Before(n), {})
    BY <1>1, NoneDone
  <2>6. ErrorsTo(n, << >>, {}) /\ KeysTo(n, NoMeta, {})
    <3>1. Len(<< >>) = 0
      OBVIOUS
    <3>2. \A e : Lists(<< >>, 1, 0, {}, e)
      BY ListsNone
    <3> QED BY <3>1, <3>2 DEF ErrorsTo, KeysTo, NoMeta
  <2>7. Len(stack') = 2 /\ stack'[2] = g /\ ~stopped
    BY <1>1, <2>1, OneAbove, NotStopped DEF Running
  <2>8. PICK z : /\ z = Now' /\ z.stack = stack' /\ z.errs = errs' /\ z.stopped = stopped' /\ z.meta = meta'
    BY NextState
  <2>9. Assigning(n, z)
    <3>1. ~z.stopped
      BY <2>1, <2>7, <2>8
    <3>2. z.errs = << >> /\ z.meta = NoMeta /\ Len(z.stack) = 2 /\ z.stack[2] = g
      BY <1>1, <2>1, <2>7, <2>8
    <3>3. g.i \in Nat /\ Filled(n, g.cur, Done(n, g.i))
      BY <2>2, <2>5
    <3>4. ErrorsTo(n, z.errs, Failed(n, g.i)) /\ KeysTo(n, z.meta, Done(n, g.i))
      BY <2>2, <2>5, <2>6, <3>2
    <3> QED BY <2>2, <2>4, <3>1, <3>2, <3>3, <3>4 DEF Assigning
  <2> QED BY <2>8, <2>9 DEF GoesTo, OnItsWay
<1> QED BY <1>2, <1>4, <1>5

\* While the work goes on there are fewer failures than the limit allows.
LEMMA UnderLimit ==
  ASSUME ErrInv, ~stopped, NEW S \in SUBSET Nat, NEW e, Lists(errs, 1, Len(errs), S, e)
  PROVE  Limit = 0 \/ Cardinality(S) < Limit
<1>1. Len(errs) \in Nat
  BY DEF ErrInv, ErrsIsSeq
<1>2. Cardinality(S) = Len(errs)
  BY <1>1, ListsCount
<1>3. Limit \in Nat
  BY DEF ErrInv, ConfigOK, Limit
<1>4. ~ (Limit > 0 /\ Len(errs) >= Limit)
  BY DEF ErrInv, LimitMeansStopped
<1> QED BY <1>1, <1>2, <1>3, <1>4

\* What is allocated to reach a field holds what it would hold.
LEMMA ReachedFilled ==
  ASSUME NEW n, Into(n) \in DOMAIN Types, Types[Into(n)].kind = "struct",
         NEW v, Of(v, Into(n)), NEW D, Filled(n, v, D), NEW i \in DOMAIN Fields(Into(n)), i \notin D
  PROVE  Filled(n, Reach(v, i), D) /\ (i \in Named(Into(n)) => Reach(v, i).kids[i] = Old(n, i))
<1>1. Kind(v) = "struct" /\ WellTyped(v) /\ v.t = Into(n)
  BY DEF Of, Kind
<1>2. i \in DOMAIN Fields(v.t)
  BY <1>1
<1>3. i \in DOMAIN Reach(v, i).kids
  BY <1>1, <1>2, ReachTyped
<1>4. Tuple4(v)
  BY <1>1, TypedIs
<1> DEFINE new == {j \in DOMAIN Fields(v.t) \ DOMAIN v.kids : Fields(v.t)[j].emb \subseteq Fields(v.t)[i].emb}
           ks  == [j \in DOMAIN v.kids \union new |->
                     IF j \in DOMAIN v.kids THEN v.kids[j] ELSE ZeroOf[Fields(v.t)[j].type]]
<1>5. Reach(v, i).kids = IF i \in DOMAIN v.kids THEN v.kids ELSE ks
  <2> DEFINE K == ks
  <2>1. Reach(v, i) = IF i \in DOMAIN v.kids THEN v ELSE [v EXCEPT !.kids = K]
    BY DEF Reach
  <2> HIDE DEF K
  <2>2. [v EXCEPT !.kids = K].kids = K
    BY <1>4 DEF Tuple4
  <2> QED BY <2>1, <2>2 DEF K
<1>6. CASE i \in DOMAIN v.kids
  <2>1. Reach(v, i).kids = v.kids
    BY <1>5, <1>6
  <2> QED BY <1>6, <2>1 DEF Filled
<1>7. CASE i \notin DOMAIN v.kids
  <2>1. Reach(v, i).kids = ks
    BY <1>5, <1>7
  <2> DEFINE w == Reach(v, i)
  <2>2. /\ DOMAIN v.kids \subseteq DOMAIN w.kids
        /\ \A j \in DOMAIN v.kids : w.kids[j] = v.kids[j]
        /\ \A j \in DOMAIN w.kids : j \notin DOMAIN v.kids => w.kids[j] = ZeroOf[Fields(Into(n))[j].type]
    BY <1>1, <2>1
  <2> HIDE DEF w
  <2>3. \A j \in Named(Into(n)) \intersect DOMAIN w.kids :
          w.kids[j] = IF j \in D THEN After(n, j) ELSE Old(n, j)
    BY <2>2 DEF Filled, Old
  <2>4. Filled(n, w, D)
    BY <2>2, <2>3 DEF Filled
  <2> QED BY <1>3, <2>3, <2>4 DEF w
<1> QED BY <1>6, <1>7

\* From the first field still to come on, nothing is skipped.
LEMMA NextPending ==
  ASSUME NEW n, Into(n) \in DOMAIN Types, Flattish(n), NEW a \in Nat, NEW i \in Given1(n), a <= i,
         \A j \in Given1(n) : a <= j => i <= j
  PROVE  Done(n, a) = Done(n, i) /\ Failed(n, a) = Failed(n, i)
<1>1. Given1(n) \in SUBSET Nat /\ Misfits(n) \subseteq Given1(n)
  BY FlatIs
<1>2. \A j \in Given1(n) : j < a <=> j < i
  BY <1>1
<1> QED BY <1>1, <1>2 DEF Done, Failed

\* All fields are done.
LEMMA AllDone ==
  ASSUME NEW n, Running(n), Assigning(n, Now), AssignFieldsDone
  PROVE  GoesTo(n)
<1>1. /\ Inv /\ ErrInv /\ MetaOK /\ Len(stack) = 2 /\ ~stopped /\ Into(n) \in DOMAIN Types /\ Flattish(n)
      /\ Top.op = "assignFields" /\ Top.i \in Nat /\ Sorted(n, Top) /\ Filled(n, Top.cur, Done(n, Top.i))
      /\ ErrorsTo(n, errs, Failed(n, Top.i)) /\ KeysTo(n, meta, Done(n, Top.i)) /\ DOMAIN Top = FrameFields
  BY OneAbove DEF Running, Base, Assigning, Now
<1> DEFINE g == [Top EXCEPT !.op = "finishStruct"]
<1>2. Become(g) /\ errs' = errs /\ meta' = meta /\ PendingFields(Top) = {}
  BY DEF AssignFieldsDone, Private, NoErrors
<1>3. g.op = "finishStruct" /\ g.cur = Top.cur /\ g.dt = Top.dt /\ g.left = Top.left /\ g.got = Top.got
  BY <1>1 DEF FrameFields
<1> HIDE DEF g
<1>4. Given1(n) \in SUBSET Nat /\ Misfits(n) \subseteq Given1(n) /\ Misfits(n) \in SUBSET Nat
  BY <1>1, FlatIs
<1>5. Done(n, Top.i) = Given1(n) /\ Failed(n, Top.i) = Misfits(n)
  <2>1. \A j \in Given1(n) : ~(j >= Top.i)
    BY <1>1, <1>2 DEF Sorted, PendingFields, Supplied
  <2>2. \A j \in Given1(n) : j < Top.i
    BY <1>1, <1>4, <2>1
  <2> QED BY <1>4, <2>2 DEF Done, Failed
<1>6. ~CutShort(n)
  <2>1. Limit = 0 \/ Cardinality(Misfits(n)) < Limit
    BY <1>1, <1>4, <1>5, UnderLimit DEF ErrorsTo
  <2>2. Limit \in Nat /\ Cardinality(Misfits(n)) \in Nat
    <3>1. Len(errs) \in Nat
      BY <1>1 DEF ErrInv, ErrsIsSeq
    <3>2. Cardinality(Misfits(n)) = Len(errs)
      BY <1>1, <1>4, <1>5, <3>1, ListsCount DEF ErrorsTo
    <3> QED BY <1>1, <3>1, <3>2 DEF ErrInv, ConfigOK, Limit
  <2> QED BY <2>1, <2>2 DEF CutShort
<1>7. ErrorsOf(n, errs)
  <2>1. Len(errs) \in Nat
    BY <1>1 DEF ErrInv, ErrsIsSeq
  <2>2. Len(errs) \in 0 .. Len(errs) /\ Len(errs) + 1 .. Len(errs) = {}
    BY <2>1
  <2> QED BY <1>1, <1>5, <2>2 DEF ErrorsOf, ErrorsTo
<1>8. MetaOf(n, meta)
  <2> SUFFICES ASSUME cfg.meta PROVE MetaOf(n, meta)
    BY DEF MetaOf
  <2>1. Lists(meta.keys, 1, Len(meta.keys), Given1(n), FieldPaths(n)) /\ meta.unused = << >> /\ meta.unset = << >>
    BY <1>1, <1>5 DEF KeysTo
  <2>2. Len(meta.keys) \in Nat
    BY <1>1 DEF MetaOK, IsSeq
  <2>3. Len(meta.keys) \in 0 .. Len(meta.keys) /\ Len(meta.keys) + 1 .. Len(meta.keys) = {}
    BY <2>2
  <2>4. DOMAIN meta.unused = {} /\ DOMAIN meta.unset = {}
    BY <2>1, NoKids
  <2> QED BY <2>1, <2>3, <2>4 DEF MetaOf
<1>9. Wrapping(n, g, errs, meta)
  BY <1>1, <1>3, <1>5, <1>6, <1>7, <1>8 DEF Wrapping, Sorted
<1>10. Len(stack') = 2 /\ stack'[2] = g
  BY <1>1, <1>2, OneAbove DEF Running
<1>11. PICK z : z = Now' /\ z.stack = stack' /\ z.errs = errs' /\ z.meta = meta'
  BY NextState
<1>12. Finishing(n, z)
  BY <1>2, <1>3, <1>9, <1>10, <1>11 DEF Finishing
<1> QED BY <1>11, <1>12 DEF GoesTo, OnItsWay

\* The next field that was given a value is assigned it.
LEMMA FieldStarts ==
  ASSUME NEW n, Running(n), Assigning(n, Now), AssignNextField
  PROVE  GoesTo(n)
<1>1. /\ Inv /\ TypedInv /\ ErrInv /\ ~Idle /\ Len(stack) = 2 /\ ~stopped
      /\ Into(n) \in DOMAIN Types /\ Flattish(n) /\ Types[Into(n)].kind = "struct"
      /\ Top.op = "assignFields" /\ Top.i \in Nat /\ Sorted(n, Top) /\ Filled(n, Top.cur, Done(n, Top.i))
      /\ ErrorsTo(n, errs, Failed(n, Top.i)) /\ KeysTo(n, meta, Done(n, Top.i)) /\ DOMAIN Top = FrameFields
  BY OneAbove, FlatIs DEF Running, Base, Assigning, Now
<1>2. path = << >> /\ weak = cfg.weakTypes
  BY <1>1, OneAbove DEF Running, Pushing
<1>3. PICK i \in PendingFields(Top) :
        /\ \A j \in PendingFields(Top) : i <= j
        /\ AssignField([Top EXCEPT !.i = i + 1], i, Top.got[i], "assignFields")
  BY DEF AssignNextField
<1>4. meta' = meta
  BY DEF AssignNextField
<1>5. i \in Given1(n) /\ i \in Named(Into(n)) /\ i \in Nat /\ Top.i <= i /\ \A j \in Given1(n) : Top.i <= j => i <= j
  <2>1. PendingFields(Top) = {j \in Given1(n) : j >= Top.i}
    BY <1>1 DEF Sorted, PendingFields, Supplied
  <2>2. Given1(n) \in SUBSET Nat /\ Given1(n) \subseteq Named(Into(n))
    BY <1>1, FlatIs
  <2>3. i \in Given1(n) /\ i >= Top.i
    BY <2>1
  <2>4. \A j \in Given1(n) : Top.i <= j => i <= j
    BY <1>1, <1>3, <2>1, <2>2
  <2> QED BY <1>1, <2>2, <2>3, <2>4
<1>6. Done(n, Top.i) = Done(n, i) /\ Failed(n, Top.i) = Failed(n, i)
  BY <1>1, <1>5, NextPending
<1>7. Top.dt = Into(n) /\ Of(Top.cur, Into(n))
  BY <1>1, TopTyped DEF Sorted
<1>8. Filled(n, Reach(Top.cur, i), Done(n, i)) /\ Reach(Top.cur, i).kids[i] = Old(n, i)
  <2>1. i \notin Done(n, i)
    BY <1>5 DEF Done
  <2>2. i \in DOMAIN Fields(Into(n))
    BY <1>1, <1>5, FieldsAre
  <2> QED BY <1>1, <1>5, <1>6, <1>7, <2>1, <2>2, ReachedFilled
<1> DEFINE fi      == Fields(Into(n))[i]
           weakens == "string" \in fi.opts /\ ~weak
           g       == [Top EXCEPT !.i = i + 1, !.op = "fieldDone", !.cur = Reach(Top.cur, i),
                         !.back = "assignFields", !.field = i, !.weakened = weakens]
           c       == Below(ConvertFrame(Top.got[i], Reach(Top.cur, i).kids[i], fi.type, fi.opts))
<1>9. /\ Call(g, c) /\ Push(Seg(fi.name)) /\ weak' = (weak \/ weakens)
      /\ errs' = errs /\ stopped' = stopped
  <2>1. fi.set /\ CanReach(Top.cur, i)
    BY <1>1, <1>5, <1>7, FieldIs DEF CanReach, Filled, Of
  <2> DEFINE f == [Top EXCEPT !.i = i + 1]
             h == [f EXCEPT !.op = "assignFields", !.cur = Reach(Top.cur, i)]
  <2>2. f.dt = Into(n) /\ f.cur = Top.cur
    BY <1>1, <1>7 DEF FrameFields
  <2>3. /\ Call([h EXCEPT !.op = "fieldDone", !.back = "assignFields", !.field = i, !.weakened = weakens], c)
        /\ Push(Seg(fi.name)) /\ weak' = (weak \/ weakens) /\ errs' = errs /\ stopped' = stopped
    <3> HIDE DEF f
    <3> QED BY <1>3, <2>1, <2>2 DEF AssignField, NoErrors, f
  <2>4. [h EXCEPT !.op = "fieldDone", !.back = "assignFields", !.field = i, !.weakened = weakens] = g
    BY <1>1 DEF FrameFields
  <2> QED BY <2>3, <2>4
<1>10. /\ g.op = "fieldDone" /\ g.field = i /\ g.i = i + 1 /\ g.back = "assignFields"
       /\ g.dt = Into(n) /\ g.got = Top.got /\ g.left = Top.left /\ g.cur = Reach(Top.cur, i)
  BY <1>1, <1>7 DEF FrameFields
<1>11. /\ c.op = "convert" /\ c.src = Top.got[i] /\ c.cur = Old(n, i) /\ c.dt = fi.type
  BY <1>8 DEF Below, ConvertFrame, Frame
<1> HIDE DEF g, c
<1>12. i \in Reached(n)
  <2>1. i \in DOMAIN Fields(Into(n))
    BY <1>1, <1>5, FieldsAre
  <2>2. Misfits(n) \in SUBSET Nat
    BY <1>1, FlatIs
  <2>3. Limit = 0 \/ Cardinality(Failed(n, i)) < Limit
    <3>1. Failed(n, i) \in SUBSET Nat
      BY <2>2 DEF Failed
    <3> QED BY <1>1, <1>6, <3>1, UnderLimit DEF ErrorsTo
  <2> QED BY <2>1, <2>3 DEF Reached, Failed
<1>13. Awaits(n, g, i)
  BY <1>1, <1>5, <1>7, <1>8, <1>10, <1>12 DEF Awaits, Sorted
<1>14. Len(stack') = 3 /\ stack'[2] = g /\ stack'[3] = c
  BY <1>1, <1>9, OneAbove DEF Running
<1>15. path' = <<FieldName(n, i)>>
  BY <1>2, <1>9 DEF Push, FieldName
<1>16. weak' = (cfg.weakTypes \/ "string" \in fi.opts)
  BY <1>2, <1>9
<1>17. Unwrap(c.src) = ValueFor(n, i)
  BY <1>1, <1>5, <1>11 DEF Sorted
<1>18. PICK z : /\ z = Now' /\ z.stack = stack' /\ z.errs = errs' /\ z.stopped = stopped' /\ z.meta = meta'
               /\ z.path = path' /\ z.weak = weak'
  BY NextState
<1>19. Casting(n, z)
  <2>1. ~z.stopped
    BY <1>1, <1>9, <1>18
  <2>2. Len(z.stack) = 3 /\ z.stack[2] = g /\ z.stack[3] = c
    BY <1>14, <1>18
  <2>3. z.path = <<FieldName(n, i)>>
    BY <1>15, <1>18
  <2>4. z.weak = (cfg.weakTypes \/ "string" \in Fields(Into(n))[i].opts)
    BY <1>16, <1>18
  <2>5. ErrorsTo(n, z.errs, Failed(n, i)) /\ KeysTo(n, z.meta, Done(n, i))
    BY <1>1, <1>4, <1>6, <1>9, <1>18
  <2>6. c.op \in Stages
    BY <1>11 DEF Stages
  <2> QED BY <1>5, <1>11, <1>13, <1>17, <2>1, <2>2, <2>3, <2>4, <2>5, <2>6 DEF Casting
<1> QED BY <1>18, <1>19 DEF GoesTo, OnItsWay

\* The fields are assigned one after the other.
LEMMA AssigningGoes ==
  ASSUME NEW n, Running(n), Assigning(n, Now), EngineStep
  PROVE  GoesTo(n)
<1>1. Len(stack) = 2 /\ Top.op = "assignFields"
  BY OneAbove DEF Running, Assigning, Now
<1>2. AssignNextField \/ AssignFieldsDone
  BY <1>1, ConvertSteps, ContainerSteps, StructSteps DEF EngineStep, Stages, FlatOps
<1> QED BY <1>2, AllDone, FieldStarts

\* With field i, one more is done; with a misfit, one more has failed.
LEMMA OneMore ==
  ASSUME NEW n, Into(n) \in DOMAIN Types, Flattish(n), NEW i \in Given1(n)
  PROVE  /\ i \in Nat /\ i \notin Done(n, i) /\ Done(n, i + 1) = Done(n, i) \union {i}
         /\ i \in Misfits(n) => Failed(n, i + 1) = Failed(n, i) \union {i}
         /\ i \notin Misfits(n) => Failed(n, i + 1) = Failed(n, i)
<1>1. Given1(n) \in SUBSET Nat /\ Misfits(n) \subseteq Given1(n)
  BY FlatIs
<1>2. \A j \in Given1(n) : j < i + 1 <=> j < i \/ j = i
  BY <1>1
<1>3. i \in Nat /\ ~(i < i)
  BY <1>1
<1> QED BY <1>1, <1>2, <1>3 DEF Done, Failed

\* The stack with two functions above run.
LEMMA TwoAbove ==
  ASSUME Base, ~Idle, Len(stack) = 3
  PROVE  /\ Top = stack[3] /\ DOMAIN Top = FrameFields
         /\ \A g : Become(g) => Len(stack') = 3 /\ stack'[2] = stack[2] /\ stack'[3] = g
         /\ \A v : Return(v) => Len(stack') = 2 /\ stack'[2] = stack[2] /\ ret' = v
<1>1. Inv /\ StackOK /\ Top = stack[3] /\ FrameOK(stack[3])
  BY DEF Base, Inv, StackOK, Top
<1>2. \A g : Become(g) => Len(stack') = 3 /\ stack'[2] = stack[2] /\ stack'[3] = g
  BY <1>1, BecomeIs
<1>3. \A v : Return(v) => Len(stack') = 2 /\ stack'[2] = stack[2] /\ ret' = v
  BY <1>1, ReturnIs DEF Return
<1> QED BY <1>1, <1>2, <1>3 DEF FrameOK

\* The value of field i has been converted, or has not.
LEMMA Answered ==
  ASSUME NEW n, Running(n), NEW i \in Given1(n), Len(stack) = 3, Awaits(n, stack[2], i),
         path = <<FieldName(n, i)>>, meta' = meta, path' = path,
         ErrorsTo(n, errs, Failed(n, i)), KeysTo(n, meta, Done(n, i)),
         NEW v, Return(v), v = After(n, i),
         \/ i \notin Misfits(n) /\ errs' = errs
         \/ i \in Misfits(n) /\ errs' = Append(errs, [path |-> path, err |-> "cast"])
  PROVE  GoesTo(n)
<1>1. /\ Base /\ ErrInv /\ ~Idle /\ Into(n) \in DOMAIN Types /\ Flattish(n)
  BY DEF Running, Base
<1>2. Len(stack') = 2 /\ stack'[2] = stack[2] /\ ret' = After(n, i)
  BY <1>1, TwoAbove
<1>3. ErrorsTo(n, errs', Failed(n, i + 1))
  <2>1. CASE i \notin Misfits(n) /\ errs' = errs
    BY <1>1, <2>1, OneMore
  <2>2. CASE i \in Misfits(n) /\ errs' = Append(errs, [path |-> path, err |-> "cast"])
    <3>1. i \in Named(Into(n)) /\ i \in Nat /\ Failed(n, i + 1) = Failed(n, i) \union {i}
      BY <1>1, <2>2, OneMore DEF Given1
    <3>2. CastErrors(n)[i] = [path |-> path, err |-> "cast"]
      BY <3>1 DEF CastErrors, FieldPaths, FieldName
    <3>3. IsSeq(errs)
      BY <1>1 DEF ErrInv, ErrsIsSeq, IsSeq
    <3>4. Failed(n, i) \in SUBSET Nat /\ \A j \in Failed(n, i) : j < i
      BY <1>1, FlatIs DEF Failed
    <3> DEFINE e == CastErrors(n)
               S == Failed(n, i)
    <3>5. Lists(errs, 1, Len(errs), S, e)
      BY DEF ErrorsTo
    <3>6. errs' = Append(errs, e[i])
      BY <2>2, <3>2
    <3> HIDE DEF e
    <3>7. Lists(Append(errs, e[i]), 1, Len(Append(errs, e[i])), S \union {i}, e)
      BY <3>1, <3>3, <3>4, <3>5, ListsGrow
    <3> QED BY <3>1, <3>6, <3>7 DEF ErrorsTo, e
  <2> QED BY <2>1, <2>2
<1>4. PICK z : z = Now' /\ z.stack = stack' /\ z.ret = ret' /\ z.errs = errs' /\ z.meta = meta' /\ z.path = path'
  BY NextState
<1>5. FieldBack(n, z)
  BY <1>2, <1>3, <1>4 DEF FieldBack
<1> QED BY <1>4, <1>5 DEF GoesTo, OnItsWay

\* The value of a field goes through the pipeline to the cast.
LEMMA CastingGoes ==
  ASSUME NEW n, Running(n), Casting(n, Now), EngineStep
  PROVE  GoesTo(n)
<1>1. PICK i \in Given1(n) :
        /\ Awaits(n, stack[2], i) /\ path = <<FieldName(n, i)>>
        /\ weak = (cfg.weakTypes \/ "string" \in Fields(Into(n))[i].opts)
        /\ ErrorsTo(n, errs, Failed(n, i)) /\ KeysTo(n, meta, Done(n, i))
        /\ stack[3].op \in Stages /\ stack[3].dt = Fields(Into(n))[i].type /\ stack[3].cur = Old(n, i)
        /\ stack[3].op = "convert" => Unwrap(stack[3].src) = ValueFor(n, i)
        /\ stack[3].op # "convert" => stack[3].src = ValueFor(n, i) /\ IsValid(stack[3].src)
  BY DEF Casting, Now
<1>2. /\ Base /\ Inv /\ ~Idle /\ ~stopped /\ Len(stack) = 3 /\ Into(n) \in DOMAIN Types /\ Flattish(n)
      /\ Top = stack[3] /\ cfg.hooks = << >> /\ i \in Named(Into(n))
  BY TwoAbove, FlatIs DEF Running, Base, Casting, Now
<1> DEFINE fi == Fields(Into(n))[i]
           v  == ValueFor(n, i)
<1>3. ConvertNext
  BY <1>1, <1>2, NoStage DEF EngineStep
<1>4. Source0(Top) = v
  BY <1>1, <1>2 DEF Source0
<1>5. Types[fi.type].kind \in {"int", "string"} /\ Mute(fi.type)
  BY <1>2, FieldIs
<1>6. IsValid(v) => Kind(v) # "ptr" /\ Mute(v.t)
  BY <1>2, ValueIs
<1>7. MuteStep
  BY <1>1, <1>2, <1>3, <1>4, <1>5, <1>6, MuteSteps
<1>8. path' = path /\ weak' = weak /\ meta' = meta
  BY <1>7 DEF MuteStep
<1>9. i \in Given1(n) \intersect Reached(n)
  BY <1>1 DEF Awaits
<1>10. CASE Top.op = "convert" /\ ~IsValid(v) /\ Return(Untouched(Top)) /\ NoErrors
  <2>1. i \notin Misfits(n)
    BY <1>10 DEF Misfits
  <2>2. Untouched(Top) = After(n, i)
    BY <1>1, <1>2, <1>9, <1>10, <2>1 DEF Untouched, After
  <2> QED BY <1>1, <1>2, <1>8, <1>10, <2>1, <2>2, Answered DEF NoErrors
<1>11. CASE Top.op = "toScalar" /\ ToScalar
  <2> DEFINE w == IF Top.src.t = Top.dt THEN Top.src ELSE Cast(Top.src, Top.dt, weak)
  <2>1. Top.src = v /\ IsValid(v) /\ Top.dt = fi.type /\ Top.cur = Old(n, i)
    BY <1>1, <1>2, <1>11
  <2>2. w = CastFor(n, i)
    BY <1>1, <2>1 DEF CastFor, Converted
  <2>3. i \in Misfits(n) <=> ~IsValid(w)
    BY <2>1, <2>2 DEF Misfits
  <2>4. IF IsValid(w) THEN NoErrors /\ Return(w) ELSE Fail("cast") /\ Return(Top.cur)
    BY <1>11 DEF ToScalar
  <2> HIDE DEF w
  <2>5. CASE IsValid(w)
    <3>1. w = After(n, i)
      BY <1>9, <2>1, <2>2, <2>3, <2>5 DEF After
    <3> QED BY <1>1, <1>2, <1>8, <2>3, <2>4, <2>5, <3>1, Answered DEF NoErrors
  <2>6. CASE ~IsValid(w)
    <3>1. Top.cur = After(n, i)
      BY <2>1, <2>3, <2>6 DEF After
    <3>2. errs' = Append(errs, [path |-> path, err |-> "cast"])
      BY <1>2, <2>4, <2>6 DEF Fail, AddError
    <3> QED BY <1>1, <1>2, <1>8, <2>3, <2>4, <2>6, <3>1, <3>2, Answered
  <2> QED BY <2>5, <2>6
<1>12. CASE /\ IsValid(v) /\ NoErrors
            /\ \E op \in {"hooks", "decode", "encode", "text", "dispatch", Handler(Types[Top.dt].kind)} :
                 \E g : Become(g) /\ NextFrame(g, op, v)
  <2>1. PICK op \in {"hooks", "decode", "encode", "text", "dispatch", Handler(Types[Top.dt].kind)} :
          \E g : Become(g) /\ NextFrame(g, op, v)
    BY <1>12
  <2>2. PICK g : Become(g) /\ NextFrame(g, op, v)
    BY <2>1
  <2>3. op \in Stages \ {"convert"}
    BY <1>1, <1>2, <1>5 DEF Handler, Stages
  <2>4. g.op \in Stages /\ g.op # "convert" /\ g.dt = fi.type /\ g.cur = Old(n, i) /\ g.src = v /\ IsValid(g.src)
    BY <1>1, <1>2, <1>12, <2>2, <2>3 DEF NextFrame
  <2>5. Len(stack') = 3 /\ stack'[2] = stack[2] /\ stack'[3] = g
    BY <1>2, <2>2, TwoAbove
  <2>6. PICK z : /\ z = Now' /\ z.stack = stack' /\ z.errs = errs' /\ z.stopped = stopped' /\ z.meta = meta'
                 /\ z.path = path' /\ z.weak = weak'
    BY NextState
  <2>7. Casting(n, z)
    <3>1. ~z.stopped
      BY <1>2, <1>12, <2>6 DEF NoErrors
    <3>2. Len(z.stack) = 3 /\ z.stack[2] = stack[2] /\ z.stack[3] = g
      BY <2>5, <2>6
    <3>3. Awaits(n, z.stack[2], i)
      BY <1>1, <3>2
    <3>4. z.path = <<FieldName(n, i)>>
      BY <1>1, <1>8, <2>6
    <3>5. z.weak = (cfg.weakTypes \/ "string" \in Fields(Into(n))[i].opts)
      BY <1>1, <1>8, <2>6
    <3>6. ErrorsTo(n, z.errs, Failed(n, i)) /\ KeysTo(n, z.meta, Done(n, i))
      BY <1>1, <1>8, <1>12, <2>6 DEF NoErrors
    <3> QED BY <1>1, <2>4, <3>1, <3>2, <3>3, <3>4, <3>5, <3>6 DEF Casting
  <2> QED BY <2>6, <2>7 DEF GoesTo, OnItsWay
<1> QED BY <1>4, <1>7, <1>10, <1>11, <1>12 DEF MuteStep

\* The misfits before a field are among those before a later one, and among all.
LEMMA FailedCounts ==
  ASSUME NEW n, Into(n) \in DOMAIN Types, Flattish(n), NEW i \in Nat, NEW j \in Nat, i <= j
  PROVE  /\ Cardinality(Failed(n, i)) \in Nat /\ Cardinality(Failed(n, j)) \in Nat
         /\ Cardinality(Misfits(n)) \in Nat
         /\ Cardinality(Failed(n, i)) <= Cardinality(Failed(n, j))
         /\ Cardinality(Failed(n, j)) <= Cardinality(Misfits(n))
<1>1. Misfits(n) \in SUBSET Nat /\ Misfits(n) \subseteq 1 .. Len(Fields(Into(n))) /\ Len(Fields(Into(n))) \in Nat
  BY FlatIs, FieldsAre
<1>2. IsFiniteSet(Misfits(n))
  <2>1. IsFiniteSet(1 .. Len(Fields(Into(n))))
    BY <1>1, FS_Interval
  <2> QED BY <1>1, <2>1, FS_Subset
<1>3. Failed(n, j) \subseteq Misfits(n) /\ Failed(n, i) \subseteq Failed(n, j)
  BY <1>1 DEF Failed
<1>4. IsFiniteSet(Failed(n, j)) /\ IsFiniteSet(Failed(n, i))
  BY <1>2, <1>3, FS_Subset
<1> QED BY <1>2, <1>3, <1>4, FS_Subset, FS_CardinalityType

\* The limit met at field i: that is how far the call gets.
LEMMA StoppedAt ==
  ASSUME NEW n, Into(n) \in DOMAIN Types, Flattish(n), NEW i \in Given1(n) \intersect Reached(n),
         ErrInv, stopped, ErrorsTo(n, errs, Failed(n, i + 1))
  PROVE  /\ CutShort(n) /\ Given1(n) \intersect Reached(n) = Done(n, i + 1)
         /\ Misfits(n) \intersect Reached(n) = Failed(n, i + 1)
<1>1. Given1(n) \in SUBSET Nat /\ Given1(n) \subseteq DOMAIN Fields(Into(n)) /\ Misfits(n) \subseteq Given1(n)
  BY FlatIs, FieldsAre
<1>2. Limit \in Nat /\ Len(errs) \in Nat /\ Limit > 0 /\ Len(errs) >= Limit
  <2>1. Limit \in Nat /\ Len(errs) \in Nat
    BY DEF ErrInv, ConfigOK, Limit, ErrsIsSeq
  <2>2. Limit > 0 /\ Len(errs) >= Limit
    BY DEF ErrInv, LimitMeansStopped
  <2> QED BY <2>1, <2>2
<1>3. Cardinality(Failed(n, i + 1)) = Len(errs)
  <2>1. Failed(n, i + 1) \in SUBSET Nat
    BY <1>1 DEF Failed
  <2> QED BY <1>2, <2>1, ListsCount DEF ErrorsTo
<1>4. i \in Nat /\ i + 1 \in Nat /\ i + 1 <= i + 1
  BY <1>1
<1>5. CutShort(n)
  BY <1>2, <1>3, <1>4, FailedCounts DEF CutShort
<1>6. Cardinality(Failed(n, i)) < Limit
  BY <1>2 DEF Reached, Failed
<1>7. ASSUME NEW j \in Given1(n) PROVE j \in Reached(n) <=> j < i + 1
  <2>1. j \in Nat /\ j \in DOMAIN Fields(Into(n)) /\ Cardinality(Failed(n, j)) \in Nat
    BY <1>1, FailedCounts
  <2>2. j \in Reached(n) <=> Cardinality(Failed(n, j)) < Limit
    BY <1>2, <2>1 DEF Reached, Failed
  <2>3. CASE j <= i
    <3>1. Cardinality(Failed(n, j)) <= Cardinality(Failed(n, i)) /\ Cardinality(Failed(n, i)) \in Nat
      BY <1>4, <2>1, <2>3, FailedCounts
    <3> QED BY <1>2, <1>4, <1>6, <2>1, <2>2, <2>3, <3>1
  <2>4. CASE i + 1 <= j
    <3>1. Cardinality(Failed(n, i + 1)) <= Cardinality(Failed(n, j))
      BY <1>4, <2>1, <2>4, FailedCounts
    <3> QED BY <1>2, <1>3, <1>4, <2>1, <2>2, <2>4, <3>1
  <2> QED BY <1>4, <2>1, <2>3, <2>4
<1>8. Given1(n) \intersect Reached(n) = Done(n, i + 1)
  BY <1>7 DEF Done
<1>9. Misfits(n) \intersect Reached(n) = Failed(n, i + 1)
  BY <1>1, <1>7 DEF Failed
<1> QED BY <1>5, <1>8, <1>9

\* A destination with the reached fields filled is what is promised.
LEMMA FilledIsFilled ==
  ASSUME NEW n, NEW v, Filled(n, v, Given1(n) \intersect Reached(n))
  PROVE  FieldsFilled(n, v)
<1> DEFINE D == Given1(n) \intersect Reached(n)
<1>1. \A j \in Named(Into(n)) \ D : After(n, j) = Old(n, j)
  BY DEF After
<1>2. Filled(n, v, D)
  OBVIOUS
<1> HIDE DEF D
<1>3. \A j \in Named(Into(n)) : j \in DOMAIN v.kids => v.kids[j] = After(n, j)
  BY <1>1, <1>2 DEF Filled
<1>4. \A j \in Named(Into(n)) : j \notin DOMAIN v.kids => j \notin DOMAIN Before(n).kids /\ j \notin D
  BY <1>2 DEF Filled
<1> QED BY <1>3, <1>4 DEF FieldsFilled, D

\* What a call leaves that the limit cut short at field i.
LEMMA CutShortKept ==
  ASSUME NEW n, Into(n) \in DOMAIN Types, Flattish(n), NEW i \in Given1(n) \intersect Reached(n),
         ErrInv, stopped, ErrorsTo(n, errs, Failed(n, i + 1)),
         NEW v, Filled(n, v, Done(n, i + 1)), NEW mt, IsSeq(mt.keys), KeysTo(n, mt, Done(n, i + 1))
  PROVE  Kept(n, v, errs, mt)
<1>1. /\ CutShort(n) /\ Given1(n) \intersect Reached(n) = Done(n, i + 1)
      /\ Misfits(n) \intersect Reached(n) = Failed(n, i + 1)
  BY StoppedAt
<1>2. FieldsFilled(n, v)
  BY <1>1, FilledIsFilled
<1>3. Len(errs) \in Nat /\ DOMAIN errs = 1 .. Len(errs)
  BY DEF ErrInv, ErrsIsSeq
<1>4. Len(errs) \in 0 .. Len(errs) /\ Len(errs) + 1 .. Len(errs) = {}
  BY <1>3
<1>5. MisfitsReported(n, errs)
  BY <1>1, <1>4 DEF MisfitsReported, ErrorsTo
<1>6. UnusedReported(n, errs)
  <2>1. ASSUME NEW m \in DOMAIN errs PROVE errs[m].err # "unused"
    <3>1. PICK j \in Failed(n, i + 1) : errs[m] = CastErrors(n)[j]
      BY <1>3, ListsHas DEF ErrorsTo
    <3>2. j \in Named(Into(n))
      BY <3>1 DEF Failed, Misfits, Given1
    <3> QED BY <3>1, <3>2 DEF CastErrors
  <2> QED BY <1>1, <2>1 DEF UnusedReported
<1>7. ASSUME cfg.meta PROVE AccountedFor(n, mt)
  <2>1. Lists(mt.keys, 1, Len(mt.keys), Done(n, i + 1), FieldPaths(n)) /\ mt.unused = << >> /\ mt.unset = << >>
    BY <1>7 DEF KeysTo
  <2>2. Len(mt.keys) \in Nat /\ Len(<< >>) = 0
    BY DEF IsSeq
  <2>3. Len(mt.keys) \in 0 .. Len(mt.keys) /\ Len(mt.keys) + 1 .. Len(mt.keys) = {}
    BY <2>2
  <2>4. \E k \in 0 .. Len(mt.keys) :
          /\ Lists(mt.keys, 1, k, Given1(n) \intersect Reached(n), FieldPaths(n))
          /\ \A m \in k + 1 .. Len(mt.keys) : InRemain(n, mt.keys[m])
    BY <1>1, <2>1, <2>3
  <2>5. Lists(mt.unset, 1, 0, {}, FieldPaths(n))
    BY ListsNone
  <2>6. 0 \in 0 .. Len(mt.unset) /\ 1 .. 0 = {} /\ 0 + 1 = 1 /\ Len(mt.unset) = 0 /\ DOMAIN mt.unused = {}
    BY <2>1, <2>2, NoKids
  <2>7. \E k \in 0 .. Len(mt.unset) :
          /\ \A m \in 1 .. k : InRemain(n, mt.unset[m])
          /\ Lists(mt.unset, k + 1, Len(mt.unset), {}, FieldPaths(n))
    BY <2>5, <2>6
  <2> QED BY <1>1, <2>4, <2>6, <2>7 DEF AccountedFor
<1> QED BY <1>2, <1>5, <1>6, <1>7 DEF Kept

\* Field i now holds what it is to hold.
LEMMA FilledOne ==
  ASSUME NEW n, Into(n) \in DOMAIN Types, Flattish(n), NEW i \in Given1(n),
         NEW f, Of(f.cur, Into(n)), i \in DOMAIN f.cur.kids, Filled(n, f.cur, Done(n, i)),
         NEW v, v = [f.cur EXCEPT !.kids[i] = After(n, i)]
  PROVE  Filled(n, v, Done(n, i + 1))
<1>1. Tuple4(f.cur)
  BY TypedIs DEF Of
<1>2. v.kids = [f.cur.kids EXCEPT ![i] = After(n, i)]
  BY <1>1 DEF Tuple4
<1>3. /\ DOMAIN v.kids = DOMAIN f.cur.kids /\ v.kids[i] = After(n, i)
      /\ \A j \in DOMAIN f.cur.kids : j # i => v.kids[j] = f.cur.kids[j]
  BY <1>2
<1>4. Done(n, i + 1) = Done(n, i) \union {i}
  BY OneMore
<1> QED BY <1>3, <1>4 DEF Filled

\* The key of field i is recorded behind those before it.
LEMMA KeyRecorded ==
  ASSUME NEW n, Into(n) \in DOMAIN Types, Flattish(n), NEW i \in Given1(n), MetaOK,
         path = <<FieldName(n, i)>>, KeysTo(n, meta, Done(n, i)), RecordKey(path)
  PROVE  KeysTo(n, meta', Done(n, i + 1)) /\ IsSeq(meta'.keys)
<1>1. CASE ~cfg.meta
  BY <1>1 DEF KeysTo, RecordKey, MetaOK
<1>2. CASE cfg.meta
  <2>1. meta' = [meta EXCEPT !.keys = Append(@, path)]
    BY <1>2 DEF RecordKey
  <2>2. meta'.keys = Append(meta.keys, path) /\ meta'.unused = meta.unused /\ meta'.unset = meta.unset
    BY <2>1 DEF MetaOK
  <2> DEFINE e == FieldPaths(n)
             S == Done(n, i)
  <2>3. Lists(meta.keys, 1, Len(meta.keys), S, e) /\ meta.unused = << >> /\ meta.unset = << >>
    BY <1>2 DEF KeysTo
  <2>4. e[i] = path
    BY DEF FieldPaths, FieldName, Given1
  <2>5. S \in SUBSET Nat /\ i \in Nat /\ \A j \in S : j < i
    BY OneMore, FlatIs DEF Done
  <2>6. IsSeq(meta.keys)
    BY DEF MetaOK
  <2>7. Done(n, i + 1) = S \union {i}
    BY OneMore
  <2> HIDE DEF e, S
  <2>8. Lists(Append(meta.keys, e[i]), 1, Len(Append(meta.keys, e[i])), S \union {i}, e)
    BY <2>3, <2>5, <2>6, ListsGrow
  <2>9. IsSeq(meta'.keys)
    BY <2>2, <2>6, AppendTyped
  <2> QED BY <2>2, <2>3, <2>4, <2>7, <2>8, <2>9 DEF KeysTo, e
<1> QED BY <1>1, <1>2

\* The field is back: on to the next one, or the call is over.
LEMMA FieldBackGoes ==
  ASSUME NEW n, Running(n), FieldBack(n, Now), EngineStep
  PROVE  GoesTo(n)
<1>1. PICK i \in Given1(n) :
        /\ Awaits(n, stack[2], i) /\ path = <<FieldName(n, i)>> /\ ret = After(n, i)
        /\ ErrorsTo(n, errs, Failed(n, i + 1)) /\ KeysTo(n, meta, Done(n, i))
  BY DEF FieldBack, Now
<1>2. /\ Base /\ Inv /\ TypedInv /\ ErrInv /\ MetaOK /\ ~Idle /\ Len(stack) = 2
      /\ Into(n) \in DOMAIN Types /\ Flattish(n) /\ Top = stack[2] /\ DOMAIN Top = FrameFields
  BY OneAbove DEF Running, Base, FieldBack, Now
<1>3. /\ Top.op = "fieldDone" /\ Top.field = i /\ Top.i = i + 1 /\ Top.back = "assignFields"
      /\ i \in Given1(n) \intersect Reached(n) /\ Sorted(n, Top) /\ Top.dt = Into(n)
      /\ Filled(n, Top.cur, Done(n, i))
  BY <1>1, <1>2 DEF Awaits, Sorted
<1>4. FieldDone
  BY <1>3, ConvertSteps, ContainerSteps, StructSteps DEF EngineStep, Stages, FlatOps
<1> DEFINE out == [Top.cur EXCEPT !.kids[Top.field] = ret]
<1>5. /\ IF stopped THEN Return(out)
         ELSE Become([Top EXCEPT !.op = Top.back, !.cur = out, !.weakened = FALSE])
      /\ RecordKey(path) /\ errs' = errs /\ stopped' = stopped
  BY <1>4 DEF FieldDone, NoErrors
<1>6. Filled(n, out, Done(n, i + 1))
  <2>1. Of(Top.cur, Into(n)) /\ i \in DOMAIN Top.cur.kids
    BY <1>2, <1>3, TopTyped DEF FrameTyped
  <2> DEFINE v == out
  <2>2. v = [Top.cur EXCEPT !.kids[i] = After(n, i)]
    BY <1>1, <1>2, <1>3
  <2> HIDE DEF v
  <2>3. Filled(n, v, Done(n, i + 1))
    BY <1>2, <1>3, <2>1, <2>2, FilledOne
  <2> QED BY <2>3 DEF v
<1> HIDE DEF out
<1>7. KeysTo(n, meta', Done(n, i + 1)) /\ IsSeq(meta'.keys)
  BY <1>1, <1>2, <1>5, KeyRecorded
<1>8. PICK z : /\ z = Now' /\ z.stack = stack' /\ z.ret = ret' /\ z.errs = errs' /\ z.stopped = stopped' /\ z.meta = meta'
  BY NextState
<1>9. CASE stopped
  <2>1. Return(out)
    BY <1>5, <1>9
  <2>2. Len(stack') = 1 /\ ret' = out
    BY <1>2, <2>1, OneAbove DEF Return
  <2> DEFINE mt == meta'
  <2>3. IsSeq(mt.keys) /\ KeysTo(n, mt, Done(n, i + 1))
    BY <1>7
  <2> HIDE DEF mt
  <2>4. Kept(n, out, errs, mt)
    BY <1>1, <1>2, <1>3, <1>6, <1>9, <2>3, CutShortKept
  <2>5. Over(n, z)
    BY <1>5, <1>8, <2>2, <2>4 DEF Over, mt
  <2> QED BY <1>8, <2>5 DEF GoesTo, OnItsWay
<1>10. CASE ~stopped
  <2> DEFINE g == [Top EXCEPT !.op = Top.back, !.cur = out, !.weakened = FALSE]
  <2>1. Become(g)
    BY <1>5, <1>10
  <2>2. /\ g.op = "assignFields" /\ g.i = i + 1 /\ g.dt = Into(n) /\ g.got = Top.got /\ g.left = Top.left
        /\ g.cur = out
    BY <1>2, <1>3 DEF FrameFields
  <2> HIDE DEF g
  <2>3. Len(stack') = 2 /\ stack'[2] = g
    BY <1>2, <2>1, OneAbove
  <2>4. Sorted(n, g)
    BY <1>3, <2>2 DEF Sorted
  <2>5. i + 1 \in Nat
    BY <1>2, OneMore
  <2>6. Assigning(n, z)
    <3>1. ~z.stopped
      BY <1>5, <1>8, <1>10
    <3>2. Len(z.stack) = 2 /\ z.stack[2] = g
      BY <1>8, <2>3
    <3>3. ErrorsTo(n, z.errs, Failed(n, i + 1)) /\ KeysTo(n, z.meta, Done(n, i + 1))
      BY <1>1, <1>5, <1>7, <1>8
    <3> QED BY <1>6, <2>2, <2>4, <2>5, <3>1, <3>2, <3>3 DEF Assigning
  <2> QED BY <1>8, <2>6 DEF GoesTo, OnItsWay
<1> QED BY <1>9, <1>10

\* A call the limit does not cut short reaches every field.
LEMMA AllReached ==
  ASSUME NEW n, Into(n) \in DOMAIN Types, Flattish(n), ~CutShort(n), cfg.max \in Nat
  PROVE  Given1(n) \intersect Reached(n) = Given1(n) /\ Misfits(n) \intersect Reached(n) = Misfits(n)
<1>1. Given1(n) \in SUBSET Nat /\ Given1(n) \subseteq DOMAIN Fields(Into(n)) /\ Misfits(n) \subseteq Given1(n)
  BY FlatIs, FieldsAre
<1>2. ASSUME NEW j \in Given1(n) PROVE j \in Reached(n)
  <2>1. /\ Cardinality(Failed(n, j)) \in Nat /\ Cardinality(Misfits(n)) \in Nat
        /\ Cardinality(Failed(n, j)) <= Cardinality(Misfits(n))
    BY <1>1, FailedCounts
  <2>2. Limit \in Nat
    BY DEF Limit
  <2>3. ~ (Limit > 0 /\ Cardinality(Misfits(n)) >= Limit)
    BY DEF CutShort
  <2>4. Limit = 0 \/ Cardinality(Failed(n, j)) < Limit
    BY <2>1, <2>2, <2>3
  <2> QED BY <1>1, <2>4 DEF Reached, Failed
<1> QED BY <1>1, <1>2

\* Without a remain field only misfits have failed so far, and the limit is not met.
LEMMA OnlyMisfits ==
  ASSUME NEW n, Into(n) \in DOMAIN Types, Flattish(n), ErrInv, ~CutShort(n), Info[Into(n)].remain = 0,
         ErrorsOf(n, errs)
  PROVE  Lists(errs, 1, Len(errs), Misfits(n), CastErrors(n)) /\ ~stopped
<1>1. PICK k \in 0 .. Len(errs) :
        /\ Lists(errs, 1, k, Misfits(n), CastErrors(n))
        /\ \A m \in k + 1 .. Len(errs) : Elsewhere(n, errs[m])
  BY DEF ErrorsOf
<1>2. Len(errs) \in Nat /\ Limit \in Nat
  BY DEF ErrInv, ErrsIsSeq, ConfigOK, Limit
<1>3. k = Len(errs)
  <2>1. \A m \in k + 1 .. Len(errs) : FALSE
    BY <1>1 DEF Elsewhere
  <2>2. k < Len(errs) => Len(errs) \in k + 1 .. Len(errs)
    BY <1>2
  <2> QED BY <1>2, <2>1, <2>2
<1>4. Cardinality(Misfits(n)) = Len(errs)
  BY <1>1, <1>2, <1>3, ListsCount, FlatIs
<1>5. ~ (Limit > 0 /\ Len(errs) >= Limit)
  BY <1>4 DEF CutShort
<1> QED BY <1>1, <1>3, <1>5 DEF ErrInv, LimitMeansStopped

\* The failures a finished call hands over.
LEMMA ErrorsHandedOver ==
  ASSUME NEW n, Running(n), NEW f, Wrapping(n, f, errs, meta), IsSeq(f.left), path = << >>,
         f.left = << >> \/ Info[Into(n)].remain = 0,
         IF f.left # << >> /\ cfg.errorUnused THEN Fail("unused") ELSE NoErrors
  PROVE  MisfitsReported(n, errs') /\ UnusedReported(n, errs')
<1>1. /\ ErrInv /\ Into(n) \in DOMAIN Types /\ Flattish(n) /\ ~CutShort(n) /\ ErrorsOf(n, errs)
      /\ \/ EntriesOf(f.left) = Unclaimed(n)
         \/ f.left = << >> /\ Info[Into(n)].remain # 0
  BY DEF Running, Base, Wrapping, EntriesOf
<1>2. Misfits(n) \intersect Reached(n) = Misfits(n)
  BY <1>1, AllReached DEF ErrInv, ConfigOK
<1>3. Len(errs) \in Nat /\ DOMAIN errs = 1 .. Len(errs) /\ IsSeq(errs)
  BY <1>1 DEF ErrInv, ErrsIsSeq, IsSeq
<1>4. ASSUME NEW k \in 0 .. Len(errs), Lists(errs, 1, k, Misfits(n), CastErrors(n)), NEW m \in 1 .. k
      PROVE  errs[m].err = "cast"
  <2>1. PICK j \in Misfits(n) : errs[m] = CastErrors(n)[j]
    BY <1>4, ListsHas
  <2>2. j \in Named(Into(n))
    BY <2>1 DEF Misfits, Given1
  <2> QED BY <2>1, <2>2 DEF CastErrors
<1>5. CASE Info[Into(n)].remain # 0
  <2>1. errs' = errs
    BY <1>5 DEF NoErrors
  <2>2. PICK k \in 0 .. Len(errs) :
          /\ Lists(errs, 1, k, Misfits(n), CastErrors(n))
          /\ \A m \in k + 1 .. Len(errs) : Elsewhere(n, errs[m])
    BY <1>1 DEF ErrorsOf
  <2>3. MisfitsReported(n, errs)
    <3>1. \A m \in k + 1 .. Len(errs) : errs[m].err = "cast" => InRemain(n, errs[m].path)
      BY <2>2 DEF Elsewhere
    <3> QED BY <1>2, <2>2, <3>1 DEF MisfitsReported
  <2>4. ASSUME NEW m \in DOMAIN errs PROVE ~ (errs[m].err = "unused" /\ errs[m].path = << >>)
    <3>1. m \in 1 .. k \/ m \in k + 1 .. Len(errs)
      BY <1>3
    <3>2. CASE m \in 1 .. k
      BY <1>4, <2>2, <3>2
    <3>3. CASE m \in k + 1 .. Len(errs)
      BY <2>2, <3>3 DEF Elsewhere, InRemain
    <3> QED BY <3>1, <3>2, <3>3
  <2>5. UnusedReported(n, errs)
    BY <1>5, <2>4 DEF UnusedReported
  <2> QED BY <2>1, <2>3, <2>5
<1>6. CASE Info[Into(n)].remain = 0
  <2>1. Lists(errs, 1, Len(errs), Misfits(n), CastErrors(n)) /\ ~stopped
    BY <1>1, <1>6, OnlyMisfits
  <2>2. Len(errs) \in 0 .. Len(errs)
    BY <1>3
  <2>3. \A m \in DOMAIN errs : errs[m].err = "cast"
    BY <1>3, <1>4, <2>1, <2>2
  <2>4. f.left # << >> <=> Unclaimed(n) # {}
    <3>1. EntriesOf(f.left) = Unclaimed(n)
      BY <1>1, <1>6
    <3>2. f.left # << >> => EntriesOf(f.left) # {}
      <4>1. PICK W : f.left \in Seq(W)
        BY DEF IsSeq
      <4>2. f.left # << >> => 1 \in DOMAIN f.left
        BY <4>1
      <4> QED BY <4>2 DEF EntriesOf
    <3>3. f.left = << >> => EntriesOf(f.left) = {}
      BY NoKids DEF EntriesOf
    <3> QED BY <3>1, <3>2, <3>3
  <2>5. CASE f.left # << >> /\ cfg.errorUnused
    <3> DEFINE e == [path |-> << >>, err |-> "unused"]
    <3>1. errs' = Append(errs, e)
      BY <2>1, <2>5 DEF Fail, AddError
    <3>2. /\ Len(errs') = Len(errs) + 1 /\ DOMAIN errs' = 1 .. Len(errs) + 1 /\ errs'[Len(errs) + 1] = e
          /\ \A m \in 1 .. Len(errs) : errs'[m] = errs[m]
      <4>1. PICK W : errs \in Seq(W)
        BY <1>3 DEF IsSeq
      <4>2. errs \in Seq(W \union {e})
        BY <4>1
      <4> QED BY <3>1, <4>2
    <3>3. e.err = "unused" /\ e.path = << >>
      OBVIOUS
    <3> HIDE DEF e
    <3>4. Lists(errs', 1, Len(errs), Misfits(n), CastErrors(n))
      BY <2>1, <3>2, ListsSame
    <3>5. Len(errs) \in 0 .. Len(errs') /\ Len(errs) + 1 .. Len(errs') = {Len(errs) + 1}
      BY <1>3, <3>2
    <3>6. MisfitsReported(n, errs')
      BY <1>2, <3>2, <3>3, <3>4, <3>5 DEF MisfitsReported
    <3>7. \E m \in DOMAIN errs' : errs'[m].err = "unused" /\ errs'[m].path = << >>
      BY <1>3, <3>2, <3>3
    <3>8. UnusedReported(n, errs')
      BY <1>1, <1>6, <2>4, <2>5, <3>7 DEF UnusedReported
    <3> QED BY <3>6, <3>8
  <2>6. CASE ~ (f.left # << >> /\ cfg.errorUnused)
    <3>1. errs' = errs
      BY <2>6 DEF NoErrors
    <3>2. Len(errs) + 1 .. Len(errs) = {}
      BY <1>3
    <3>3. MisfitsReported(n, errs)
      BY <1>2, <2>1, <2>2, <3>2 DEF MisfitsReported
    <3>4. UnusedReported(n, errs)
      BY <2>3, <2>4, <2>6 DEF UnusedReported
    <3> QED BY <3>1, <3>3, <3>4
  <2> QED BY <2>5, <2>6
<1> QED BY <1>5, <1>6

\* The paths of names in the destination itself.
LEMMA PathsOf ==
  ASSUME path = << >>, NEW s, IsSeq(s), NEW t, t = [m \in DOMAIN s |-> Append(path, Seg(s[m]))]
  PROVE  /\ IsSeq(t) /\ Len(t) = Len(s) /\ DOMAIN t = DOMAIN s /\ \A m \in DOMAIN s : t[m] = <<Seg(s[m])>>
         /\ Len(s) \in Nat /\ DOMAIN s = 1 .. Len(s)
<1>1. Len(s) \in Nat /\ DOMAIN s = 1 .. Len(s)
  BY DEF IsSeq
<1>2. \A m \in DOMAIN s : t[m] = <<Seg(s[m])>>
  OBVIOUS
<1> DEFINE W == {t[m] : m \in DOMAIN s}
<1>3. t \in [1 .. Len(s) -> W]
  BY <1>1
<1>4. t \in Seq(W)
  BY <1>1, <1>3
<1>5. Len(t) = Len(s)
  BY <1>1, <1>3, <1>4
<1> QED BY <1>1, <1>2, <1>4, <1>5 DEF IsSeq

\* Two lists, one behind the other.
LEMMA Joined ==
  ASSUME NEW s, IsSeq(s), NEW t, IsSeq(t), NEW c, c = s \o t
  PROVE  /\ IsSeq(c) /\ Len(s) \in Nat /\ Len(t) \in Nat /\ Len(c) = Len(s) + Len(t)
         /\ DOMAIN c = 1 .. Len(s) + Len(t)
         /\ \A m \in 1 .. Len(s) : c[m] = s[m]
         /\ \A m \in 1 .. Len(t) : c[Len(s) + m] = t[m]
         /\ DOMAIN s = 1 .. Len(s) /\ DOMAIN t = 1 .. Len(t)
<1>1. PICK W : s \in Seq(W) /\ t \in Seq(W)
  <2>1. PICK A, B : s \in Seq(A) /\ t \in Seq(B)
    BY DEF IsSeq
  <2>2. s \in Seq(A \union B) /\ t \in Seq(A \union B)
    BY <2>1
  <2> QED BY <2>2
<1>2. s \o t \in Seq(W)
  BY <1>1
<1> QED BY <1>1, <1>2 DEF IsSeq

\* The metadata a finished call hands over.
LEMMA MetaHandedOver ==
  ASSUME NEW n, Running(n), NEW f, Wrapping(n, f, errs, meta), IsSeq(f.left), path = << >>,
         f.left = << >> \/ Info[Into(n)].remain = 0,
         RecordLeft(f.left, UnsetFields(f)), cfg.meta
  PROVE  AccountedFor(n, meta')
<1>1. /\ ErrInv /\ MetaOK /\ Into(n) \in DOMAIN Types /\ Flattish(n) /\ ~CutShort(n) /\ MetaOf(n, meta)
      /\ f.dt = Into(n) /\ DOMAIN f.got = Given1(n) /\ Types[Into(n)].kind = "struct"
      /\ \/ EntriesOf(f.left) = Unclaimed(n)
         \/ f.left = << >> /\ Info[Into(n)].remain # 0
  BY FlatIs DEF Running, Base, Wrapping, EntriesOf
<1>2. Given1(n) \intersect Reached(n) = Given1(n)
  BY <1>1, AllReached DEF ErrInv, ConfigOK
<1> DEFINE U  == UnsetFields(f)
           N  == Named(Into(n)) \ Given1(n)
           un == [m \in DOMAIN f.left |-> Append(path, Seg(f.left[m]))]
           us == [m \in DOMAIN U |-> Append(path, Seg(U[m]))]
<1>3. IsSeq(U) /\ Lists(U, 1, Len(U), N, NamesOf(f))
  BY <1>1, UnsetListed DEF Supplied
<1> HIDE DEF U
<1>4. /\ IsSeq(us) /\ Len(us) = Len(U) /\ DOMAIN us = DOMAIN U /\ Len(U) \in Nat /\ DOMAIN U = 1 .. Len(U)
      /\ \A m \in DOMAIN U : us[m] = <<Seg(U[m])>>
  BY <1>3, PathsOf
<1>5. /\ IsSeq(un) /\ DOMAIN un = DOMAIN f.left /\ \A m \in DOMAIN f.left : un[m] = <<Seg(f.left[m])>>
  BY PathsOf
<1>6. meta' = [meta EXCEPT !.unused = @ \o un, !.unset = @ \o us]
  BY DEF RecordLeft, U
<1> HIDE DEF un, us
<1>7. meta'.keys = meta.keys /\ meta'.unused = meta.unused \o un /\ meta'.unset = meta.unset \o us
  BY <1>1, <1>6 DEF MetaOK
<1>8. /\ \E k \in 0 .. Len(meta.keys) :
           /\ Lists(meta.keys, 1, k, Given1(n), FieldPaths(n))
           /\ \A m \in k + 1 .. Len(meta.keys) : InRemain(n, meta.keys[m])
      /\ \A m \in DOMAIN meta.unused : InRemain(n, meta.unused[m])
      /\ \A m \in DOMAIN meta.unset : InRemain(n, meta.unset[m])
  BY <1>1 DEF MetaOf
<1>9. IsSeq(meta.unused) /\ IsSeq(meta.unset)
  BY <1>1 DEF MetaOK
<1>10. \E k \in 0 .. Len(meta'.unset) :
         /\ \A m \in 1 .. k : InRemain(n, meta'.unset[m])
         /\ Lists(meta'.unset, k + 1, Len(meta'.unset), N, FieldPaths(n))
  <2>1. Lists(us, 1, Len(us), N, FieldPaths(n))
    <3>1. ASSUME NEW m \in 1 .. Len(U), NEW i \in N, U[m] = NamesOf(f)[i]
          PROVE  us[m] = FieldPaths(n)[i]
      <4>1. i \in Named(Into(n)) /\ i \in DOMAIN Fields(f.dt)
        BY <1>1, FieldsAre
      <4>2. U[m] = Fields(Into(n))[i].name
        BY <1>1, <3>1, <4>1 DEF NamesOf
      <4> QED BY <1>4, <4>1, <4>2 DEF FieldPaths
    <3> DEFINE e == NamesOf(f)
               h == FieldPaths(n)
    <3>2. Lists(U, 1, Len(U), N, e) /\ \A m \in 1 .. Len(U) : \A i \in N : U[m] = e[i] => us[m] = h[i]
      BY <1>3, <3>1
    <3> HIDE DEF e, h, N
    <3>3. Len(U) \in Nat
      BY <1>4
    <3>4. Lists(us, 1, Len(U), N, h)
      <4>1. PICK o \in [1 .. Len(U) -> N] :
              /\ \A m \in 1 .. Len(U) : U[m] = e[o[m]]
              /\ \A i \in N : \E m \in 1 .. Len(U) : o[m] = i
              /\ \A m, k \in 1 .. Len(U) : m < k => o[m] < o[k]
        BY <3>2 DEF Lists
      <4>2. \A m \in 1 .. Len(U) : us[m] = h[o[m]]
        BY <3>2, <4>1
      <4> QED BY <4>1, <4>2 DEF Lists
    <3> QED BY <1>4, <3>4 DEF h
  <2>2. N \in SUBSET Nat
    BY <1>1, FieldsAre
  <2>3. Lists(meta.unset \o us, Len(meta.unset) + 1, Len(meta.unset \o us), N, FieldPaths(n))
    <3> DEFINE e == FieldPaths(n)
               S == N
    <3>1. Lists(us, 1, Len(us), S, e) /\ S \in SUBSET Nat
      BY <2>1, <2>2
    <3> HIDE DEF e, S
    <3>2. Lists(meta.unset \o us, Len(meta.unset) + 1, Len(meta.unset \o us), S, e)
      BY <1>4, <1>9, <3>1, ListsBehind
    <3> QED BY <3>2 DEF e, S
  <2>4. /\ Len(meta.unset) \in 0 .. Len(meta'.unset)
        /\ \A m \in 1 .. Len(meta.unset) : meta'.unset[m] = meta.unset[m] /\ m \in DOMAIN meta.unset
    <3> DEFINE a == meta.unset
               c == meta'.unset
    <3>1. IsSeq(a) /\ c = a \o us
      BY <1>7, <1>9
    <3> HIDE DEF a, c
    <3>2. IsSeq(us)
      BY <1>4
    <3>3. /\ Len(a) \in Nat /\ Len(us) \in Nat /\ Len(c) = Len(a) + Len(us)
          /\ \A m \in 1 .. Len(a) : c[m] = a[m]
          /\ DOMAIN a = 1 .. Len(a)
      BY <3>1, <3>2, Joined
    <3>4. Len(a) \in 0 .. Len(c)
      BY <3>3
    <3> QED BY <3>3, <3>4 DEF a, c
  <2>5. \A m \in 1 .. Len(meta.unset) : InRemain(n, meta'.unset[m])
    BY <1>8, <2>4
  <2> QED BY <1>7, <2>3, <2>4, <2>5
<1> DEFINE a == meta.unused
           c == meta'.unused
<1>11. /\ DOMAIN c = 1 .. Len(a) + Len(un) /\ Len(un) \in Nat /\ Len(a) \in Nat
       /\ DOMAIN un = 1 .. Len(un) /\ DOMAIN a = 1 .. Len(a)
       /\ \A m \in 1 .. Len(a) : c[m] = a[m]
       /\ \A m \in 1 .. Len(un) : c[Len(a) + m] = un[m]
  <2>1. IsSeq(a) /\ c = a \o un
    BY <1>7, <1>9
  <2> HIDE DEF a, c
  <2> QED BY <1>5, <2>1, Joined
<1>12. IF CutShort(n) \/ Info[Into(n)].remain # 0
       THEN \A m \in DOMAIN meta'.unused : InRemain(n, meta'.unused[m])
       ELSE {meta'.unused[m] : m \in DOMAIN meta'.unused} = {<<Seg(k)>> : k \in Unclaimed(n)}
  <2>1. CASE Info[Into(n)].remain # 0
    <3>1. DOMAIN un = {}
      BY <1>5, <2>1, NoKids
    <3>2. Len(un) = 0
      BY <1>11, <3>1
    <3>3. \A m \in DOMAIN c : m \in DOMAIN a /\ c[m] = a[m]
      <4> HIDE DEF a, c
      <4> QED BY <1>11, <3>2
    <3> QED BY <1>8, <2>1, <3>3
  <2>2. CASE Info[Into(n)].remain = 0
    <3>1. DOMAIN a = {}
      BY <1>8, <2>2 DEF InRemain
    <3>2. Len(a) = 0
      <4> HIDE DEF a, c
      <4>1. 1 .. Len(a) = {} /\ Len(a) \in Nat
        BY <1>11, <3>1
      <4>2. Len(a) >= 1 => 1 \in 1 .. Len(a)
        BY <4>1
      <4> QED BY <4>1, <4>2
    <3>3. DOMAIN c = DOMAIN f.left /\ \A m \in DOMAIN f.left : c[m] = <<Seg(f.left[m])>>
      <4> HIDE DEF a, c
      <4>1. DOMAIN c = 1 .. Len(un) /\ DOMAIN f.left = 1 .. Len(un)
        BY <1>5, <1>11, <3>2
      <4>2. \A m \in 1 .. Len(un) : c[m] = un[m]
        BY <1>11, <3>2
      <4> QED BY <1>5, <4>1, <4>2
    <3>4. {c[m] : m \in DOMAIN c} = {<<Seg(k)>> : k \in EntriesOf(f.left)}
      BY <3>3 DEF EntriesOf
    <3>5. EntriesOf(f.left) = Unclaimed(n)
      BY <1>1, <2>2
    <3> QED BY <1>1, <2>2, <3>4, <3>5
  <2> QED BY <2>1, <2>2
<1> QED BY <1>1, <1>2, <1>7, <1>8, <1>10, <1>12 DEF AccountedFor

-----------------------------------------------------------------------------
(* The remain field.                                                       *)

\* A list with an entry behind it.
LEMMA OneBehind ==
  ASSUME NEW s, IsSeq(s), NEW e, NEW t, t = Append(s, e)
  PROVE  /\ IsSeq(t) /\ Len(s) \in Nat /\ Len(t) = Len(s) + 1 /\ t[Len(s) + 1] = e
         /\ \A m \in 1 .. Len(s) : t[m] = s[m]
         /\ DOMAIN s = 1 .. Len(s) /\ DOMAIN t = 1 .. Len(s) + 1
<1>1. PICK W : s \in Seq(W)
  BY DEF IsSeq
<1>2. s \in Seq(W \union {e})
  BY <1>1
<1>3. t \in Seq(W \union {e}) /\ Len(t) = Len(s) + 1
  BY <1>2
<1> QED BY <1>2, <1>3 DEF IsSeq

\* A failure of the remain field comes behind those of the fields.
LEMMA ErrorsOfMore ==
  ASSUME NEW n, NEW es, IsSeq(es), ErrorsOf(n, es), NEW e, Elsewhere(n, e), NEW t, t = Append(es, e)
  PROVE  ErrorsOf(n, t)
<1>1. /\ Len(es) \in Nat /\ Len(t) = Len(es) + 1 /\ t[Len(es) + 1] = e
      /\ \A m \in 1 .. Len(es) : t[m] = es[m]
  BY OneBehind
<1>2. PICK k \in 0 .. Len(es) :
        /\ Lists(es, 1, k, Misfits(n), CastErrors(n))
        /\ \A m \in k + 1 .. Len(es) : Elsewhere(n, es[m])
  BY DEF ErrorsOf
<1>3. \A m \in 1 .. k : t[m] = es[m]
  BY <1>1, <1>2
<1>4. Lists(t, 1, k, Misfits(n), CastErrors(n))
  BY <1>2, <1>3, ListsSame
<1>5. ASSUME NEW m \in k + 1 .. Len(t) PROVE Elsewhere(n, t[m])
  <2>1. CASE m = Len(es) + 1
    BY <1>1, <2>1
  <2>2. CASE m # Len(es) + 1
    <3>1. m \in k + 1 .. Len(es) /\ m \in 1 .. Len(es)
      BY <1>1, <1>2, <2>2
    <3> QED BY <1>1, <1>2, <3>1
  <2> QED BY <2>1, <2>2
<1> QED BY <1>1, <1>2, <1>4, <1>5 DEF ErrorsOf

\* What a step that is about the remain field does to the failures.
LEMMA ErrorsStay ==
  ASSUME NEW n, ErrInv, ErrorsOf(n, errs), NEW e, NoErrors \/ Fail(e),
         NoErrors \/ Elsewhere(n, [path |-> path, err |-> e])
  PROVE  ErrorsOf(n, errs')
<1>1. CASE errs' = errs
  BY <1>1
<1>2. CASE errs' # errs
  <2>1. errs' = Append(errs, [path |-> path, err |-> e]) /\ Elsewhere(n, [path |-> path, err |-> e])
    BY <1>2 DEF NoErrors, Fail, AddError
  <2>2. IsSeq(errs)
    BY DEF ErrInv, ErrsIsSeq, IsSeq
  <2> QED BY <2>1, <2>2, ErrorsOfMore
<1> QED BY <1>1, <1>2

\* Wrapping up, with the content of the remain field changed.
LEMMA StillWrapping ==
  ASSUME NEW n, NEW f, NEW es, NEW mt, Wrapping(n, f, es, mt),
         NEW g, g.dt = f.dt, g.got = f.got, g.left = << >>, Info[Into(n)].remain # 0,
         Filled(n, g.cur, Given1(n)), NEW es2, ErrorsOf(n, es2), NEW mt2, MetaOf(n, mt2)
  PROVE  Wrapping(n, g, es2, mt2)
BY DEF Wrapping

\* finishStruct: the call is over, or goes on with the remain field.
LEMMA FinishingGoes ==
  ASSUME NEW n, Running(n), Finishing(n, Now), EngineStep
  PROVE  GoesTo(n)
<1>1. /\ Base /\ Inv /\ ErrInv /\ TypedInv /\ MetaOK /\ ~Idle /\ Len(stack) = 2 /\ Top.op = "finishStruct"
      /\ Wrapping(n, Top, errs, meta) /\ Into(n) \in DOMAIN Types /\ Flattish(n) /\ Top = stack[2]
  BY OneAbove DEF Running, Base, Finishing, Now
<1>2. Top.dt = Into(n) /\ path = << >> /\ DOMAIN Top = FrameFields
  <2>1. Top.op \notin Pushing
    BY <1>1 DEF Pushing
  <2> QED BY <1>1, <2>1, OneAbove DEF Wrapping
<1>3. FrameTyped(Top) /\ IsSeq(Top.left) /\ Of(Top.cur, Into(n))
  BY <1>1, <1>2, TopTyped DEF FrameTyped, LeftOver
<1>4. FinishStruct \/ FillRemain
  <2>1. Top.op \notin Stages /\ Top.op \in FlatOps
    BY <1>1 DEF Stages, FlatOps
  <2> QED BY <1>1, <2>1, ConvertSteps, ContainerSteps, StructSteps DEF EngineStep
<1>5. PICK z : /\ z = Now' /\ z.stack = stack' /\ z.ret = ret' /\ z.errs = errs' /\ z.stopped = stopped'
               /\ z.path = path' /\ z.weak = weak' /\ z.meta = meta'
  BY NextState
<1>6. CASE FinishStruct
  <2>1. /\ Top.left = << >> \/ Info[Into(n)].remain = 0
        /\ IF Top.left # << >> /\ cfg.errorUnused THEN Fail("unused") ELSE NoErrors
        /\ RecordLeft(Top.left, UnsetFields(Top))
        /\ Return(Top.cur)
    BY <1>2, <1>6 DEF FinishStruct
  <2>2. MisfitsReported(n, errs') /\ UnusedReported(n, errs')
    BY <1>1, <1>2, <1>3, <2>1, ErrorsHandedOver
  <2>3. cfg.meta => AccountedFor(n, meta')
    BY <1>1, <1>2, <1>3, <2>1, MetaHandedOver
  <2>4. FieldsFilled(n, Top.cur)
    <3>1. Filled(n, Top.cur, Given1(n)) /\ ~CutShort(n)
      BY <1>1 DEF Wrapping
    <3>2. Given1(n) \intersect Reached(n) = Given1(n)
      BY <1>1, <3>1, AllReached DEF ErrInv, ConfigOK
    <3> QED BY <3>1, <3>2, FilledIsFilled
  <2>5. Len(stack') = 1 /\ ret' = Top.cur
    BY <1>1, <2>1, OneAbove DEF Return
  <2>6. Over(n, z)
    BY <1>5, <2>2, <2>3, <2>4, <2>5 DEF Over, Kept
  <2> QED BY <1>5, <2>6 DEF GoesTo, OnItsWay
<1>7. CASE FillRemain
  <2> DEFINE r       == Info[Into(n)].remain
             keys    == {Top.left[m] : m \in DOMAIN Top.left}
             entries == Holding(Top.src.t, [k \in keys |-> Top.src.kids[k]])
             filled  == [Top EXCEPT !.left = << >>]
  <2>1. /\ r # 0 /\ meta' = meta
        /\ \/ Become(filled) /\ (NoErrors \/ Fail("remain"))
           \/ Become([filled EXCEPT !.cur = RemainReached(Top)]) /\ NoErrors
           \/ Become([filled EXCEPT !.cur = RemainAllocated(Top)]) /\ Fail("remain")
           \/ \E follow : RemainInto(filled, entries, follow) /\ NoErrors
    BY <1>2, <1>7 DEF FillRemain
  <2> HIDE DEF entries
  <2>2. /\ filled.op = "finishStruct" /\ filled.cur = Top.cur /\ filled.dt = Top.dt
        /\ filled.got = Top.got /\ filled.left = << >> /\ DOMAIN filled = FrameFields
    BY <1>1, <1>2 DEF FrameFields
  <2> HIDE DEF filled
  <2>3. Filled(n, Top.cur, Given1(n)) /\ MetaOf(n, meta) /\ ErrorsOf(n, errs)
    BY <1>1 DEF Wrapping
  <2>4. ASSUME NEW g, g.op = "finishStruct", g.dt = Top.dt, g.got = Top.got, g.left = << >>,
               Filled(n, g.cur, Given1(n)), Become(g), NoErrors \/ Fail("remain")
        PROVE  GoesTo(n)
    <3>1. Elsewhere(n, [path |-> path, err |-> "remain"])
      BY <2>1 DEF Elsewhere
    <3>2. ErrorsOf(n, errs')
      BY <1>1, <2>3, <2>4, <3>1, ErrorsStay
    <3>3. Len(stack') = 2 /\ stack'[2] = g
      BY <1>1, <2>4, OneAbove
    <3>4. Wrapping(n, g, errs', meta')
      BY <1>1, <2>1, <2>3, <2>4, <3>2, StillWrapping
    <3>5. Finishing(n, z)
      BY <1>5, <2>4, <3>3, <3>4 DEF Finishing
    <3> QED BY <1>5, <3>5 DEF GoesTo, OnItsWay
  <2>6. Filled(n, Reach(Top.cur, r), Given1(n)) /\ r \notin Named(Into(n))
    <3>1. Types[Into(n)].kind = "struct" /\ Given1(n) \subseteq Named(Into(n))
      BY <1>1, FlatIs
    <3>2. r \notin Named(Into(n))
      BY <1>1, <3>1, FieldsAre
    <3>3. r \in DOMAIN Fields(Into(n)) /\ r \notin Given1(n)
      BY <1>1, <2>1, <3>1, <3>2, RemainIs
    <3> QED BY <1>1, <1>3, <2>3, <3>1, <3>2, <3>3, ReachedFilled
  <2>7. RemainReached(Top) = Reach(Top.cur, r)
    BY <1>2 DEF RemainReached
  <2>8. Filled(n, RemainAllocated(Top), Given1(n))
    <3> DEFINE into == Reach(Top.cur, r)
               new  == Holding(RemainType(Top), <<ZeroOf[Elem(RemainType(Top))]>>)
               ks   == [into.kids EXCEPT ![r] = new]
    <3>1. RemainAllocated(Top) = into \/ RemainAllocated(Top) = [into EXCEPT !.kids[r] = new]
      BY <1>2 DEF RemainAllocated, RemainReached
    <3> HIDE DEF into, new
    <3>2. Tuple4(into)
      <4>1. WellTyped(Top.cur) /\ Kind(Top.cur) = "struct" /\ Top.cur.t = Into(n)
        <5>1. Types[Into(n)].kind = "struct"
          BY <1>1, FlatIs
        <5> QED BY <1>3, <5>1 DEF Of, Kind
      <4>2. Into(n) \in DOMAIN Types /\ Types[Into(n)].kind = "struct" /\ r \in DOMAIN Fields(Into(n))
        BY <1>1, <2>1, FlatIs, RemainIs
      <4>3. WellTyped(into)
        BY <4>1, <4>2, ReachTyped DEF into, Of
      <4> QED BY <4>3, TypedIs
    <3>3. [into EXCEPT !.kids[r] = new].kids = ks
      BY <3>2 DEF Tuple4
    <3>4. DOMAIN ks = DOMAIN into.kids /\ \A j \in DOMAIN into.kids : j # r => ks[j] = into.kids[j]
      OBVIOUS
    <3> HIDE DEF ks
    <3>5. Filled(n, [into EXCEPT !.kids[r] = new], Given1(n))
      BY <2>6, <3>3, <3>4 DEF Filled, into
    <3> QED BY <2>6, <3>1, <3>5 DEF into
  <2>9. ASSUME NEW v, Filled(n, v, Given1(n)), Become([filled EXCEPT !.cur = v]), NoErrors \/ Fail("remain")
        PROVE  GoesTo(n)
    <3> DEFINE g == [filled EXCEPT !.cur = v]
    <3>1. /\ g.op = "finishStruct" /\ g.cur = v /\ g.dt = Top.dt
          /\ g.got = Top.got /\ g.left = << >>
      BY <2>2 DEF FrameFields
    <3> QED BY <2>4, <2>9, <3>1
  <2>10. CASE Become(filled) /\ (NoErrors \/ Fail("remain"))
    BY <2>2, <2>3, <2>4, <2>10
  <2>5. ASSUME NEW follow, RemainInto(filled, entries, follow), NoErrors
        PROVE  GoesTo(n)
    <3> DEFINE into == Reach(Top.cur, r)
               g    == [filled EXCEPT !.op = "remainDone", !.cur = into]
    <3>1. Info[filled.dt].remain = r /\ filled.cur = Top.cur /\ filled.dt = Into(n)
      BY <1>2, <2>2
    <3>2. \E c : Call(g, c)
      BY <2>5, <3>1 DEF RemainInto
    <3>3. Push(FieldName(n, r))
      BY <2>5, <3>1 DEF RemainInto, FieldName
    <3>4. g.op = "remainDone" /\ g.cur = into /\ g.dt = Top.dt /\ g.got = Top.got /\ g.left = << >>
          /\ DOMAIN g = FrameFields
      BY <2>2 DEF FrameFields
    <3> HIDE DEF g
    <3>6. Filled(n, into, Given1(n))
      BY <2>6
    <3> HIDE DEF into
    <3>7. Wrapping(n, g, errs', meta')
      <4>1. errs' = errs
        BY <2>5 DEF NoErrors
      <4> QED BY <1>1, <2>1, <2>3, <3>4, <3>6, <4>1, StillWrapping
    <3>8. PICK c : Call(g, c)
      BY <3>2
    <3>9. Len(stack') = 3 /\ stack'[2] = g
      BY <1>1, <3>8, OneAbove
    <3>10. path' = <<FieldName(n, r)>>
      BY <1>2, <3>3 DEF Push
    <3>11. \A m \in 3 .. Len(stack') : stack'[m].at >= 1
      <4>1. PathOK' /\ stack' # << >> /\ FrameOK(stack'[2])
        <5>1. Inv'
          BY <1>1, StackStep DEF EngineStep, Next
        <5>2. Len(stack') = 3
          BY <3>9
        <5> QED BY <5>1, <5>2 DEF Inv, StackOK
      <4>2. stack'[3].at = Depth(stack'[2])
        <5>1. 2 \in 1 .. Len(stack') - 1 /\ 2 + 1 = 3
          BY <3>9
        <5>2. stack'[2 + 1].at = Depth(stack'[2])
          BY <4>1, <5>1 DEF PathOK, Idle, Depth
        <5> QED BY <5>1, <5>2
      <4>3. Depth(stack'[2]) >= 1
        <5>1. stack'[2].at \in Nat
          BY <4>1 DEF FrameOK
        <5> QED BY <3>4, <3>9, <5>1 DEF Depth, Pushing
      <4>4. \A m \in 3 .. Len(stack') : m = 3
        BY <3>9
      <4> QED BY <4>2, <4>3, <4>4
    <3>12. path' # << >> /\ path'[1] = FieldName(n, r)
      BY <3>10
    <3>13. Remaining(n, z)
      BY <1>5, <2>1, <3>4, <3>7, <3>9, <3>11, <3>12 DEF Remaining
    <3> QED BY <1>5, <3>13 DEF GoesTo, OnItsWay
  <2> QED BY <2>1, <2>5, <2>6, <2>7, <2>8, <2>9, <2>10
<1> QED BY <1>4, <1>6, <1>7

\* What one struct has left, as paths below its own.
LEMMA LeftPaths ==
  ASSUME NEW s, IsSeq(s), NEW t, t = [m \in DOMAIN s |-> Append(path, Seg(s[m]))]
  PROVE  IsSeq(t) /\ DOMAIN t = DOMAIN s
<1>1. Len(s) \in Nat /\ DOMAIN s = 1 .. Len(s)
  BY DEF IsSeq
<1> DEFINE W == {t[m] : m \in DOMAIN s}
<1>2. t \in [1 .. Len(s) -> W]
  BY <1>1
<1>3. t \in Seq(W)
  BY <1>1, <1>2
<1> QED BY <1>1, <1>2, <1>3 DEF IsSeq

\* The metadata stays the three lists it is.
LEMMA MetaStays ==
  ASSUME MetaOK, MetaStep
  PROVE  MetaOK'
<1>1. CASE meta' = meta
  BY <1>1 DEF MetaOK
<1>2. CASE RecordKey(path)
  <2> DEFINE t == Append(meta.keys, path)
  <2>1. IsSeq(t)
    <3> HIDE DEF t
    <3>1. t = Append(meta.keys, path)
      BY DEF t
    <3> QED BY <3>1, OneBehind DEF MetaOK
  <2>2. meta' = meta \/ meta' = [meta EXCEPT !.keys = t]
    BY <1>2 DEF RecordKey, MetaOK
  <2> HIDE DEF t
  <2> QED BY <2>1, <2>2 DEF MetaOK
<1>3. ASSUME NEW a, NEW b, IsSeq(a), IsSeq(b), RecordLeft(a, b) PROVE MetaOK'
  <2> DEFINE un == [m \in DOMAIN a |-> Append(path, Seg(a[m]))]
             us == [m \in DOMAIN b |-> Append(path, Seg(b[m]))]
             c  == meta.unused \o un
             d  == meta.unset \o us
  <2>1. meta' = meta \/ meta' = [meta EXCEPT !.unused = c, !.unset = d]
    BY <1>3 DEF RecordLeft, MetaOK
  <2>2. IsSeq(un) /\ IsSeq(us)
    BY <1>3, LeftPaths
  <2> HIDE DEF un, us
  <2>3. IsSeq(c) /\ IsSeq(d)
    <3> HIDE DEF c, d
    <3>1. c = meta.unused \o un /\ d = meta.unset \o us
      BY DEF c, d
    <3> QED BY <2>2, <3>1, Joined DEF MetaOK
  <2> HIDE DEF c, d
  <2> QED BY <2>1, <2>3 DEF MetaOK
<1> QED BY <1>1, <1>2, <1>3 DEF MetaStep

\* What is below a path of the remain field is below the field.
LEMMA DeeperInRemain ==
  ASSUME NEW n, InRemain(n, path), IsSeq(path), NEW s
  PROVE  InRemain(n, Append(path, s))
<1>1. path # << >> /\ Len(path) \in Nat
  BY DEF InRemain, IsSeq
<1>2. Len(path) >= 1
  BY <1>1 DEF IsSeq
<1> DEFINE t == Append(path, s)
<1>3. Len(t) = Len(path) + 1 /\ \A m \in 1 .. Len(path) : t[m] = path[m]
  <2> HIDE DEF t
  <2>1. t = Append(path, s)
    BY DEF t
  <2> QED BY <2>1, OneBehind
<1>4. t # << >> /\ t[1] = path[1]
  <2> HIDE DEF t
  <2>1. 1 \in 1 .. Len(path)
    BY <1>1, <1>2
  <2>2. Len(t) # 0
    BY <1>1, <1>3
  <2> QED BY <1>3, <2>1, <2>2
<1> QED BY <1>4 DEF InRemain

\* Behind entries of one kind come more of them.
LEMMA AllJoined ==
  ASSUME NEW n, NEW s, IsSeq(s), NEW t, IsSeq(t), NEW c, c = s \o t,
         \A m \in DOMAIN s : InRemain(n, s[m]), \A m \in DOMAIN t : InRemain(n, t[m])
  PROVE  \A m \in DOMAIN c : InRemain(n, c[m])
<1>1. /\ Len(s) \in Nat /\ Len(t) \in Nat /\ DOMAIN c = 1 .. Len(s) + Len(t)
      /\ \A m \in 1 .. Len(s) : c[m] = s[m]
      /\ \A m \in 1 .. Len(t) : c[Len(s) + m] = t[m]
      /\ DOMAIN s = 1 .. Len(s) /\ DOMAIN t = 1 .. Len(t)
  BY Joined
<1>2. ASSUME NEW m \in DOMAIN c PROVE InRemain(n, c[m])
  <2>1. CASE m \in 1 .. Len(s)
    BY <1>1, <2>1
  <2>2. CASE m \notin 1 .. Len(s)
    <3>1. m - Len(s) \in 1 .. Len(t) /\ m = Len(s) + (m - Len(s))
      BY <1>1, <2>2
    <3>2. c[m] = t[m - Len(s)]
      BY <1>1, <3>1
    <3> QED BY <1>1, <3>1, <3>2
  <2> QED BY <2>1, <2>2
<1> QED BY <1>2

\* The metadata of what is converted in the remain field comes behind.
LEMMA MetaOfMore ==
  ASSUME NEW n, MetaOK, MetaOf(n, meta), InRemain(n, path), IsSeq(path), MetaStep
  PROVE  MetaOf(n, meta')
<1> SUFFICES ASSUME cfg.meta PROVE MetaOf(n, meta')
  BY DEF MetaOf
<1>1. /\ \E k \in 0 .. Len(meta.keys) :
           /\ Lists(meta.keys, 1, k, Given1(n), FieldPaths(n))
           /\ \A m \in k + 1 .. Len(meta.keys) : InRemain(n, meta.keys[m])
      /\ \A m \in DOMAIN meta.unused : InRemain(n, meta.unused[m])
      /\ \A m \in DOMAIN meta.unset : InRemain(n, meta.unset[m])
  BY DEF MetaOf
<1>2. CASE meta' = meta
  BY <1>2
<1>3. CASE RecordKey(path)
  <2> DEFINE s == meta.keys
             t == Append(s, path)
  <2>1. meta' = [meta EXCEPT !.keys = t]
    BY <1>3 DEF RecordKey, MetaOK
  <2>2. IsSeq(s)
    BY DEF MetaOK
  <2>3. PICK k \in 0 .. Len(s) :
          /\ Lists(s, 1, k, Given1(n), FieldPaths(n))
          /\ \A m \in k + 1 .. Len(s) : InRemain(n, s[m])
    BY <1>1
  <2> HIDE DEF s
  <2>4. /\ Len(s) \in Nat /\ Len(t) = Len(s) + 1 /\ t[Len(s) + 1] = path
        /\ \A m \in 1 .. Len(s) : t[m] = s[m]
    <3> HIDE DEF t
    <3>1. t = Append(s, path)
      BY DEF t
    <3> QED BY <2>2, <3>1, OneBehind
  <2> HIDE DEF t
  <2>5. \A m \in 1 .. k : t[m] = s[m]
    BY <2>3, <2>4
  <2>6. Lists(t, 1, k, Given1(n), FieldPaths(n))
    BY <2>3, <2>5, ListsSame
  <2>7. ASSUME NEW m \in k + 1 .. Len(t) PROVE InRemain(n, t[m])
    <3>1. CASE m = Len(s) + 1
      BY <2>4, <3>1
    <3>2. CASE m # Len(s) + 1
      <4>1. m \in k + 1 .. Len(s) /\ m \in 1 .. Len(s)
        BY <2>3, <2>4, <3>2
      <4> QED BY <2>3, <2>4, <4>1
    <3> QED BY <3>1, <3>2
  <2>8. k \in 0 .. Len(t)
    BY <2>3, <2>4
  <2>9. meta'.keys = t /\ meta'.unused = meta.unused /\ meta'.unset = meta.unset
    BY <2>1 DEF MetaOK
  <2>10. \E l \in 0 .. Len(meta'.keys) :
           /\ Lists(meta'.keys, 1, l, Given1(n), FieldPaths(n))
           /\ \A m \in l + 1 .. Len(meta'.keys) : InRemain(n, meta'.keys[m])
    BY <2>6, <2>7, <2>8, <2>9
  <2> QED BY <1>1, <2>9, <2>10 DEF MetaOf
<1>4. ASSUME NEW a, NEW b, IsSeq(a), IsSeq(b), RecordLeft(a, b) PROVE MetaOf(n, meta')
  <2> DEFINE un == [m \in DOMAIN a |-> Append(path, Seg(a[m]))]
             us == [m \in DOMAIN b |-> Append(path, Seg(b[m]))]
             c  == meta.unused \o un
             d  == meta.unset \o us
  <2>1. meta' = [meta EXCEPT !.unused = c, !.unset = d]
    BY <1>4 DEF RecordLeft, MetaOK
  <2>2. IsSeq(un) /\ IsSeq(us)
    BY <1>4, LeftPaths
  <2>3. (\A m \in DOMAIN un : InRemain(n, un[m])) /\ (\A m \in DOMAIN us : InRemain(n, us[m]))
    BY DeeperInRemain
  <2> HIDE DEF un, us
  <2>4. (\A m \in DOMAIN c : InRemain(n, c[m])) /\ (\A m \in DOMAIN d : InRemain(n, d[m]))
    <3> DEFINE x == meta.unused
               y == meta.unset
    <3> HIDE DEF c, d
    <3>1. c = x \o un /\ d = y \o us /\ IsSeq(x) /\ IsSeq(y)
      BY DEF c, d, MetaOK
    <3>2. (\A m \in DOMAIN x : InRemain(n, x[m])) /\ (\A m \in DOMAIN y : InRemain(n, y[m]))
      BY <1>1
    <3> HIDE DEF x, y
    <3>3. \A m \in DOMAIN c : InRemain(n, c[m])
      BY <2>2, <2>3, <3>1, <3>2, AllJoined
    <3>4. \A m \in DOMAIN d : InRemain(n, d[m])
      BY <2>2, <2>3, <3>1, <3>2, AllJoined
    <3> QED BY <3>3, <3>4
  <2> HIDE DEF c, d
  <2>5. meta'.keys = meta.keys /\ meta'.unused = c /\ meta'.unset = d
    <3>1. DOMAIN meta = {"keys", "unused", "unset"}
      BY DEF MetaOK
    <3> HIDE DEF MetaOK
    <3> QED BY <2>1, <3>1
  <2> QED BY <1>1, <2>4, <2>5 DEF MetaOf
<1> QED BY <1>2, <1>3, <1>4 DEF MetaStep

\* A step of a function higher up leaves the second one alone.
LEMMA HigherUp ==
  ASSUME Base, ~Idle, Len(stack) > 2, EngineStep
  PROVE  /\ Len(stack') \in Len(stack) - 1 .. Len(stack) + 1 /\ Len(stack) \in Nat /\ stack' # << >>
         /\ \A m \in 1 .. Len(stack) - 1 : stack'[m] = stack[m]
<1>1. StackOK /\ Inv /\ TypedInv
  BY DEF Base, Inv
<1>2. TypedStep
  BY <1>1, ConvertTyped, ContainersTyped, StructsTyped DEF EngineStep
<1>3. Len(stack) \in Nat
  BY <1>1 DEF StackOK, IsSeq
<1>4. /\ Len(stack') \in Len(stack) - 1 .. Len(stack) + 1
      /\ \A m \in 1 .. Len(stack) - 1 : stack'[m] = stack[m]
  <2>1. ASSUME NEW f, Become(f) PROVE Len(stack') = Len(stack) /\ \A m \in 1 .. Len(stack) - 1 : stack'[m] = stack[m]
    BY <1>1, <2>1, BecomeIs
  <2>2. ASSUME NEW f, NEW c, Call(f, c)
        PROVE  Len(stack') = Len(stack) + 1 /\ \A m \in 1 .. Len(stack) - 1 : stack'[m] = stack[m]
    BY <1>1, <2>2, CallIs
  <2>3. ASSUME NEW v, Return(v) PROVE Len(stack') = Len(stack) - 1 /\ \A m \in 1 .. Len(stack) - 1 : stack'[m] = stack[m]
    BY <1>1, <2>3, ReturnIs
  <2>4. \/ \E f : Become(f)
        \/ \E f, c : Call(f, c)
        \/ \E v : Return(v)
    BY <1>2 DEF TypedStep
  <2>5. \/ Len(stack') = Len(stack) \/ Len(stack') = Len(stack) + 1 \/ Len(stack') = Len(stack) - 1
    BY <2>1, <2>2, <2>3, <2>4
  <2>6. \A m \in 1 .. Len(stack) - 1 : stack'[m] = stack[m]
    BY <2>1, <2>2, <2>3, <2>4
  <2> QED BY <1>3, <2>5, <2>6
<1> QED BY <1>3, <1>4

\* The path starts where it did as long as it does not end there.
LEMMA FirstStays ==
  ASSUME IsSeq(path), path # << >>, PathStep, Len(path') >= 1
  PROVE  path' # << >> /\ path'[1] = path[1]
<1>1. Len(path) \in Nat /\ Len(path) >= 1 /\ 1 \in 1 .. Len(path)
  BY DEF IsSeq
<1>2. CASE path' = path
  BY <1>2
<1>3. ASSUME NEW s, path' = Append(path, s) PROVE path'[1] = path[1]
  <2>1. \A m \in 1 .. Len(path) : path'[m] = path[m]
    BY <1>3, OneBehind
  <2> QED BY <1>1, <2>1
<1>4. CASE path' = SubSeq(path, 1, Len(path) - 1)
  <2>1. PICK W : path \in Seq(W)
    BY DEF IsSeq
  <2>2. Len(path') = Len(path) - 1 /\ \A m \in 1 .. Len(path) - 1 : path'[m] = path[m]
    BY <1>1, <1>4, <2>1, FrontIs
  <2>3. 1 \in 1 .. Len(path) - 1
    BY <1>1, <2>2
  <2> QED BY <2>2, <2>3
<1>5. path' # << >>
  <2>1. Len(<< >>) = 0
    OBVIOUS
  <2> QED BY <2>1
<1> QED BY <1>2, <1>3, <1>4, <1>5 DEF PathStep, Push, Pop

\* The remain field is being converted, in functions higher up.
LEMMA RemainingAbove ==
  ASSUME NEW n, Running(n), Remaining(n, Now), Len(stack) > 2, EngineStep
  PROVE  GoesTo(n)
<1> DEFINE r == Info[Into(n)].remain
<1>1. /\ Base /\ Inv /\ ErrInv /\ TypedInv /\ MetaOK /\ ~Idle /\ Len(stack) \in Nat
      /\ stack[2].op = "remainDone" /\ r # 0 /\ stack[2].left = << >>
      /\ Wrapping(n, stack[2], errs, meta)
      /\ path # << >> /\ path[1] = FieldName(n, r)
      /\ \A m \in 3 .. Len(stack) : stack[m].at >= 1
  BY DEF Running, Base, Remaining, Now, Inv, StackOK, IsSeq
<1>2. StackOK /\ PathOK /\ IsSeq(path)
  BY <1>1 DEF Inv, StackOK
<1>3. Inv'
  BY <1>1, StackStep DEF EngineStep, Next
<1>4. /\ Len(stack') \in Len(stack) - 1 .. Len(stack) + 1 /\ stack' # << >>
      /\ \A m \in 1 .. Len(stack) - 1 : stack'[m] = stack[m]
  BY <1>1, HigherUp
<1>5. Len(stack') >= 2 /\ Len(stack') \in Nat /\ stack'[2] = stack[2]
  <2>1. 2 \in 1 .. Len(stack) - 1
    BY <1>1
  <2> QED BY <1>1, <1>4, <2>1
<1>6. /\ \A m \in 1 .. Len(stack') : FrameOK(stack'[m])
      /\ \A m \in 1 .. Len(stack') - 1 : stack'[m + 1].at = Depth(stack'[m])
      /\ Len(path') = Depth(stack'[Len(stack')])
  BY <1>3, <1>4 DEF Inv, StackOK, PathOK, Idle, Depth
<1>7. ASSUME NEW m \in 1 .. Len(stack')
      PROVE  /\ stack'[m].at \in Nat /\ Depth(stack'[m]) \in Nat /\ Depth(stack'[m]) >= stack'[m].at
             /\ stack'[m].op = "remainDone" => Depth(stack'[m]) >= 1
  <2>1. stack'[m].at \in Nat
    BY <1>6 DEF FrameOK
  <2> QED BY <2>1 DEF Depth, Pushing
<1>8. ASSUME NEW m \in 2 .. Len(stack) - 1 PROVE Depth(stack'[m]) >= 1
  <2>1. m \in 1 .. Len(stack') /\ m \in 1 .. Len(stack) - 1
    BY <1>1, <1>4, <1>5
  <2>2. CASE m = 2
    BY <1>1, <1>5, <1>7, <2>1, <2>2
  <2>3. CASE m # 2
    <3>1. m \in 3 .. Len(stack)
      BY <1>1, <2>3
    <3>2. stack'[m].at >= 1
      BY <1>1, <1>4, <2>1, <3>1
    <3> QED BY <1>7, <2>1, <3>2
  <2> QED BY <2>2, <2>3
<1>9. ASSUME NEW m \in 3 .. Len(stack') PROVE stack'[m].at >= 1
  <2>1. m - 1 \in 1 .. Len(stack') - 1 /\ m - 1 \in 1 .. Len(stack') /\ m - 1 + 1 = m
    BY <1>5
  <2>2. stack'[m].at = Depth(stack'[m - 1])
    BY <1>6, <2>1
  <2>3. CASE m - 1 \in 2 .. Len(stack) - 1
    BY <1>8, <2>2, <2>3
  <2>4. CASE m - 1 \notin 2 .. Len(stack) - 1
    <3>1. m - 1 = Len(stack) /\ Len(stack) - 1 \in 2 .. Len(stack) - 1
          /\ Len(stack) - 1 \in 1 .. Len(stack') - 1 /\ Len(stack) - 1 + 1 = Len(stack)
          /\ Len(stack) \in 1 .. Len(stack')
      BY <1>1, <1>4, <1>5, <2>4
    <3>2. Depth(stack'[Len(stack) - 1]) >= 1
      BY <1>8, <3>1
    <3>3. stack'[Len(stack)].at = Depth(stack'[Len(stack) - 1])
      BY <1>6, <3>1
    <3>4. Depth(stack'[Len(stack)]) >= 1
      BY <1>7, <3>1, <3>2, <3>3
    <3> QED BY <2>2, <3>1, <3>4
  <2> QED BY <2>3, <2>4
<1>10. Len(path') >= 1
  <2>1. Len(stack') \in 1 .. Len(stack')
    BY <1>5
  <2>2. CASE Len(stack') = 2
    BY <1>1, <1>5, <1>6, <1>7, <2>1, <2>2
  <2>3. CASE Len(stack') # 2
    <3>1. Len(stack') \in 3 .. Len(stack')
      <4> DEFINE high == Len(stack')
      <4>1. high \in Nat /\ high >= 2 /\ high # 2
        BY <1>5, <2>3
      <4> HIDE DEF high
      <4>2. high \in 3 .. high
        BY <4>1
      <4> QED BY <4>2 DEF high
    <3>2. stack'[Len(stack')].at >= 1
      BY <1>9, <3>1
    <3> QED BY <1>6, <1>7, <2>1, <3>2
  <2> QED BY <2>2, <2>3
<1>11. path' # << >> /\ path'[1] = FieldName(n, r)
  <2>1. PathStep
    BY PathSteps DEF EngineStep
  <2> QED BY <1>1, <1>2, <1>10, <2>1, FirstStays
<1>12. InRemain(n, path)
  BY <1>1 DEF InRemain, FieldName
<1>13. ErrorsOf(n, errs')
  <2>1. ErrorStep
    BY ConvertErrors, ContainerErrors, StructErrors DEF EngineStep
  <2>2. NoErrors \/ \E e : Fail(e)
    BY <1>1, <2>1 DEF ErrorStep, NoErrors
  <2>3. PICK e : NoErrors \/ Fail(e)
    BY <2>2
  <2>4. Elsewhere(n, [path |-> path, err |-> e])
    BY <1>1, <1>12 DEF Elsewhere
  <2>5. ErrorsOf(n, errs)
    BY <1>1 DEF Wrapping
  <2> QED BY <1>1, <2>3, <2>4, <2>5, ErrorsStay
<1>14. MetaOf(n, meta')
  <2>1. MetaStep
    BY <1>1, MetaSteps DEF EngineStep
  <2>2. MetaOf(n, meta)
    BY <1>1 DEF Wrapping
  <2> QED BY <1>1, <1>2, <1>12, <2>1, <2>2, MetaOfMore
<1>15. Wrapping(n, stack'[2], errs', meta')
  <2>1. Filled(n, stack[2].cur, Given1(n))
    BY <1>1 DEF Wrapping
  <2> QED BY <1>1, <1>5, <1>13, <1>14, <2>1, StillWrapping
<1>16. PICK z : /\ z = Now' /\ z.stack = stack' /\ z.ret = ret' /\ z.errs = errs' /\ z.stopped = stopped'
                /\ z.path = path' /\ z.weak = weak' /\ z.meta = meta'
  BY NextState
<1>17. Remaining(n, z)
  BY <1>1, <1>5, <1>9, <1>11, <1>15, <1>16 DEF Remaining
<1> QED BY <1>16, <1>17 DEF GoesTo, OnItsWay

\* The converted remain field is back.
LEMMA RemainBack ==
  ASSUME NEW n, Running(n), Remaining(n, Now), Len(stack) = 2, EngineStep
  PROVE  GoesTo(n)
<1> DEFINE r == Info[Into(n)].remain
<1>1. /\ Base /\ Inv /\ ErrInv /\ TypedInv /\ MetaOK /\ ~Idle /\ Top = stack[2]
      /\ Top.op = "remainDone" /\ r # 0 /\ Top.left = << >> /\ DOMAIN Top = FrameFields
      /\ Wrapping(n, Top, errs, meta) /\ Top.dt = Into(n)
      /\ Into(n) \in DOMAIN Types /\ Flattish(n)
  BY OneAbove DEF Running, Base, Remaining, Now, Wrapping
<1>2. RemainDone
  <2>1. Top.op \notin Stages /\ Top.op \in FlatOps
    BY <1>1 DEF Stages, FlatOps
  <2> QED BY <1>1, <2>1, ConvertSteps, ContainerSteps, StructSteps DEF EngineStep
<1> DEFINE slot == IF ret.t = RemainType(Top) THEN ret ELSE Holding(RemainType(Top), <<ret>>)
           out  == [Top.cur EXCEPT !.kids[r] = slot]
           g    == [Top EXCEPT !.op = "finishStruct", !.cur = out]
<1>3. Become(g) /\ NoErrors /\ meta' = meta
  <2>1. Become([Top EXCEPT !.op = "finishStruct", !.cur.kids[r] = slot]) /\ NoErrors /\ meta' = meta
    BY <1>1, <1>2 DEF RemainDone
  <2> HIDE DEF slot
  <2> QED BY <1>1, <2>1 DEF FrameFields
<1> HIDE DEF slot
<1>4. /\ DOMAIN out.kids = DOMAIN Top.cur.kids
      /\ \A j \in DOMAIN out.kids : j # r => out.kids[j] = Top.cur.kids[j]
  <2>1. Tuple4(Top.cur)
    BY <1>1, TopTyped, TypedIs DEF Of
  <2>2. out.kids = [Top.cur.kids EXCEPT ![r] = slot]
    BY <2>1 DEF Tuple4
  <2> QED BY <2>2
<1> HIDE DEF out
<1>5. /\ g.op = "finishStruct" /\ g.cur = out /\ g.dt = Top.dt /\ g.got = Top.got /\ g.left = << >>
  BY <1>1 DEF FrameFields
<1> HIDE DEF g
<1>6. r \notin Named(Into(n)) /\ Given1(n) \subseteq Named(Into(n))
  <2>1. Types[Into(n)].kind = "struct" /\ Given1(n) \subseteq Named(Into(n))
    BY <1>1, FlatIs
  <2> QED BY <1>1, <2>1, FieldsAre
<1>7. Filled(n, out, Given1(n)) /\ ErrorsOf(n, errs) /\ MetaOf(n, meta)
  <2>1. Filled(n, Top.cur, Given1(n)) /\ ErrorsOf(n, errs) /\ MetaOf(n, meta)
    BY <1>1 DEF Wrapping
  <2> QED BY <1>4, <1>6, <2>1 DEF Filled
<1>8. errs' = errs
  BY <1>3 DEF NoErrors
<1>9. Wrapping(n, g, errs', meta')
  BY <1>1, <1>3, <1>5, <1>7, <1>8, StillWrapping
<1>10. Len(stack') = 2 /\ stack'[2] = g
  BY <1>1, <1>3, OneAbove
<1>11. PICK z : /\ z = Now' /\ z.stack = stack' /\ z.ret = ret' /\ z.errs = errs' /\ z.stopped = stopped'
                /\ z.path = path' /\ z.weak = weak' /\ z.meta = meta'
  BY NextState
<1>12. Finishing(n, z)
  BY <1>5, <1>9, <1>10, <1>11 DEF Finishing
<1> QED BY <1>11, <1>12 DEF GoesTo, OnItsWay

-----------------------------------------------------------------------------
(* The invariant.                                                          *)

\* A flat call that is on its way stays so, whatever step it takes.
LEMMA FlatGoes ==
  ASSUME NEW n, Running(n), OnItsWay(n, Now), EngineStep
  PROVE  GoesTo(n)
<1>1. CASE Remaining(n, Now)
  <2>1. Len(stack) >= 2 /\ Len(stack) \in Nat
    BY <1>1 DEF Remaining, Now, Running, Base, Inv, StackOK, IsSeq
  <2>2. CASE Len(stack) = 2
    BY <1>1, <2>2, RemainBack
  <2>3. CASE Len(stack) > 2
    BY <1>1, <2>3, RemainingAbove
  <2> QED BY <2>1, <2>2, <2>3
<1>2. ~Over(n, Now)
  <2> SUFFICES ASSUME Len(stack) = 1 PROVE FALSE
    BY DEF Over, Now
  <2>1. Top.op = "run"
    BY DEF Running, Base, TypedInv, OutcomesTyped, Top
  <2> QED BY <2>1, Undisturbed DEF EngineStep
<1> QED BY <1>1, <1>2, OpeningGoes, MatchingGoes, AssigningGoes, CastingGoes, FieldBackGoes, FinishingGoes DEF OnItsWay

\* Where the call being made is to go has a type.
LEMMA IntoIs ==
  ASSUME SessionOK, NEW n \in 1 .. Len(Plan)
  PROVE  Into(n) \in DOMAIN Types
<1>1. DOMAIN Plan = 1 .. Len(Plan)
  BY ScenariosAssumption DEF SessionOK, Plan
<1> QED BY <1>1, ScenariosAssumption DEF SessionOK, Plan, Into

\* The call being made is one of the plan.
LEMMA CurrentIs ==
  ASSUME SessionOK, Len(results) < Len(Plan)
  PROVE  /\ Len(results) \in Nat /\ Len(Plan) \in Nat
         /\ Current \in 1 .. Len(Plan) /\ Current <= Len(Plan) /\ Current \in 1 .. Len(results) + 1
         /\ Current = Len(results) + 1
<1>1. Len(results) \in Nat /\ Len(Plan) \in Nat
  BY ScenariosAssumption DEF SessionOK, IsSeq, Plan
<1> QED BY <1>1 DEF Current

\* What was kept of a finished call stays kept when calls are added.
LEMMA FlatKeptStays ==
  ASSUME SessionOK, FlatCallsOK, scen' = scen, Outcomes(results'), Len(results) <= Len(Plan),
         NEW n \in 1 .. Len(results), Flattish(n)'
  PROVE  \A dst, es, mt : /\ dst = results'[n].dst /\ es = results'[n].errs /\ mt = results'[n].meta
                          => Kept(n, dst, es, mt)'
<1>1. Len(results) \in Nat
  BY DEF SessionOK, IsSeq
<1>2. n \in 1 .. Len(results) + 1 /\ n <= Len(Plan)
  <2>1. Len(Plan) \in Nat
    BY ScenariosAssumption DEF SessionOK, Plan
  <2> QED BY <1>1, <2>1
<1>3. Given(n)' = Given(n) /\ Before(n)' = Before(n) /\ Into(n)' = Into(n)
  BY <1>2, InputsStay
<1>4. \A dst, es, mt : Kept(n, dst, es, mt)' <=> Kept(n, dst, es, mt)
  BY <1>3, KeptSame
<1>5. Flattish(n)
  BY <1>3, FlatDataSame
<1>6. results'[n] = results[n]
  BY DEF Outcomes
<1> QED BY <1>4, <1>5, <1>6 DEF FlatCallsOK

\* A call starts at the opening.
LEMMA FlatStarts ==
  ASSUME FlatInv, StartCall
  PROVE  FlatCallsOK' /\ FlatRunningOK' /\ MetaOK'
<1>1. /\ Idle /\ Len(results) < Len(Plan) /\ scen' = scen /\ results' = results
      /\ errs' = << >> /\ stopped' = FALSE /\ weak' = cfg.weakTypes /\ path' = path /\ meta' = NoMeta
  BY DEF StartCall
<1>2. SessionOK /\ Outcomes(results') /\ Len(results) \in Nat /\ Len(results) <= Len(Plan)
  BY <1>1 DEF Outcomes, FlatInv, Base, SessionOK, IsSeq, SessionWithin
<1>3. FlatCallsOK'
  BY <1>1, <1>2, FlatKeptStays DEF FlatInv, FlatCallsOK
<1>4. ASSUME NEW n, n = Current', Flattish(n)' PROVE \E z : z = Now' /\ OnItsWay(n, z)'
  <2>1. n = Len(results) + 1 /\ n \in 1 .. Len(results) + 1 /\ n <= Len(Plan)
    BY <1>1, <1>2, <1>4, CurrentIs DEF Current
  <2>2. Given(n)' = Given(n) /\ Before(n)' = Before(n) /\ Into(n)' = Into(n)
    BY <1>1, <1>2, <2>1, InputsStay
  <2>3. \A z : OnItsWay(n, z)' <=> OnItsWay(n, z)
    BY <1>1, <2>2, OnItsWaySame
  <2> DEFINE r == Frame("run", Given(n), Before(n), Into(n), NoTag)
             c == ConvertFrame(Given(n), Before(n), Into(n), NoTag)
  <2>4. stack' = <<r, c>>
    BY <2>1 DEF StartCall, Given, Before, Into
  <2>5. c.op = "convert" /\ c.src = Given(n) /\ c.cur = Before(n) /\ c.dt = Into(n)
    BY DEF Frame, ConvertFrame
  <2> HIDE DEF r, c
  <2>6. Len(stack') = 2 /\ stack'[2] = c
    BY <2>4
  <2>7. PICK z : /\ z = Now' /\ z.stack = stack' /\ z.ret = ret' /\ z.errs = errs' /\ z.stopped = stopped'
                 /\ z.path = path' /\ z.weak = weak' /\ z.meta = meta'
    BY NextState
  <2>8. Opening(n, z)
    BY <1>1, <2>5, <2>6, <2>7 DEF Opening, Stages
  <2> QED BY <2>3, <2>7, <2>8 DEF OnItsWay
<1>5. FlatRunningOK'
  BY <1>4 DEF FlatRunningOK
<1>6. MetaOK'
  BY <1>1, NoKeys DEF MetaOK, NoMeta
<1> QED BY <1>3, <1>5, <1>6

\* A call that ends has kept it.
LEMMA FlatEnds ==
  ASSUME FlatInv, EndCall
  PROVE  FlatCallsOK' /\ FlatRunningOK' /\ MetaOK'
<1> DEFINE r == [dst |-> ret, errs |-> errs, meta |-> meta]
<1>1. /\ ~Idle /\ Top.op = "run" /\ results' = Append(results, r) /\ stack' = << >> /\ Idle'
      /\ scen' = scen /\ meta' = meta
  BY DEF EndCall, At, Idle
<1>2. r.dst = ret /\ r.errs = errs /\ r.meta = meta
  OBVIOUS
<1> HIDE DEF r
<1>3. SessionOK /\ IsSeq(results) /\ Len(results) < Len(Plan) /\ Base
  BY <1>1 DEF FlatInv, Base, SessionOK
<1>4. /\ IsSeq(results') /\ Len(results) \in Nat /\ Len(results') = Len(results) + 1
      /\ \A m \in 1 .. Len(results) : results'[m] = results[m]
      /\ results'[Len(results) + 1] = r
  <2>1. PICK S : results \in Seq(S)
    BY <1>3 DEF IsSeq
  <2>2. results \in Seq(S \union {r}) /\ Len(results) \in Nat
    BY <2>1
  <2>3. /\ results' \in Seq(S \union {r}) /\ Len(results') = Len(results) + 1
        /\ \A m \in 1 .. Len(results) : results'[m] = results[m]
        /\ results'[Len(results) + 1] = r
    BY <1>1, <2>2
  <2> QED BY <2>2, <2>3 DEF IsSeq
<1>5. Outcomes(results') /\ Len(Plan) \in Nat /\ Len(results) <= Len(Plan)
  BY <1>3, <1>4, CurrentIs DEF Outcomes
<1>6. ASSUME NEW n, n = Len(results) + 1, Flattish(n)'
      PROVE  Kept(n, ret, errs, meta)'
  <2>1. n = Current /\ n \in 1 .. Len(results) + 1 /\ n <= Len(Plan)
    BY <1>3, <1>6, CurrentIs
  <2>2. Given(n)' = Given(n) /\ Before(n)' = Before(n) /\ Into(n)' = Into(n)
    BY <1>1, <1>3, <1>5, <2>1, InputsStay
  <2>3. Flattish(n)
    BY <1>1, <1>6, <2>2, FlatDataSame
  <2>4. PICK z : z = Now /\ OnItsWay(n, z)
    BY <1>1, <2>1, <2>3 DEF FlatInv, FlatRunningOK
  <2>5. Len(stack) = 1
    <3>1. Len(stack) \in Nat \ {0} /\ Top = stack[Len(stack)] /\ PathOK
      BY <1>1, <1>3 DEF Base, Inv, StackOK, IsSeq, Idle, Top
    <3>2. Len(stack) # 1 => Len(stack) \in 2 .. Len(stack)
      BY <3>1
    <3> QED BY <1>1, <3>1, <3>2 DEF PathOK
  <2>6. Over(n, z)
    <3>1. Len(z.stack) = 1
      BY <2>4, <2>5 DEF Now
    <3>2. ~Opening(n, z) /\ ~Matching(n, z) /\ ~Assigning(n, z)
      BY <3>1 DEF Opening, Matching, Assigning
    <3>3. ~Casting(n, z) /\ ~FieldBack(n, z)
      BY <3>1 DEF Casting, FieldBack
    <3>4. ~Finishing(n, z) /\ ~Remaining(n, z)
      BY <3>1 DEF Finishing, Remaining
    <3> QED BY <2>4, <3>2, <3>3, <3>4 DEF OnItsWay
  <2>7. Kept(n, ret, errs, meta)
    BY <2>4, <2>6 DEF Over, Now
  <2>8. \A dst, es, mt : Kept(n, dst, es, mt)' <=> Kept(n, dst, es, mt)
    BY <1>1, <2>2, KeptSame
  <2>9. ret' = ret /\ errs' = errs /\ meta' = meta
    BY DEF EndCall
  <2> QED BY <2>7, <2>8, <2>9
<1>7. FlatCallsOK'
  <2> SUFFICES ASSUME NEW n \in 1 .. Len(results'), Flattish(n)'
               PROVE  \A dst, es, mt :
                        /\ dst = results'[n].dst /\ es = results'[n].errs /\ mt = results'[n].meta
                        => Kept(n, dst, es, mt)'
    BY DEF FlatCallsOK
  <2>1. CASE n \in 1 .. Len(results)
    BY <1>1, <1>3, <1>5, <2>1, FlatKeptStays DEF FlatInv
  <2>2. CASE n = Len(results) + 1
    <3>1. results'[n].dst = ret /\ results'[n].errs = errs /\ results'[n].meta = meta
      BY <1>2, <1>4, <2>2
    <3>2. ret' = ret /\ errs' = errs /\ meta' = meta
      BY DEF EndCall
    <3>3. Kept(n, ret, errs, meta)'
      BY <1>6, <2>2
    <3> QED BY <3>1, <3>2, <3>3
  <2> QED BY <1>4, <2>1, <2>2
<1>8. FlatRunningOK'
  BY <1>1 DEF FlatRunningOK
<1>9. MetaOK'
  BY <1>1, <1>3 DEF Base, MetaOK
<1> QED BY <1>7, <1>8, <1>9

\* A step of the engine keeps a flat call on its way.
LEMMA FlatMoves ==
  ASSUME FlatInv, EngineStep
  PROVE  FlatCallsOK' /\ FlatRunningOK' /\ MetaOK'
<1>1. ~Idle /\ scen' = scen /\ results' = results
  BY Undisturbed DEF EngineStep
<1>2. SessionOK /\ Base /\ Len(results) < Len(Plan) /\ Outcomes(results') /\ Len(results) <= Len(Plan)
  BY <1>1 DEF FlatInv, Base, SessionOK, SessionWithin, Outcomes
<1>3. FlatCallsOK'
  BY <1>1, <1>2, FlatKeptStays DEF FlatInv, FlatCallsOK
<1>4. ASSUME NEW n, n = Current', Flattish(n)' PROVE \E z : z = Now' /\ OnItsWay(n, z)'
  <2>1. n = Current /\ n \in 1 .. Len(results) + 1 /\ n <= Len(Plan) /\ n \in 1 .. Len(Plan)
    BY <1>1, <1>2, <1>4, CurrentIs DEF Current
  <2>2. Given(n)' = Given(n) /\ Before(n)' = Before(n) /\ Into(n)' = Into(n)
    BY <1>1, <1>2, <2>1, InputsStay
  <2>3. \A z : OnItsWay(n, z)' <=> OnItsWay(n, z)
    BY <1>1, <2>2, OnItsWaySame
  <2>4. Flattish(n)
    BY <1>1, <1>4, <2>2, FlatDataSame
  <2>5. Running(n)
    BY <1>1, <1>2, <2>1, <2>4, IntoIs DEF Running
  <2>6. OnItsWay(n, Now)
    BY <1>1, <2>1, <2>4 DEF FlatInv, FlatRunningOK
  <2>7. GoesTo(n)
    BY <2>5, <2>6, FlatGoes
  <2> QED BY <2>3, <2>7 DEF GoesTo
<1>5. FlatRunningOK'
  BY <1>4 DEF FlatRunningOK
<1>6. MetaOK'
  <2>1. MetaStep /\ MetaOK
    BY <1>2, MetaSteps DEF EngineStep, Base
  <2> QED BY <2>1, MetaStays
<1> QED BY <1>3, <1>5, <1>6

\* Nothing else is done to a call.
LEMMA FlatStays ==
  ASSUME FlatInv, UNCHANGED vars
  PROVE  FlatCallsOK' /\ FlatRunningOK' /\ MetaOK'
<1>1. scen' = scen /\ results' = results /\ stack' = stack /\ Now' = Now /\ meta' = meta
  BY DEF vars, Now
<1>2. SessionOK /\ Base /\ Outcomes(results') /\ Len(results) <= Len(Plan)
  BY <1>1 DEF FlatInv, Base, SessionOK, SessionWithin, Outcomes
<1>3. FlatCallsOK'
  BY <1>1, <1>2, FlatKeptStays DEF FlatInv, FlatCallsOK
<1>4. ASSUME NEW n, n = Current', Flattish(n)', ~Idle' PROVE \E z : z = Now' /\ OnItsWay(n, z)'
  <2>1. ~Idle /\ n = Current /\ Len(results) < Len(Plan)
    BY <1>1, <1>2, <1>4 DEF Idle, Current, SessionOK
  <2>2. n \in 1 .. Len(results) + 1 /\ n <= Len(Plan)
    BY <1>2, <2>1, CurrentIs
  <2>3. Given(n)' = Given(n) /\ Before(n)' = Before(n) /\ Into(n)' = Into(n)
    BY <1>1, <1>2, <2>2, InputsStay
  <2>4. \A z : OnItsWay(n, z)' <=> OnItsWay(n, z)
    BY <1>1, <2>3, OnItsWaySame
  <2>5. Flattish(n)
    BY <1>1, <1>4, <2>3, FlatDataSame
  <2>6. \E z : z = Now /\ OnItsWay(n, z)
    BY <2>1, <2>5 DEF FlatInv, FlatRunningOK
  <2> QED BY <1>1, <2>4, <2>6
<1>5. FlatRunningOK'
  BY <1>4 DEF FlatRunningOK
<1>6. MetaOK'
  BY <1>1, <1>2 DEF Base, MetaOK
<1> QED BY <1>3, <1>5, <1>6

\* Every step of the engine keeps the invariant.
LEMMA FlatStep ==
  ASSUME FlatInv, [Next]_vars
  PROVE  FlatInv'
<1>1. FlatCallsOK' /\ FlatRunningOK' /\ MetaOK'
  BY FlatStarts, FlatEnds, FlatMoves, FlatStays DEF Next, Rest, EngineStep
<1>2. PipelineInv' /\ SessionWithin'
  BY PipelineStep DEF FlatInv, Base
<1>3. ErrInv'
  BY ReportStep DEF FlatInv, Base
<1>4. TypedInv'
  BY TypedNext DEF FlatInv, Base
<1> QED BY <1>1, <1>2, <1>3, <1>4 DEF FlatInv, Base, PipelineInv

\* Nothing has been called yet.
LEMMA FlatInit == Init => FlatInv
<1> SUFFICES ASSUME Init PROVE FlatInv
  OBVIOUS
<1>1. Idle /\ Len(results) = 0 /\ meta = NoMeta
  BY DEF Init, Idle
<1>2. FlatCallsOK /\ FlatRunningOK
  BY <1>1 DEF FlatCallsOK, FlatRunningOK
<1>3. MetaOK
  BY <1>1, NoKeys DEF MetaOK, NoMeta
<1> QED BY <1>2, <1>3, PipelineStart, ErrInit, TypedInit DEF FlatInv, Base, PipelineInv

\* What a finished flat call has kept.
LEMMA FlatKept ==
  ASSUME FlatInv, NEW n \in FlatCalls
  PROVE  /\ FieldsFilled(n, results[n].dst) /\ MisfitsReported(n, results[n].errs)
         /\ UnusedReported(n, results[n].errs) /\ (cfg.meta => AccountedFor(n, results[n].meta))
<1>1. n \in 1 .. Len(results) /\ Flattish(n)
  BY DEF FlatCalls, Calls, FlatInv, Base, SessionOK, IsSeq
<1>2. Kept(n, results[n].dst, results[n].errs, results[n].meta)
  BY <1>1 DEF FlatInv, FlatCallsOK
<1> QED BY <1>2 DEF Kept

-----------------------------------------------------------------------------
(* What a map -> struct conversion is promised to do.                      *)

\* For any flat struct, map and options: whatever order the keys are met in,
\* each field a key supplies ends with the converted value, an exact name
\* before one that folds; a nil, a misfit, a field nothing supplies and one
\* the limit cuts off leave it what it held.
THEOREM FieldsAlwaysFilled == Spec => []FillsEveryField
<1>1. FlatInv => FillsEveryField
  BY FlatKept DEF FillsEveryField
<1> QED BY <1>1, FlatInit, FlatStep, PTL DEF Spec

\* Every value that does not fit is reported, at the path of its field and in
\* the order of the fields, up to the limit, once, and nothing that fits is
\* reported as one.
THEOREM MisfitsAlwaysReported == Spec => []ReportsEveryMisfit
<1>1. FlatInv => ReportsEveryMisfit
  BY FlatKept DEF ReportsEveryMisfit
<1> QED BY <1>1, FlatInit, FlatStep, PTL DEF Spec

\* WithErrorUnused fails a call exactly when a key was left that no field
\* claims and no remain field takes, and the limit had not ended it before.
THEOREM UnusedAlwaysAnError == Spec => []UnusedIsAnError
<1>1. FlatInv => UnusedIsAnError
  BY FlatKept DEF UnusedIsAnError
<1> QED BY <1>1, FlatInit, FlatStep, PTL DEF Spec

\* Metadata lists every field once, as a key or as unset, in the order of the
\* fields, and the keys nothing claims as unused.
THEOREM AlwaysAccountsForEverything == Spec => []AccountsForEverything
<1>1. FlatInv => AccountsForEverything
  BY FlatKept DEF AccountsForEverything
<1> QED BY <1>1, FlatInit, FlatStep, PTL DEF Spec

-----------------------------------------------------------------------------
(* What follows for two calls that were given the same.                    *)

\* Of two lists of the same set none is longer, and their entries are the same.
LEMMA ListsOne ==
  ASSUME NEW S \in SUBSET Nat, NEW e, NEW s, NEW a \in Nat, NEW t, NEW b \in Nat,
         Lists(s, 1, a, S, e), Lists(t, 1, b, S, e)
  PROVE  a <= b /\ \A m \in 1 .. a : s[m] = t[m]
<1>1. PICK o \in [1 .. a -> S] :
        /\ \A m \in 1 .. a : s[m] = e[o[m]]
        /\ \A j \in S : \E m \in 1 .. a : o[m] = j
        /\ \A m, k \in 1 .. a : m < k => o[m] < o[k]
  BY DEF Lists
<1>2. PICK q \in [1 .. b -> S] :
        /\ \A m \in 1 .. b : t[m] = e[q[m]]
        /\ \A j \in S : \E m \in 1 .. b : q[m] = j
        /\ \A m, k \in 1 .. b : m < k => q[m] < q[k]
  BY DEF Lists
<1>3. /\ \A m \in 1 .. a : o[m] \in S /\ o[m] \in Nat
      /\ \A m \in 1 .. b : q[m] \in S /\ q[m] \in Nat
  OBVIOUS
<1> DEFINE Tied(m) == m <= b /\ o[m] = q[m]
           E == {m \in 1 .. a : ~Tied(m)}
<1>4. E = {}
  <2> SUFFICES ASSUME E # {} PROVE FALSE
    OBVIOUS
  <2>1. PICK m \in E : \A k \in E : m <= k
    <3>1. E \subseteq Nat
      OBVIOUS
    <3> HIDE DEF E
    <3> QED BY <3>1, Least
  <2>2. m \in 1 .. a /\ ~Tied(m)
    BY <2>1
  <2>3. \A k \in 1 .. a : k < m => k \in 1 .. b /\ o[k] = q[k]
    <3> SUFFICES ASSUME NEW k \in 1 .. a, k < m PROVE k \in 1 .. b /\ o[k] = q[k]
      OBVIOUS
    <3>1. k \notin E
      BY <2>1, <2>2
    <3> QED BY <3>1
  <2> HIDE DEF E
  <2>4. PICK j \in 1 .. b : q[j] = o[m]
    BY <1>2, <1>3, <2>2
  <2>5. ~(j < m)
    <3> SUFFICES ASSUME j < m PROVE FALSE
      OBVIOUS
    <3>1. j \in 1 .. a
      BY <2>2
    <3>2. o[j] = q[j] /\ o[j] < o[m]
      BY <1>1, <2>2, <2>3, <3>1
    <3>3. o[j] \in Nat /\ o[m] \in Nat
      BY <1>3, <2>2, <3>1
    <3> QED BY <2>4, <3>2, <3>3
  <2>6. m \in 1 .. b
    BY <2>2, <2>5
  <2>7. PICK l \in 1 .. a : o[l] = q[m]
    BY <1>1, <1>3, <2>6
  <2>8. ~(l < m)
    <3> SUFFICES ASSUME l < m PROVE FALSE
      OBVIOUS
    <3>1. l \in 1 .. b /\ o[l] = q[l]
      BY <2>3
    <3>2. q[l] < q[m]
      BY <1>2, <2>6, <3>1
    <3>3. q[l] \in Nat /\ q[m] \in Nat
      BY <1>3, <2>6, <3>1
    <3> QED BY <2>7, <3>1, <3>2, <3>3
  <2>9. o[m] <= q[m]
    <3>1. CASE l = m
      BY <1>3, <2>2, <2>7, <3>1
    <3>2. CASE l # m
      <4>1. m < l
        BY <2>2, <2>8, <3>2
      <4>2. o[m] < o[l]
        BY <1>1, <2>2, <4>1
      <4>3. o[m] \in Nat /\ o[l] \in Nat
        BY <1>3, <2>2
      <4> QED BY <2>7, <4>2, <4>3
    <3> QED BY <3>1, <3>2
  <2>10. q[m] <= o[m]
    <3>1. CASE j = m
      BY <1>3, <2>4, <2>6, <3>1
    <3>2. CASE j # m
      <4>1. m < j
        BY <2>2, <2>5, <3>2
      <4>2. q[m] < q[j]
        BY <1>2, <2>6, <4>1
      <4>3. q[m] \in Nat /\ q[j] \in Nat
        BY <1>3, <2>6
      <4> QED BY <2>4, <4>2, <4>3
    <3> QED BY <3>1, <3>2
  <2>11. o[m] = q[m]
    BY <1>3, <2>2, <2>6, <2>9, <2>10
  <2> QED BY <2>2, <2>6, <2>11
<1>5. \A m \in 1 .. a : m \in 1 .. b /\ o[m] = q[m]
  BY <1>4
<1> HIDE DEF E
<1>6. a <= b
  <2>1. CASE a = 0
    BY <2>1
  <2>2. CASE a # 0
    <3>1. a \in 1 .. a
      BY <2>2
    <3> QED BY <1>5, <3>1
  <2> QED BY <2>1, <2>2
<1>7. \A m \in 1 .. a : s[m] = t[m]
  BY <1>1, <1>2, <1>5
<1> QED BY <1>6, <1>7

\* What was kept of a call are lists.
AnswersAre ==
  \A n, es, mt :
    n \in 1 .. Len(results) /\ es = results[n].errs /\ mt = results[n].meta =>
      IsSeq(es) /\ IsSeq(mt.keys) /\ IsSeq(mt.unset)

\* They are when a call ends, and nothing changes them.
LEMMA AnswersStep == FlatInv /\ AnswersAre /\ [Next]_vars => AnswersAre'
<1> SUFFICES ASSUME FlatInv, AnswersAre, [Next]_vars PROVE AnswersAre'
  OBVIOUS
<1>1. CASE results' = results
  BY <1>1 DEF AnswersAre
<1>2. CASE EndCall
  <2> DEFINE r == [dst |-> ret, errs |-> errs, meta |-> meta]
  <2>1. results' = Append(results, r) /\ r.errs = errs /\ r.meta = meta
    BY <1>2 DEF EndCall
  <2>2. IsSeq(results) /\ IsSeq(errs) /\ IsSeq(meta.keys) /\ IsSeq(meta.unset)
    BY DEF FlatInv, Base, SessionOK, ErrInv, ErrsIsSeq, IsSeq, MetaOK
  <2> HIDE DEF r
  <2>3. \A n \in 1 .. Len(results') : (n \in 1 .. Len(results) /\ results'[n] = results[n]) \/ results'[n] = r
    <3>1. PICK S : results \in Seq(S)
      BY <2>2 DEF IsSeq
    <3>2. results \in Seq(S \union {r})
      BY <3>1
    <3> QED BY <2>1, <3>2
  <2> QED BY <2>1, <2>2, <2>3 DEF AnswersAre
<1>3. CASE StartCall
  BY <1>1, <1>3 DEF StartCall
<1>4. CASE EngineStep
  BY <1>1, <1>4, Undisturbed DEF EngineStep
<1>5. CASE UNCHANGED vars
  BY <1>1, <1>5 DEF vars
<1> QED BY <1>2, <1>3, <1>4, <1>5 DEF Next, Rest, EngineStep

\* The failures of fields among the errors.
CastsOf(es) == [k \in {j \in DOMAIN es : es[j].err = "cast"} |-> es[k]]

\* The same is said of two calls: whether a key was left over and, unless a
\* remain field has a say as well, which fields failed, and what the metadata
\* lists, in the same order but for the unused keys.
SameReport(m, n) ==
  LET r == results[m]
      s == results[n]
  IN  /\ (\E k \in DOMAIN r.errs : r.errs[k].err = "unused" /\ r.errs[k].path = << >>)
           <=> \E k \in DOMAIN s.errs : s.errs[k].err = "unused" /\ s.errs[k].path = << >>
      /\ Info[Into(n)].remain = 0 =>
           /\ CastsOf(r.errs) = CastsOf(s.errs)
           /\ cfg.meta => /\ r.meta.keys = s.meta.keys /\ r.meta.unset = s.meta.unset
                          /\ {r.meta.unused[k] : k \in DOMAIN r.meta.unused}
                               = {s.meta.unused[k] : k \in DOMAIN s.meta.unused}

\* What a struct holds in a field, a zero where it holds nothing yet.
Held(t, v, i) == IF i \in DOMAIN v.kids THEN v.kids[i] ELSE ZeroOf[Fields(t)[i].type]

\* The same map given to the same struct, and given to the struct it has filled.
Agree ==
  \A m, n \in FlatCalls :
    SameCall(m, n) =>
      /\ \A i \in Named(Into(n)) :
           Held(Into(n), results[m].dst, i) = Held(Into(n), results[n].dst, i)
      /\ SameReport(m, n)

Again(m, n) == Plan[n].into = m /\ Given(n) = Given(m)

AgainTheSame ==
  \A m, n \in FlatCalls :
    Again(m, n) =>
      /\ \A i \in Named(Into(n)) : Held(Into(n), results[n].dst, i) = Held(Into(n), Before(n), i)
      /\ SameReport(m, n)

\* What is said of a call is said of the data it was given.
LEMMA SameGiven ==
  ASSUME NEW m, NEW n, Given(m) = Given(n), Into(m) = Into(n)
  PROVE  /\ Given1(m) = Given1(n) /\ Misfits(m) = Misfits(n) /\ Reached(m) = Reached(n)
         /\ CutShort(m) <=> CutShort(n)
         /\ Unclaimed(m) = Unclaimed(n)
         /\ \A i : ValueFor(m, i) = ValueFor(n, i) /\ CastFor(m, i) = CastFor(n, i)
         /\ FieldPaths(m) = FieldPaths(n) /\ CastErrors(m) = CastErrors(n)
<1>1. Keys(m) = Keys(n) /\ \A i : Claimants(m, i) = Claimants(n, i)
  BY DEF Keys, Claimants
<1>2. Unclaimed(m) = Unclaimed(n) /\ Given1(m) = Given1(n)
  BY <1>1 DEF Unclaimed, Given1
<1>3. \A i : ValueFor(m, i) = ValueFor(n, i)
  BY <1>1 DEF ValueFor
<1>4. \A i : CastFor(m, i) = CastFor(n, i)
  BY <1>3 DEF CastFor
<1>5. Misfits(m) = Misfits(n)
  BY <1>2, <1>3, <1>4 DEF Misfits
<1>6. Reached(m) = Reached(n) /\ (CutShort(m) <=> CutShort(n))
  BY <1>5 DEF Reached, CutShort
<1>7. FieldPaths(m) = FieldPaths(n)
  BY DEF FieldPaths
<1>8. CastErrors(m) = CastErrors(n)
  BY <1>7 DEF CastErrors
<1> QED BY <1>2, <1>3, <1>4, <1>5, <1>6, <1>7, <1>8

\* What a filled struct holds is what the reference says.
LEMMA HeldIs ==
  ASSUME NEW n, NEW d, FieldsFilled(n, d), NEW i \in Named(Into(n))
  PROVE  Held(Into(n), d, i) = After(n, i)
<1>1. CASE i \in DOMAIN d.kids
  BY <1>1 DEF FieldsFilled, Held
<1>2. CASE i \notin DOMAIN d.kids
  <2>1. i \notin DOMAIN Before(n).kids /\ i \notin Given1(n) \intersect Reached(n)
    BY <1>2 DEF FieldsFilled
  <2>2. After(n, i) = Old(n, i)
    BY <2>1 DEF After
  <2> QED BY <1>2, <2>1, <2>2 DEF Old, Held
<1> QED BY <1>1, <1>2

\* The failures of fields are the first k errors, one for each field that fails.
CastsListed(n, es, k) ==
  /\ Lists(es, 1, k, Misfits(n) \intersect Reached(n), CastErrors(n))
  /\ CastsOf(es) = [m \in 1 .. k |-> es[m]]

\* A list of failures that is all there is of them is what CastsOf gives.
LEMMA CastsAre ==
  ASSUME NEW n, NEW es, IsSeq(es), MisfitsReported(n, es), Info[Into(n)].remain = 0,
         Misfits(n) \subseteq Named(Into(n))
  PROVE  \E k \in Nat : CastsListed(n, es, k)
<1>1. Len(es) \in Nat /\ DOMAIN es = 1 .. Len(es)
  BY DEF IsSeq
<1> DEFINE S == Misfits(n) \intersect Reached(n)
<1>2. PICK k \in 0 .. Len(es) :
        /\ Lists(es, 1, k, S, CastErrors(n))
        /\ \A m \in k + 1 .. Len(es) : es[m].err = "cast" => InRemain(n, es[m].path)
  BY DEF MisfitsReported
<1>3. \A m \in k + 1 .. Len(es) : es[m].err # "cast"
  BY <1>2 DEF InRemain
<1>4. \A m \in 1 .. k : es[m].err = "cast"
  <2> SUFFICES ASSUME NEW m \in 1 .. k PROVE es[m].err = "cast"
    OBVIOUS
  <2>1. PICK o \in [1 .. k -> S] : \A j \in 1 .. k : es[j] = CastErrors(n)[o[j]]
    BY <1>2 DEF Lists
  <2>2. es[m] = CastErrors(n)[o[m]] /\ o[m] \in Named(Into(n))
    BY <2>1
  <2>3. CastErrors(n)[o[m]] = [path |-> FieldPaths(n)[o[m]], err |-> "cast"]
    BY <2>2 DEF CastErrors
  <2> QED BY <2>2, <2>3
<1>5. {j \in DOMAIN es : es[j].err = "cast"} = 1 .. k
  <2>1. ASSUME NEW j \in 1 .. Len(es) PROVE es[j].err = "cast" <=> j \in 1 .. k
    <3>1. j \in 1 .. k \/ j \in k + 1 .. Len(es)
      BY <1>1, <1>2
    <3>2. j \in k + 1 .. Len(es) => j \notin 1 .. k
      BY <1>1, <1>2
    <3> QED BY <1>3, <1>4, <3>1, <3>2
  <2>2. 1 .. k \subseteq 1 .. Len(es)
    BY <1>1, <1>2
  <2> QED BY <1>1, <2>1, <2>2
<1>6. CastsOf(es) = [m \in 1 .. k |-> es[m]]
  BY <1>5 DEF CastsOf
<1>7. k \in Nat /\ CastsListed(n, es, k)
  BY <1>1, <1>2, <1>6 DEF CastsListed
<1> QED BY <1>7

\* Two lists of the same, each all of its sequence, are the same sequence.
LEMMA SeqsOne ==
  ASSUME NEW S \in SUBSET Nat, NEW e, NEW s, IsSeq(s), NEW t, IsSeq(t),
         Lists(s, 1, Len(s), S, e), Lists(t, 1, Len(t), S, e)
  PROVE  s = t
<1>1. /\ Len(s) \in Nat /\ Len(t) \in Nat
      /\ s = [m \in 1 .. Len(s) |-> s[m]] /\ t = [m \in 1 .. Len(t) |-> t[m]]
  BY DEF IsSeq
<1> DEFINE a == Len(s)
           b == Len(t)
<1>2. a \in Nat /\ b \in Nat /\ Lists(s, 1, a, S, e) /\ Lists(t, 1, b, S, e)
  BY <1>1
<1> HIDE DEF a, b
<1>3. a <= b /\ \A m \in 1 .. a : s[m] = t[m]
  BY <1>2, ListsOne
<1>4. b <= a
  BY <1>2, ListsOne
<1>5. a = b
  BY <1>2, <1>3, <1>4
<1>6. s = [m \in 1 .. a |-> s[m]] /\ t = [m \in 1 .. a |-> t[m]]
  BY <1>1, <1>5 DEF a, b
<1>7. [m \in 1 .. a |-> s[m]] = [m \in 1 .. a |-> t[m]]
  BY <1>3
<1> QED BY <1>6, <1>7

\* Metadata that accounts for a struct without a remain field is lists.
LEMMA AccountIs ==
  ASSUME NEW n, NEW mt, IsSeq(mt.keys), IsSeq(mt.unset), AccountedFor(n, mt), Info[Into(n)].remain = 0
  PROVE  /\ Lists(mt.keys, 1, Len(mt.keys), Given1(n) \intersect Reached(n), FieldPaths(n))
         /\ Lists(mt.unset, 1, Len(mt.unset), IF CutShort(n) THEN {} ELSE Named(Into(n)) \ Given1(n), FieldPaths(n))
         /\ {mt.unused[k] : k \in DOMAIN mt.unused} = IF CutShort(n) THEN {} ELSE {<<Seg(k)>> : k \in Unclaimed(n)}
<1>0. \A p : ~InRemain(n, p)
  BY DEF InRemain
<1>1. Lists(mt.keys, 1, Len(mt.keys), Given1(n) \intersect Reached(n), FieldPaths(n))
  <2> DEFINE l == Len(mt.keys)
  <2>1. l \in Nat
    BY DEF IsSeq
  <2>2. PICK k \in 0 .. l : /\ Lists(mt.keys, 1, k, Given1(n) \intersect Reached(n), FieldPaths(n))
                            /\ \A m \in k + 1 .. l : InRemain(n, mt.keys[m])
    BY DEF AccountedFor
  <2> HIDE DEF l
  <2>3. k = l
    <3>1. \A m \in k + 1 .. l : FALSE
      BY <1>0, <2>2
    <3> QED BY <2>1, <3>1
  <2> QED BY <2>2, <2>3 DEF l
<1>2. Lists(mt.unset, 1, Len(mt.unset), IF CutShort(n) THEN {} ELSE Named(Into(n)) \ Given1(n), FieldPaths(n))
  <2> DEFINE l == Len(mt.unset)
             S == IF CutShort(n) THEN {} ELSE Named(Into(n)) \ Given1(n)
  <2>1. l \in Nat
    BY DEF IsSeq
  <2>2. PICK k \in 0 .. l : /\ \A m \in 1 .. k : InRemain(n, mt.unset[m])
                            /\ Lists(mt.unset, k + 1, l, S, FieldPaths(n))
    BY DEF AccountedFor
  <2> HIDE DEF l, S
  <2>3. k = 0
    <3>1. \A m \in 1 .. k : FALSE
      BY <1>0, <2>2
    <3> QED BY <2>1, <3>1
  <2>4. k + 1 = 1
    BY <2>3
  <2>5. Lists(mt.unset, 1, l, S, FieldPaths(n))
    BY <2>2, <2>4
  <2> QED BY <2>5 DEF l, S
<1>3. {mt.unused[k] : k \in DOMAIN mt.unused} = IF CutShort(n) THEN {} ELSE {<<Seg(k)>> : k \in Unclaimed(n)}
  <2>1. CASE CutShort(n)
    <3>1. \A k \in DOMAIN mt.unused : FALSE
      BY <1>0, <2>1 DEF AccountedFor
    <3> QED BY <2>1, <3>1
  <2>2. CASE ~CutShort(n)
    BY <2>2 DEF AccountedFor
  <2> QED BY <2>1, <2>2
<1> QED BY <1>1, <1>2, <1>3

\* So the same is said of two calls that are given the same.
LEMMA ReportsAlike ==
  ASSUME FlatInv, AnswersAre, NEW m \in FlatCalls, NEW n \in FlatCalls,
         Given(m) = Given(n), Into(m) = Into(n)
  PROVE  SameReport(m, n)
<1> DEFINE t == Into(n)
           r == results[m]
           s == results[n]
<1>1. m \in 1 .. Len(results) /\ n \in 1 .. Len(results) /\ Flattish(m) /\ Flattish(n)
  BY DEF FlatCalls, Calls, FlatInv, Base, SessionOK, IsSeq
<1>2. /\ MisfitsReported(m, r.errs) /\ UnusedReported(m, r.errs)
      /\ cfg.meta => AccountedFor(m, r.meta)
  BY FlatKept
<1>3. /\ MisfitsReported(n, s.errs) /\ UnusedReported(n, s.errs)
      /\ cfg.meta => AccountedFor(n, s.meta)
  BY FlatKept
<1>4. /\ Into(m) = t /\ Given1(m) = Given1(n) /\ Misfits(m) = Misfits(n) /\ Reached(m) = Reached(n)
      /\ (CutShort(m) <=> CutShort(n)) /\ Unclaimed(m) = Unclaimed(n)
      /\ FieldPaths(m) = FieldPaths(n) /\ CastErrors(m) = CastErrors(n)
  BY SameGiven
<1>5. /\ IsSeq(r.errs) /\ IsSeq(r.meta.keys) /\ IsSeq(r.meta.unset)
      /\ IsSeq(s.errs) /\ IsSeq(s.meta.keys) /\ IsSeq(s.meta.unset)
  BY <1>1 DEF AnswersAre
<1>6. t \in DOMAIN Types /\ Types[t].kind = "struct"
  <2>1. Types[t].kind = "struct"
    BY <1>1 DEF Flattish
  <2>2. n \in 1 .. Len(Plan)
    <3> DEFINE l == Len(results)
               p == Len(Plan)
    <3>1. l \in Nat /\ p \in Nat /\ l <= p /\ n \in 1 .. l
      BY <1>1 DEF FlatInv, Base, SessionOK, SessionWithin, IsSeq, Plan
    <3> HIDE DEF l, p
    <3>2. n \in 1 .. p
      BY <3>1
    <3> QED BY <3>2 DEF p
  <2>3. SessionOK
    BY DEF FlatInv, Base
  <2>4. Into(n) \in DOMAIN Types
    BY <2>2, <2>3, IntoIs
  <2> QED BY <2>1, <2>4
<1>7. /\ Misfits(n) \subseteq Named(t) /\ Misfits(n) \intersect Reached(n) \in SUBSET Nat
      /\ Given1(n) \intersect Reached(n) \in SUBSET Nat
      /\ (IF CutShort(n) THEN {} ELSE Named(t) \ Given1(n)) \in SUBSET Nat
  <2>1. Given1(n) \subseteq Named(t) /\ Misfits(n) \subseteq Given1(n) /\ Named(t) \in SUBSET Nat
    BY <1>1, <1>6, FlatIs, FieldsAre
  <2> HIDE DEF t
  <2> QED BY <2>1
<1> HIDE DEF r, s, t
<1>9. (\E k \in DOMAIN r.errs : r.errs[k].err = "unused" /\ r.errs[k].path = << >>)
        <=> \E k \in DOMAIN s.errs : s.errs[k].err = "unused" /\ s.errs[k].path = << >>
  BY <1>2, <1>3, <1>4 DEF UnusedReported, t
<1>10. ASSUME Info[t].remain = 0 PROVE CastsOf(r.errs) = CastsOf(s.errs)
  <2> DEFINE S == Misfits(n) \intersect Reached(n)
             e == CastErrors(n)
             es == r.errs
             fs == s.errs
  <2>1. PICK a \in Nat : CastsListed(m, es, a)
    <3>1. /\ IsSeq(es) /\ MisfitsReported(m, es) /\ Info[Into(m)].remain = 0
          /\ Misfits(m) \subseteq Named(Into(m))
      BY <1>2, <1>4, <1>5, <1>7, <1>10
    <3> HIDE DEF es
    <3> QED BY <3>1, CastsAre
  <2>2. PICK b \in Nat : CastsListed(n, fs, b)
    <3>1. /\ IsSeq(fs) /\ MisfitsReported(n, fs) /\ Info[Into(n)].remain = 0
          /\ Misfits(n) \subseteq Named(Into(n))
      BY <1>3, <1>5, <1>7, <1>10 DEF t
    <3> HIDE DEF fs
    <3> QED BY <3>1, CastsAre
  <2>3. S \in SUBSET Nat
    BY <1>7
  <2>4. Lists(es, 1, a, S, e) /\ Lists(fs, 1, b, S, e)
    BY <1>4, <2>1, <2>2 DEF CastsListed
  <2>5. CastsOf(es) = [k \in 1 .. a |-> es[k]] /\ CastsOf(fs) = [k \in 1 .. b |-> fs[k]]
    BY <2>1, <2>2 DEF CastsListed
  <2> HIDE DEF S, e, es, fs
  <2>6. a <= b /\ \A k \in 1 .. a : es[k] = fs[k]
    BY <2>3, <2>4, ListsOne
  <2>7. b <= a
    BY <2>3, <2>4, ListsOne
  <2>8. a = b
    BY <2>6, <2>7
  <2>9. [k \in 1 .. a |-> es[k]] = [k \in 1 .. b |-> fs[k]]
    BY <2>6, <2>8
  <2>10. CastsOf(es) = CastsOf(fs)
    BY <2>5, <2>9
  <2> QED BY <2>10 DEF es, fs
<1>11. ASSUME Info[t].remain = 0, cfg.meta
       PROVE  /\ r.meta.keys = s.meta.keys /\ r.meta.unset = s.meta.unset
              /\ {r.meta.unused[k] : k \in DOMAIN r.meta.unused} = {s.meta.unused[k] : k \in DOMAIN s.meta.unused}
  <2> DEFINE G == Given1(n) \intersect Reached(n)
             U == IF CutShort(n) THEN {} ELSE Named(t) \ Given1(n)
             X == IF CutShort(n) THEN {} ELSE {<<Seg(k)>> : k \in Unclaimed(n)}
             e == FieldPaths(n)
             x == r.meta
             y == s.meta
  <2>1. /\ Lists(x.keys, 1, Len(x.keys), G, e) /\ Lists(x.unset, 1, Len(x.unset), U, e)
        /\ {x.unused[k] : k \in DOMAIN x.unused} = X
    <3>1. AccountedFor(m, x) /\ Info[Into(m)].remain = 0
      BY <1>2, <1>4, <1>11
    <3>2. /\ Given1(m) \intersect Reached(m) = G /\ FieldPaths(m) = e
          /\ (IF CutShort(m) THEN {} ELSE Named(Into(m)) \ Given1(m)) = U
          /\ (IF CutShort(m) THEN {} ELSE {<<Seg(k)>> : k \in Unclaimed(m)}) = X
      BY <1>4
    <3> HIDE DEF G, U, X, e, x
    <3>3. /\ Lists(x.keys, 1, Len(x.keys), Given1(m) \intersect Reached(m), FieldPaths(m))
          /\ Lists(x.unset, 1, Len(x.unset), IF CutShort(m) THEN {} ELSE Named(Into(m)) \ Given1(m), FieldPaths(m))
          /\ {x.unused[k] : k \in DOMAIN x.unused} = IF CutShort(m) THEN {} ELSE {<<Seg(k)>> : k \in Unclaimed(m)}
      BY <1>5, <3>1, AccountIs DEF x
    <3> QED BY <3>2, <3>3
  <2>2. /\ Lists(y.keys, 1, Len(y.keys), G, e) /\ Lists(y.unset, 1, Len(y.unset), U, e)
        /\ {y.unused[k] : k \in DOMAIN y.unused} = X
    <3>1. AccountedFor(n, y) /\ Info[Into(n)].remain = 0
      BY <1>3, <1>11 DEF t
    <3> QED BY <1>5, <3>1, AccountIs DEF t
  <2>3. G \in SUBSET Nat /\ U \in SUBSET Nat
    BY <1>7
  <2>4. IsSeq(x.keys) /\ IsSeq(x.unset) /\ IsSeq(y.keys) /\ IsSeq(y.unset)
    BY <1>5
  <2> HIDE DEF G, U, X, e, x, y
  <2>5. x.keys = y.keys
    BY <2>1, <2>2, <2>3, <2>4, SeqsOne
  <2>6. x.unset = y.unset
    BY <2>1, <2>2, <2>3, <2>4, SeqsOne
  <2> QED BY <2>1, <2>2, <2>5, <2>6 DEF x, y
<1> QED BY <1>9, <1>10, <1>11 DEF SameReport, r, s, t

\* The same struct, given the same, is filled alike.
LEMMA FilledAlike ==
  ASSUME FlatInv, NEW m \in FlatCalls, NEW n \in FlatCalls, SameCall(m, n), NEW i \in Named(Into(n))
  PROVE  Held(Into(n), results[m].dst, i) = Held(Into(n), results[n].dst, i)
<1>1. Given(m) = Given(n) /\ Before(m) = Before(n) /\ Into(m) = Into(n)
  BY DEF SameCall, Given, Before, Into
<1>2. FieldsFilled(m, results[m].dst) /\ FieldsFilled(n, results[n].dst)
  BY FlatKept
<1>3. Old(m, i) = Old(n, i)
  BY <1>1 DEF Old
<1>4. After(m, i) = After(n, i)
  BY <1>1, <1>3, SameGiven DEF After
<1> QED BY <1>1, <1>2, <1>4, HeldIs

\* A struct that is given again what it was filled with stays as it is.
LEMMA FilledAgain ==
  ASSUME FlatInv, NEW m \in FlatCalls, NEW n \in FlatCalls, Again(m, n), Into(m) = Into(n),
         NEW i \in Named(Into(n))
  PROVE  Held(Into(n), results[n].dst, i) = Held(Into(n), Before(n), i)
<1>1. Before(n) = results[m].dst /\ Given(m) = Given(n)
  <2>1. m # 0
    BY DEF FlatCalls, Calls, FlatInv, Base, SessionOK, IsSeq
  <2> QED BY <2>1 DEF Again, Before
<1>2. FieldsFilled(m, results[m].dst) /\ FieldsFilled(n, results[n].dst)
  BY FlatKept
<1>3. Held(Into(n), results[m].dst, i) = After(m, i) /\ Held(Into(n), results[n].dst, i) = After(n, i)
  BY <1>2, HeldIs
<1>4. Old(n, i) = Held(Into(n), Before(n), i)
  BY DEF Old, Held
<1>5. Old(n, i) = After(m, i)
  BY <1>1, <1>3, <1>4
<1>6. CASE i \notin Given1(n) \intersect Reached(n) \/ i \in Misfits(n)
  BY <1>3, <1>4, <1>6 DEF After
<1>7. CASE i \in Given1(n) \intersect Reached(n) /\ i \notin Misfits(n)
  <2>1. /\ i \in Given1(m) \intersect Reached(m) /\ i \notin Misfits(m)
        /\ ValueFor(m, i) = ValueFor(n, i) /\ CastFor(m, i) = CastFor(n, i)
    BY <1>1, <1>7, SameGiven
  <2>2. CASE IsValid(ValueFor(n, i))
    BY <1>3, <1>4, <1>5, <1>7, <2>1, <2>2 DEF After
  <2>3. CASE ~IsValid(ValueFor(n, i))
    BY <1>3, <1>4, <1>5, <1>7, <2>1, <2>3 DEF After
  <2> QED BY <2>2, <2>3
<1> QED BY <1>6, <1>7

\* A call goes to the type of the destination it is given.
LEMMA AgainInto ==
  ASSUME FlatInv, NEW n \in FlatCalls, NEW m \in FlatCalls, Again(m, n)
  PROVE  Into(m) = Into(n)
<1>1. m \in 1 .. Len(results) /\ n \in 1 .. Len(results)
  BY DEF FlatCalls, Calls, FlatInv, Base, SessionOK, IsSeq
<1>2. scen \in Scenarios /\ Len(results) \in Nat /\ Len(results) <= Len(Plan)
  BY DEF FlatInv, Base, SessionOK, SessionWithin, IsSeq
<1>3. Len(Plan) \in Nat /\ DOMAIN Plan = 1 .. Len(Plan)
  BY <1>2, ScenariosAssumption DEF Plan
<1>4. n \in DOMAIN Plan
  <2> DEFINE l == Len(results)
             p == Len(Plan)
  <2>1. l \in Nat /\ p \in Nat /\ l <= p /\ n \in 1 .. l
    BY <1>1, <1>2, <1>3
  <2> HIDE DEF l, p
  <2>2. n \in 1 .. p
    BY <2>1
  <2> QED BY <1>3, <2>2 DEF p
<1>5. m # 0
  BY <1>1, <1>2
<1> QED BY <1>2, <1>4, <1>5, ScenariosAssumption DEF Again, Into, Plan

LEMMA AnswersHold == Spec => [](FlatInv /\ AnswersAre)
<1>1. Init => FlatInv /\ AnswersAre
  <2>1. Init => AnswersAre
    BY DEF Init, AnswersAre
  <2> QED BY <2>1, FlatInit
<1>2. FlatInv /\ AnswersAre /\ [Next]_vars => (FlatInv /\ AnswersAre)'
  BY FlatStep, AnswersStep
<1> QED BY <1>1, <1>2, PTL DEF Spec

\* The order a map is walked in shows neither in the fields, nor in the failures
\* and their order, nor in the metadata: two calls that give the same map to the
\* same struct, whatever order each meets the keys in, have the same answer.
THEOREM FlatCallsAgree == Spec => []Agree
<1>1. FlatInv /\ AnswersAre => Agree
  <2> SUFFICES ASSUME FlatInv, AnswersAre, NEW m \in FlatCalls, NEW n \in FlatCalls, SameCall(m, n)
               PROVE  /\ \A i \in Named(Into(n)) :
                           Held(Into(n), results[m].dst, i) = Held(Into(n), results[n].dst, i)
                      /\ SameReport(m, n)
    BY DEF Agree
  <2>1. Given(m) = Given(n) /\ Into(m) = Into(n)
    BY DEF SameCall, Given, Into
  <2> QED BY <2>1, FilledAlike, ReportsAlike
<1> QED BY <1>1, AnswersHold, PTL

\* A struct that has read a map reads it again without a change to any field,
\* and what is reported and recorded is what was the first time, whether or not
\* fields failed or the limit cut the work.
THEOREM AgainChangesNothing == Spec => []AgainTheSame
<1>1. FlatInv /\ AnswersAre => AgainTheSame
  <2> SUFFICES ASSUME FlatInv, AnswersAre, NEW m \in FlatCalls, NEW n \in FlatCalls, Again(m, n)
               PROVE  /\ \A i \in Named(Into(n)) :
                           Held(Into(n), results[n].dst, i) = Held(Into(n), Before(n), i)
                      /\ SameReport(m, n)
    BY DEF AgainTheSame
  <2>1. Given(m) = Given(n) /\ Into(m) = Into(n)
    BY AgainInto DEF Again
  <2> QED BY <2>1, FilledAgain, ReportsAlike
<1> QED BY <1>1, AnswersHold, PTL

=============================================================================
