------------------------------ MODULE Promotion ------------------------------
(***************************************************************************)
(* What the analysis of a struct type must amount to, stated on the types  *)
(* alone: no queue, no set of types already met, no order of steps.        *)
(***************************************************************************)
EXTENDS StructInfo

\* The shallower path first; of two equally long ones the one that branches
\* off at the earlier field.
Precedes(p, q) ==
  \/ Len(p) < Len(q)
  \/ /\ Len(p) = Len(q)
     /\ \E n \in DOMAIN p : p[n] < q[n] /\ \A m \in 1 .. n - 1 : p[m] = q[m]

Foremost(paths) == CHOOSE p \in paths : \A q \in paths : p = q \/ Precedes(p, q)

\* Every place a struct type is inlined at, as often as it is: a type that
\* inlines itself over and over, down to a depth no key is first met at.
Occurrences(w) ==
  LET depth[n \in 0 .. Cardinality(DOMAIN w.types)] ==
        IF n = 0 THEN {[typ |-> w.root, index |-> << >>]}
        ELSE UNION {{[typ |-> w.types[q.typ][j].base, index |-> Append(q.index, j)] :
                       j \in {k \in DOMAIN w.types[q.typ] : Inlined(w, w.types[q.typ][k])}} :
                    q \in depth[n - 1]}
  IN  UNION {depth[n] : n \in DOMAIN depth}

\* The fields found there, each with its index path.
Candidates(w) ==
  UNION {{[field |-> w.types[q.typ][j], index |-> Append(q.index, j)] : j \in DOMAIN w.types[q.typ]} :
         q \in Occurrences(w)}
Claimants(w) == {c \in Candidates(w) : Claims(w, c.field) /\ ~Collects(w, c.field)}
Collectors(w) == {c \in Candidates(w) : Collects(w, c.field)}
Reached(w)   == {q.typ : q \in Occurrences(w)}

\* A slot holds the foremost of the fields that want it, and there is one for
\* every slot that is wanted.
HoldsForemost(slots, wanted) ==
  /\ DOMAIN slots = {c.slot : c \in wanted}
  /\ \A k \in DOMAIN slots :
       fields[slots[k]].index = Foremost({c.index : c \in {d \in wanted : d.slot = k}})

WantedKeys(w)  == {[slot |-> KeyName(w, c.field), index |-> c.index] : c \in Claimants(w)}
WantedNorms(w) == IF w.cfg.normalizer
                  THEN {[slot |-> Norm[KeyName(w, c.field)], index |-> c.index] : c \in Claimants(w)}
                  ELSE {}

\* Shallower fields shadow deeper ones and earlier ones later ones, whatever
\* way inlined types reach each other, themselves or one type twice: that each
\* type is expanded only once loses no key and gives none to a wrong field.
\* The normalized names follow the same rule, on their own.
Promoted ==
  Done =>
    /\ HoldsForemost(byName, WantedKeys(world))
    /\ HoldsForemost(byNorm, WantedNorms(world))
    /\ IF Collectors(world) = {} THEN remain = 0
       ELSE /\ remain # 0
            /\ fields[remain].index = Foremost({c.index : c \in Collectors(world)})

\* What became of the n-th field of type t, found at path p: its key, its
\* normalized key, its place as the remain field or the expansion of its type
\* went to a field no deeper and no later than itself, or it was reported, a
\* remain field that is not the one used as well.
AtMost(p, q) == p = q \/ Precedes(p, q)
Told(t, n, kind) == \E m \in DOMAIN errs : errs[m] = <<t, n, kind>>
Settled(t, n, p) ==
  LET f == world.types[t][n]
      k == KeyName(world, f)
  IN  /\ Inlined(world, f) => f.base \in DOMAIN expanded /\ AtMost(expanded[f.base], Append(p, n))
      /\ Claims(world, f) /\ ~Collects(world, f) =>
           /\ k \in DOMAIN byName /\ fields[byName[k]].name = k
           /\ AtMost(fields[byName[k]].index, Append(p, n))
           /\ world.cfg.normalizer => /\ Norm[k] \in DOMAIN byNorm
                                      /\ AtMost(fields[byNorm[Norm[k]]].index, Append(p, n))
      /\ Collects(world, f) =>
           /\ remain # 0 /\ AtMost(fields[remain].index, Append(p, n))
           /\ fields[remain].index = Append(expanded[t], n) \/ Told(t, n, "remain")
      /\ Fails(world, f) => Told(t, n, "tag")

\* Every field of every type that was expanded is settled, the fields behind
\* a failing one too.
SettledType(t, p) ==
  \A n \in DOMAIN world.types[t] : Settled(t, n, p)
NoneForgotten ==
  Done => /\ world.root \in DOMAIN expanded
          /\ \A t \in DOMAIN expanded : SettledType(t, expanded[t])

\* Path p leads from the root, by inlined fields alone, to struct type t.
Leads(w, p, t) ==
  \E c \in [1 .. Len(p) + 1 -> DOMAIN w.types] :
    /\ c[1] = w.root /\ c[Len(p) + 1] = t
    /\ \A n \in 1 .. Len(p) :
         /\ p[n] \in DOMAIN w.types[c[n]] /\ Inlined(w, w.types[c[n]][p[n]])
         /\ w.types[c[n]][p[n]].base = c[n + 1]

\* Fields are kept in that same order, the order they are written and read in.
InOrder == \A m, n \in DOMAIN fields : m < n => Precedes(fields[m].index, fields[n].index)

\* The fields to be reported: those with a bad tag, and every remain field but
\* the one that is used.
Faulty(w, t) == {n \in DOMAIN w.types[t] : Fails(w, w.types[t][n])}
Extra(w, q)  == {n \in DOMAIN w.types[q.typ] : /\ Collects(w, w.types[q.typ][n])
                                               /\ fields[remain].index # Append(q.index, n)}

\* A bad tag is reported whatever shadows its field and however its type is
\* reached, once, and so is every remain field but the one that is used, also
\* where its type is inlined again.
ReportsEveryBadTag ==
  Done =>
    LET first(t)  == Foremost({q.index : q \in {o \in Occurrences(world) : o.typ = t}})
        places    == {[typ |-> t, index |-> first(t)] : t \in Reached(world)}
    IN  /\ \A m, n \in DOMAIN errs : errs[m] = errs[n] => m = n
        /\ {errs[m] : m \in DOMAIN errs} =
             UNION {{<<q.typ, n, "tag">> : n \in Faulty(world, q.typ)} \union
                    {<<q.typ, n, "remain">> : n \in Extra(world, q)} : q \in places}

\* The analysis of a type that inlines itself ends like any other.
Termination == <>Done

=============================================================================
