------------------------------ MODULE StructInfo ------------------------------
(***************************************************************************)
(* The analysis of a struct type (structinfo.go, tag.go): its own fields   *)
(* and those of the struct types it inlines, level by level, each type     *)
(* expanded once, the first field to claim a key keeping it.               *)
(*                                                                         *)
(* A world is what reflection shows of one codec and one set of types:     *)
(*   root   the type that is analysed                                      *)
(*   types  struct type name -> its declared fields, in order              *)
(*   cfg    [tag, fallback, normalizer, keyFunc, inlineEmbedded,           *)
(*           taggedOnly], what the options left in the config              *)
(* A field is [name, type, base, exported, embedded, tags]: base is its    *)
(* type behind all pointers, tags maps a tag name to the text of the tag,  *)
(* as the sequence of its comma-separated parts.                           *)
(***************************************************************************)
EXTENDS Naturals, Sequences, FiniteSets

CONSTANTS
  Worlds,  \* the worlds analyze may be called in
  KeyFunc, \* field name -> key, the key function
  Norm     \* key -> its normalized form

OptNames == {"omitempty", "inline", "remain", "string", "deref", "keep"}

IsSequence(s) == s \in Seq({s[n] : n \in DOMAIN s})

ASSUME WorldsAssumption ==
  \A w \in Worlds :
    /\ w.root \in DOMAIN w.types /\ IsFiniteSet(DOMAIN w.types)
    /\ \A t \in DOMAIN w.types : IsSequence(w.types[t])

VARIABLES
  world,
  level,     \* the types of this level still to walk, [typ, index]; the first is being walked
  next,      \* the types of the next level, as far as they are known
  at,        \* the field looked at next
  expanded,  \* type -> the index path it was queued with
  fields,    \* si.Fields
  byName,    \* key -> position in fields
  byNorm,    \* normalized key -> position in fields
  remain,    \* position of the remain field, 0 for none
  errs       \* <<type, number of the field, kind>> of each error, in order

vars == <<world, level, next, at, expanded, fields, byName, byNorm, remain, errs>>

-----------------------------------------------------------------------------
(* Tags.                                                                   *)

BadTag == [name |-> "", opts |-> {"unknown"}]

\* parseTag: a lone "-" skips the field, "-," names it "-"; empty options are
\* passed over, unknown ones refused.
ParseTag(raw) ==
  LET opts == {raw[n] : n \in 2 .. Len(raw)} \ {""}
  IN  IF raw = <<"-">> THEN [name |-> "", opts |-> {"skip"}]
      ELSE IF opts \subseteq OptNames THEN [name |-> raw[1], opts |-> opts]
      ELSE BadTag

\* lookupTag: the primary tag, else the first fallback the field has.
TagNames(w)  == <<w.cfg.tag>> \o w.cfg.fallback
Present(w, f) == {n \in DOMAIN TagNames(w) : TagNames(w)[n] \in DOMAIN f.tags}
Tagged(w, f) == Present(w, f) # {}
LookupTag(w, f) ==
  IF Tagged(w, f)
  THEN f.tags[TagNames(w)[CHOOSE n \in Present(w, f) : \A m \in Present(w, f) : n <= m]]
  ELSE <<"">>

TagOf(w, f) == ParseTag(LookupTag(w, f))

\* keyName: the name in the tag, else what the key function makes of the
\* field's name, else that name.
KeyName(w, f) ==
  IF TagOf(w, f).name # "" THEN TagOf(w, f).name
  ELSE IF w.cfg.keyFunc THEN KeyFunc[f.name] ELSE f.name

-----------------------------------------------------------------------------
(* analyzeField: what becomes of one field.                                *)

Ignored(w, f)   == "skip" \in TagOf(w, f).opts
IsStruct(w, f)  == f.base \in DOMAIN w.types

\* Mutant: what is embedded under an unexported name stays hidden.
WantsInlineAsked(w, f) ==
  "inline" \in TagOf(w, f).opts \/ (w.cfg.inlineEmbedded /\ f.embedded)

\* A field embedded under an unexported type name cannot be addressed as a
\* whole: its fields are promoted without being asked for.
WantsInline(w, f) ==
  \/ "inline" \in TagOf(w, f).opts
  \/ w.cfg.inlineEmbedded /\ f.embedded
  \/ f.embedded /\ ~f.exported /\ IsStruct(w, f)

\* A field fails, is skipped, is replaced by the fields of its type, or
\* claims a key: one of the four.
Fails(w, f) ==
  \/ TagOf(w, f) = BadTag
  \/ ~Ignored(w, f) /\ WantsInline(w, f) /\ ~IsStruct(w, f)

Inlined(w, f) ==
  TagOf(w, f) # BadTag /\ ~Ignored(w, f) /\ WantsInline(w, f) /\ IsStruct(w, f)

Skipped(w, f) ==
  /\ TagOf(w, f) # BadTag
  /\ \/ Ignored(w, f)
     \/ ~WantsInline(w, f) /\ ~f.exported
     \/ ~WantsInline(w, f) /\ ~Tagged(w, f) /\ w.cfg.taggedOnly

Claims(w, f) == ~Fails(w, f) /\ ~Skipped(w, f) /\ ~Inlined(w, f)
Collects(w, f) == Claims(w, f) /\ "remain" \in TagOf(w, f).opts

FieldInfo(w, f, index) ==
  [name |-> KeyName(w, f), index |-> index, type |-> f.type, opts |-> TagOf(w, f).opts]

-----------------------------------------------------------------------------
(* analyze.                                                                *)

Decls(w)  == UNION {{w.types[t][n] : n \in DOMAIN w.types[t]} : t \in DOMAIN w.types}
Infos(w)  == [name : {KeyName(w, f) : f \in Decls(w)}, index : Seq(Nat),
              type : {f.type : f \in Decls(w)}, opts : {TagOf(w, f).opts : f \in Decls(w)}]
Queued(w) == [typ : DOMAIN w.types, index : Seq(Nat)]

TypeOK ==
  /\ world \in Worlds
  /\ level \in Seq(Queued(world)) /\ next \in Seq(Queued(world))
  /\ at \in Nat \ {0}
  /\ DOMAIN expanded \subseteq DOMAIN world.types
  /\ expanded \in [DOMAIN expanded -> Seq(Nat)]
  /\ fields \in Seq(Infos(world))
  /\ byName \in [DOMAIN byName -> DOMAIN fields]
  /\ byNorm \in [DOMAIN byNorm -> DOMAIN fields]
  /\ remain \in 0 .. Len(fields)
  /\ errs \in Seq((DOMAIN world.types) \X Nat \X {"tag", "remain"})

Init ==
  /\ world \in Worlds
  /\ level = <<[typ |-> world.root, index |-> << >>]>>
  /\ next = << >> /\ at = 1
  /\ expanded = [t \in {world.root} |-> << >>]
  /\ fields = << >> /\ remain = 0 /\ errs = << >>
  /\ byName = << >> /\ byNorm = << >>

Done     == level = << >>
Walked   == Head(level).typ
Declared == world.types[Walked]
Sf       == Declared[at]
Index    == Append(Head(level).index, at)

\* A turn of the inner loop: it ends with the next field.
Turn == ~Done /\ at <= Len(Declared) /\ at' = at + 1

Report(kind) == errs' = Append(errs, <<Walked, at, kind>>)
KeepFields   == UNCHANGED <<fields, byName, byNorm, remain>>
KeepQueue    == UNCHANGED <<world, level, next, expanded>>

SkipField ==
  /\ Turn /\ Skipped(world, Sf)
  /\ KeepFields /\ KeepQueue /\ UNCHANGED errs

\* Mutant: a bad tag ends the walk of its type.
RefuseFieldLast ==
  /\ ~Done /\ at <= Len(Declared) /\ at' = Len(Declared) + 1
  /\ Fails(world, Sf)
  /\ Report("tag")
  /\ KeepFields /\ KeepQueue

RefuseField ==
  /\ Turn /\ Fails(world, Sf)
  /\ Report("tag")
  /\ KeepFields /\ KeepQueue

\* Mutant: the type found last is walked first.
InlineFieldFirst ==
  /\ Turn /\ Inlined(world, Sf) /\ Sf.base \notin DOMAIN expanded
  /\ expanded' = [t \in DOMAIN expanded \union {Sf.base} |->
                    IF t = Sf.base THEN Index ELSE expanded[t]]
  /\ next' = <<[typ |-> Sf.base, index |-> Index]>> \o next
  /\ KeepFields /\ UNCHANGED <<world, level, errs>>

\* Each struct type is expanded at most once, a type that inlines itself too.
InlineField ==
  /\ Turn /\ Inlined(world, Sf) /\ Sf.base \notin DOMAIN expanded
  /\ expanded' = [t \in DOMAIN expanded \union {Sf.base} |->
                    IF t = Sf.base THEN Index ELSE expanded[t]]
  /\ next' = Append(next, [typ |-> Sf.base, index |-> Index])
  /\ KeepFields /\ UNCHANGED <<world, level, errs>>

\* Mutant: a type met again does not end the field's turn.
InlineAgainStuck ==
  /\ ~Done /\ at <= Len(Declared) /\ at' = at
  /\ Inlined(world, Sf) /\ Sf.base \in DOMAIN expanded
  /\ KeepFields /\ KeepQueue /\ UNCHANGED errs

InlineAgain ==
  /\ Turn /\ Inlined(world, Sf) /\ Sf.base \in DOMAIN expanded
  /\ KeepFields /\ KeepQueue /\ UNCHANGED errs

ClaimRemain ==
  /\ Turn /\ Collects(world, Sf) /\ remain = 0
  /\ remain' = Len(fields) + 1
  /\ fields' = Append(fields, FieldInfo(world, Sf, Index))
  /\ KeepQueue /\ UNCHANGED <<byName, byNorm, errs>>

\* Mutant: a second remain field is passed over.
RemainAgainSilent ==
  /\ Turn /\ Collects(world, Sf) /\ remain # 0
  /\ KeepFields /\ KeepQueue /\ UNCHANGED errs

RemainAgain ==
  /\ Turn /\ Collects(world, Sf) /\ remain # 0
  /\ Report("remain")
  /\ KeepFields /\ KeepQueue

\* Mutant: a taken normalized key shadows the field too.
AddFieldFolded ==
  /\ Turn /\ Claims(world, Sf) /\ ~Collects(world, Sf)
  /\ LET key  == KeyName(world, Sf)
         norm == Norm[key]
         new  == Len(fields) + 1
         Taking(slots, k) == [j \in DOMAIN slots \union {k} |-> IF j \in DOMAIN slots THEN slots[j] ELSE new]
     IN  IF key \in DOMAIN byName \/ norm \in DOMAIN byNorm
         THEN KeepFields
         ELSE /\ fields' = Append(fields, FieldInfo(world, Sf, Index))
              /\ byName' = Taking(byName, key)
              /\ byNorm' = IF world.cfg.normalizer THEN Taking(byNorm, norm) ELSE byNorm
              /\ UNCHANGED remain
  /\ KeepQueue /\ UNCHANGED errs

\* addField: a taken key shadows the field; a taken normalized key does not,
\* it stays with the field that has it.
AddField ==
  /\ Turn /\ Claims(world, Sf) /\ ~Collects(world, Sf)
  /\ LET key  == KeyName(world, Sf)
         norm == Norm[key]
         new  == Len(fields) + 1
         Taking(slots, k) == [j \in DOMAIN slots \union {k} |-> IF j \in DOMAIN slots THEN slots[j] ELSE new]
     IN  IF key \in DOMAIN byName
         THEN KeepFields
         ELSE /\ fields' = Append(fields, FieldInfo(world, Sf, Index))
              /\ byName' = Taking(byName, key)
              /\ byNorm' = IF world.cfg.normalizer THEN Taking(byNorm, norm) ELSE byNorm
              /\ UNCHANGED remain
  /\ KeepQueue /\ UNCHANGED errs

\* The type is walked: on to the next one, of this level or of the next.
NextStruct ==
  /\ ~Done /\ at > Len(Declared)
  /\ at' = 1
  /\ level' = IF Len(level) > 1 THEN Tail(level) ELSE next
  /\ next'  = IF Len(level) > 1 THEN next ELSE << >>
  /\ KeepFields /\ UNCHANGED <<world, expanded, errs>>

Rest == Done /\ UNCHANGED vars

Next ==
  \/ SkipField \/ RefuseField \/ InlineField \/ InlineAgain
  \/ ClaimRemain \/ RemainAgain \/ AddField \/ NextStruct \/ Rest

Spec == Init /\ [][Next]_vars /\ WF_vars(Next)

-----------------------------------------------------------------------------
(* fieldByIndexWrite, as far as the declarations decide it: what an index  *)
(* path leads through.                                                     *)

\* The fields on a path of world w, from the outermost one inwards.
Chain(w, index) ==
  LET typeAt[n \in 1 .. Len(index)] ==
        IF n = 1 THEN w.root ELSE w.types[typeAt[n - 1]][index[n - 1]].base
  IN  [n \in 1 .. Len(index) |-> w.types[typeAt[n]][index[n]]]

\* The embedded pointers (by index path) that hide what is behind them when
\* nil; whether each may be allocated, and the field at the end set: reflection
\* refuses what is reached through an unexported field that is not embedded.
View(w, fi) ==
  LET chain    == Chain(w, fi.index)
      last     == Len(chain)
      pointers == {n \in 1 .. last - 1 : chain[n].type # chain[n].base}
      Blocked(n) == \E m \in 1 .. n : ~chain[m].exported /\ ~chain[m].embedded
  IN  [name |-> fi.name, type |-> fi.type, opts |-> fi.opts,
       emb   |-> {SubSeq(fi.index, 1, n) : n \in pointers},
       alloc |-> \A n \in pointers : chain[n].exported /\ ~Blocked(n),
       set   |-> ~Blocked(last)]

=============================================================================
