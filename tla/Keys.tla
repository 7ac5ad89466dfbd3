--------------------------------- MODULE Keys ---------------------------------
(***************************************************************************)
(* The key functions and normalizers of keyfunc.go.  A name is split and   *)
(* its words are written in a style; what comes out is split and written   *)
(* again, as when a key is derived from a key.                             *)
(***************************************************************************)
EXTENDS Words, SequencesExt

CONSTANT MaxRenders  \* bound: styles applied one after the other

VARIABLE past  \* [text, words, style] of each text that was split and written

keyVars == <<vars, past>>

ToLower(c) == IF c = "upper" THEN "lower" ELSE c
ToUpper(c) == IF c \in {"lower", "variant"} THEN "upper" ELSE c

Lowered(t) == [n \in DOMAIN t |-> ToLower(t[n])]

\* Mutant: only the first rune is touched.
TitleFirst(t) == [n \in DOMAIN t |-> IF n = 1 THEN ToUpper(t[n]) ELSE t[n]]

Title(t) == [n \in DOMAIN t |-> IF n = 1 THEN ToUpper(t[n]) ELSE ToLower(t[n])]

Parts == [n \in DOMAIN words |-> SubSeq(text, words[n].from, words[n].to - 1)]

\* Mutants: the words are joined by nothing, or by a dot.
JoinedTight(parts)  == FlattenSeq([n \in DOMAIN parts |-> Lowered(parts[n])])
JoinedDotted(parts) == FlattenSeq([n \in DOMAIN parts |->
                                     (IF n > 1 THEN <<"dot">> ELSE << >>) \o Lowered(parts[n])])

Joined(parts) == FlattenSeq([n \in DOMAIN parts |->
                               (IF n > 1 THEN <<"dash">> ELSE << >>) \o Lowered(parts[n])])
PascalCase(parts) == FlattenSeq([n \in DOMAIN parts |-> Title(parts[n])])
CamelCase(parts) == FlattenSeq([n \in DOMAIN parts |->
                                  IF n = 1 THEN Lowered(parts[n]) ELSE Title(parts[n])])

\* LooseKey: no dash, no underscore, no space and no capital; a dot is kept.
LooseKey(t) ==
  FlattenSeq([n \in DOMAIN t |-> IF t[n] = "dash" THEN << >> ELSE <<ToLower(t[n])>>])

\* SnakeCase and KebabCase, which differ in the dash, and FoldKey and LowerCase,
\* which are strings.ToLower.
Styles == {"joined", "pascal", "camel", "lower"}
Written(style, t, parts) == CASE style = "joined" -> Joined(parts)
                              [] style = "pascal" -> PascalCase(parts)
                              [] style = "camel"  -> CamelCase(parts)
                              [] style = "lower"  -> Lowered(t)

Split == i = Len(text) + 2

Render(style) ==
  /\ Split /\ Len(past) < MaxRenders
  /\ past' = Append(past, [text |-> text, parts |-> Parts, style |-> style])
  /\ text' = Written(style, text, Parts)
  /\ i' = 1 /\ start' = 0 /\ words' = << >>

KeysInit == Init /\ past = << >>
KeysNext == (Next /\ UNCHANGED past) \/ \E style \in Styles : Render(style)
KeysSpec == KeysInit /\ [][KeysNext]_keyVars /\ WF_keyVars(Next /\ UNCHANGED past)

-----------------------------------------------------------------------------
(* Properties.                                                             *)

Has(t, c) == \E n \in DOMAIN t : t[n] = c

\* A key derived by any style, and by any style from that one, is found under
\* the name it was derived from by the default matcher: LooseKey and every key
\* function agree on what a key is (keyfunc.go:29).  Not so for a dot, which
\* only the key functions drop, or for a letter that loses itself as a capital.
LooseMatches ==
  past # << >> /\ ~Has(past[1].text, "dot") /\ ~Has(past[1].text, "variant")
    => LooseKey(text) = LooseKey(past[1].text)

\* A style that keeps the words apart keeps them for good: split again, it is
\* the same words, lowered.
JoinedKeepsWords ==
  Split /\ past # << >> /\ past[Len(past)].style = "joined" =>
    Parts = [n \in DOMAIN past[Len(past)].parts |-> Lowered(past[Len(past)].parts[n])]

\* A word that a capital marks: two letters with case or more, or digits.
Marked(part) ==
  \/ /\ Len(part) > 1
     /\ part[1] \in {"upper", "lower"} /\ part[2] \in {"upper", "lower", "variant"}
  \/ part[1] = "digit"

\* Capitals keep words apart too, if each is long enough to show one and no
\* digits touch: then CamelCase and PascalCase can be undone, SnakeCase of them
\* is SnakeCase of the name.
CapitalsKeepWords ==
  Split /\ past # << >> /\ past[Len(past)].style \in {"camel", "pascal"} =>
    LET parts == past[Len(past)].parts
    IN  /\ \A n \in DOMAIN parts : Marked(parts[n])
        /\ \A n \in DOMAIN parts \ {1} : ~(parts[n][1] = "digit" /\ parts[n - 1][1] = "digit")
        => Joined(Parts) = Joined([n \in DOMAIN parts |-> Lowered(parts[n])])

\* splitWords returns, however often it is called.
Termination == []<>Split

=============================================================================
