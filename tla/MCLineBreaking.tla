--------------------------- MODULE MCLineBreaking ---------------------------
(* TLC instances of LineBreaking: texts of three characters in which every *)
(* face may lack any of them, and texts of four with all ways to break.    *)
EXTENDS LineBreaking, HitTesting, TLC

CONSTANTS f1, f2, f3, latn, arab, lang

All == {f1, f2, f3}

(* A family is given its main chain, then chains linked to some tags.      *)
Family(main, linked) == linked @@ (Main :> main)
MCFamilies ==
    {Family(<<f1, f2, f3>>, <<>>),
     Family(<<f2, f1>>, arab :> <<f3>>),
     Family(<<f2>>, arab :> <<f3, f1>>),
     Family(<<f1>>, (lang :> <<f2, f3>>) @@ (latn :> <<f3>>)),
     Family(<<>>, (latn :> <<f1, f2>>) @@ (arab :> <<f1, f3>>))}

Run(rtl, from, to) == [rtl |-> rtl, from |-> from, to |-> to]
Range(script, start, end) == [script |-> script, start |-> start, end |-> end]
Latin == PiecesOf(Run(FALSE, 0, 3), <<Range(latn, 0, 3)>>)
Arabic == PiecesOf(Run(TRUE, 0, 3), <<Range(arab, 0, 3)>>)
LatinInArabic ==
    LET ranges == <<Range(arab, 0, 1), Range(latn, 1, 3)>>
    IN  PiecesOf(Run(FALSE, 1, 3), ranges) \o PiecesOf(Run(TRUE, 0, 1), ranges)
RightToLeft == PiecesOf(Run(TRUE, 0, 3), <<Range(arab, 0, 1), Range(latn, 1, 3)>>)

Sizes(n) == 0 .. n - 1
Coverages ==
    {f1 :> c1 @@ f2 :> c2 @@ f3 :> c3 :
        c1 \in SUBSET Sizes(3), c2 \in SUBSET Sizes(3), c3 \in {{0, 2}, Sizes(3)}}
Unbroken(joins, pieces, loads, families, attributed) ==
    [size : {3}, joined : joins, pieces : pieces, covers : Coverages, loads : loads,
     font : {TRUE}, data : families, language : {lang}, attributed : {attributed},
     advance : {[p \in Sizes(3) |-> 1]}, ops : {<<>>}, width : {0}, flags : {"NONE"}]

MCFallbackTexts ==
    Unbroken({{}, {1}}, {Latin, Arabic, LatinInArabic, RightToLeft},
             {All, {f2, f3}}, MCFamilies, FALSE)
MCFacelessTexts ==
    Unbroken({{1}}, {Latin, Arabic}, {All}, {NoFaces}, FALSE)

MCAttributedTexts(loads) ==
    Unbroken({{}}, {Latin, RightToLeft}, {loads}, MCFamilies, TRUE)

(* Boxes behind a face, and boxes of both pieces of a run: drawn twice.    *)
ArabicInLatin == PiecesOf(Run(FALSE, 0, 3), <<Range(arab, 0, 1), Range(latn, 1, 3)>>)
Boxed(n, pieces, font, family) ==
    [size : {n}, joined : {{}}, pieces : {pieces}, covers : {[f \in All |-> Sizes(n)]},
     loads : {All}, font : {font}, data : {family}, language : {lang}, attributed : {FALSE},
     advance : {[p \in Sizes(n) |-> 1]},
     ops : {<<[position |-> k, hard |-> h], [position |-> n, hard |-> FALSE]>> :
              k \in 1 .. n - 1, h \in BOOLEAN},
     width : {0, 2}, flags : {"WORD_BOUND", "ANYWHERE"}]
MCBoxedTexts ==
    Boxed(3, ArabicInLatin, TRUE, Family(<<>>, arab :> <<f1>>))
        \cup Boxed(2, PiecesOf(Run(TRUE, 0, 2), <<Range(arab, 0, 1), Range(latn, 1, 2)>>),
                   FALSE, NoFaces)

Opportunities(joined) ==
    LET positions == (1 .. 4) \ joined
        kinds == {kind \in [positions -> {"none", "soft", "hard"}] : kind[4] # "none"}
        OpsOf(kind) ==
            LET at == SelectSeq(<<1, 2, 3, 4>>,
                                LAMBDA p : p \in positions /\ kind[p] # "none")
            IN  [k \in DOMAIN at |-> [position |-> at[k], hard |-> kind[at[k]] = "hard"]]
    IN  {OpsOf(kind) : kind \in kinds}
(* One face without the character at 1, or no font.                        *)
BrokenIn(joined, widths, modes) ==
    [size : {4}, joined : {joined},
     pieces : {PiecesOf(Run(rtl, 0, 4), <<Range(latn, 0, 4)>>) : rtl \in BOOLEAN},
     covers : {[f \in All |-> {0, 2, 3}]}, loads : {All}, font : BOOLEAN,
     data : {Family(<<f1>>, <<>>)}, language : {lang}, attributed : {FALSE},
     advance : {f \in [Sizes(4) -> {1, 2}] : f[1] = 2 /\ f[2] = 1 /\ f[0] # f[3]},
     ops : Opportunities(joined), width : widths, flags : modes]

Broken(joined) ==
    BrokenIn(joined, {0, 2, 3}, {"WORD_BOUND", "ANYWHERE"})
        \cup BrokenIn(joined, {2}, BreakModes)

MCBrokenTexts == Broken({}) \cup Broken({1}) \cup Broken({2}) \cup Broken({2, 3})
MCLoadedTexts == MCAttributedTexts(All)

MCTexts ==
    MCFallbackTexts \cup MCFacelessTexts \cup MCLoadedTexts \cup MCBrokenTexts
        \cup MCBoxedTexts
MCTextsWithUnloadedFaces == MCAttributedTexts({f1, f3})
=============================================================================
