------------------------------ MODULE MCSpelling ------------------------------
EXTENDS Spelling

les == <<"l", "e", "s">>
zima == <<"z", "i", "m", "a">>
ma == <<"m", "a">>
son == <<"s", "o", "n">>
sneg == <<"s", "n", "e", "g">>
lis == <<"l", "i", "s">>
snek == <<"s", "n", "e", "k">>
sima == <<"s", "i", "m", "a">>
da == <<"d", "a">>
dub == <<"d", "u", "b">>

Mark(kind, n) == [Blank EXCEPT !.kind = kind, !.n = n]
Letters(kind, form) == [Word(form) EXCEPT !.kind = kind]
Date == <<Mark("number", 17), Letters("month", <<"m", "a", "y">>)>>
Title == <<Letters("title", <<"w", "o", "r", "k">>)>>
Heading(n) == <<Letters("keyword", <<"u", "p">>), Mark("number", n)>>

\* words: the text of the textbook; right: with the letters of the gaps that stay open
Exercise(printed, words, right, unresolved, headings) ==
    [printed |-> printed, words |-> words, right |-> right, unresolved |-> unresolved,
     headings |-> headings]

Plain(printed, words, headings) == Exercise(printed, words, words, {}, headings)

MCTextbooks == {
    <<Plain(245, <<les, zima, ma>>, {<<>>, <<Date, Title>>, <<Date, Heading(245)>>})>>,
    <<Plain(0, <<les, zima>>, {<<>>}),
      Plain(2, <<son, sneg, ma>>, {<<Date>>, <<<<Mark("dotted", 2)>>>>, <<<<Mark("glued", 2)>>>>})>>,
    <<Exercise(0, <<les, <<"s", "g">>, zima, son, ma>>, <<les, sneg, zima, son, ma>>, {2}, {<<>>})>>}

\* A photo without the number of an exercise, and a child that writes it
MCCut == {<<Plain(0, <<les, zima>>, {<<Heading(2)>>}), Plain(0, <<son, sneg, ma>>, {<<>>})>>}

MCSlips == (les :> {lis, dub}) @@ (zima :> {sima}) @@ (ma :> {da}) @@ (son :> {dub})
           @@ (sneg :> {snek})
Parts(left, right) == {<<left, right>>}
MCSplit == (les :> {}) @@ (zima :> Parts(<<"z", "i">>, ma)) @@ (ma :> {}) @@ (son :> {})
           @@ (sneg :> Parts(<<"s", "n">>, <<"e", "g">>)) @@ (snek :> Parts(<<"s", "n">>, <<"e", "k">>))
           @@ (lis :> {}) @@ (sima :> {}) @@ (da :> {}) @@ (dub :> {})
MCAdded == {dub, les}
MCBelow == {<<dub, <<"p", "e", "n">>>>}
MCTears == {NoTear, [row |-> 1, after |-> 1], [row |-> 2, after |-> 2]}
=============================================================================
