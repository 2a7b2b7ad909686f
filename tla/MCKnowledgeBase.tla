---------------------------- MODULE MCKnowledgeBase ----------------------------
EXTENDS KnowledgeBase

\* A gap the dictionary closes, one with two words, and one with too many letters missing.
Gap(candidates, fits, right) == [candidates |-> candidates, fits |-> fits, right |-> right]

MCGaps == [plain |-> <<>>,
           sure |-> <<Gap({"winter"}, {}, "winter")>>,
           open |-> <<Gap({"winter"}, {}, "winter"), Gap({"wood", "word"}, {}, "word")>>,
           long |-> <<Gap({}, {"autumn"}, "autumn")>>]
MCTexts == DOMAIN MCGaps

Choice(gap, word) == [gap |-> gap, word |-> word]
MCReplies == {<<>>, <<Choice(2, "word")>>, <<Choice(2, "wood"), Choice(1, "wood")>>,
              <<Choice(1, "autumn"), Choice(2, "word"), Choice(2, "autumn")>>}
=============================================================================
