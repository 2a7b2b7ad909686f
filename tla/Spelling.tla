------------------------------- MODULE Spelling -------------------------------
(***************************************************************************)
(* A copied exercise and its text (subjects/russian: align.py, check.py,   *)
(* recognize.py, module.py): from the words the OCR found on a page of the *)
(* notebook to the questions the child is asked.                           *)
(*                                                                         *)
(* A child copies an exercise word by word, with slips, words left out or  *)
(* added, hyphens and dashes at the ends of lines, a heading above, marks  *)
(* on the margin and another work below.  The OCR tears lines; it reads    *)
(* the letters as they are written.  What is checked is the page as it     *)
(* stands after every word.  A word is its normal form, a sequence of      *)
(* letters; the letters missing from a gap that was not resolved are not   *)
(* in it.  Costs are in tenths.  The order of the questions is left out.   *)
(***************************************************************************)
EXTENDS Integers, Sequences, FiniteSets, SequencesExt, FiniteSetsExt

CONSTANTS
    Textbooks,  \* pages of a textbook: sequences of exercises, see MCSpelling
    Slips,      \* Slips[w]: what a child may write for the word w
    Split,      \* Split[w]: the two parts of w at the end of a line
    Added,      \* words a child may add
    Below,      \* the work that may follow: sequences of words
    Tears,      \* places where the OCR tears a line: [row, after]; NoTear is one
    MaxSlips,   \* bound: slips in one text
    MaxEnds     \* bound: lines of the text

NoTear == [row |-> 0, after |-> 0]
Blank == [kind |-> "word", form |-> <<>>, n |-> 0, line |-> 0]
Word(form) == [Blank EXCEPT !.form = form]

VARIABLES
    textbook,  \* the page of the textbook
    own,       \* the exercise the child copies
    lines,     \* the rows of the notebook: sequences of marks
    margin,    \* is there a number on the margin?
    tear,      \* where the OCR tears a row
    text,      \* the words the child wrote, headings and parts of words aside
    at,        \* the words of the exercise that are behind
    slips      \* what went wrong: [kind, expected, actual, at]

svars == <<textbook, own, lines, margin, tear, text, at, slips>>

----------------------------------------------------------------------------
(* align.py                                                                *)

Lesser(a, b) == IF a <= b THEN a ELSE b

\* levenshtein(a, b) <= k
Within(a, b, k) ==
    LET within[i \in 1 .. Len(a) + 1, j \in 1 .. Len(b) + 1, n \in -1 .. k] ==
            /\ Len(a) - i <= Len(b) - j + n /\ Len(b) - j <= Len(a) - i + n
            /\ \/ i > Len(a) \/ j > Len(b)
               \/ IF a[i] = b[j] THEN within[i + 1, j + 1, n]
                  ELSE \/ within[i + 1, j + 1, n - 1] \/ within[i + 1, j, n - 1]
                       \/ within[i, j + 1, n - 1]
    IN within[1, 1, k]

\* At least half of the letters agree.
Similar(a, b) == Within(a, b, (IF Len(a) <= Len(b) THEN Len(b) ELSE Len(a)) \div 2)

\* Mutant of GapCost: a word left out and one added cost more than two words that do not match.
GapCostHigh == 7

GapCost == 5
SubstCost(expected, actual) ==
    IF expected = actual THEN 0 ELSE IF Similar(expected, actual) THEN 5 ELSE 12

\* Costs(..)[i + 1][j + 1]: the least cost of aligning the first i and j words
Costs(expected, actual) ==
    LET row(i, above) ==
            LET upTo[j \in 0 .. Len(actual)] ==
                    IF j = 0 THEN <<i * GapCost>>
                    ELSE LET done == upTo[j - 1]
                         IN Append(done, Lesser(above[j] + SubstCost(expected[i], actual[j]),
                                                Lesser(above[j + 1], done[j]) + GapCost))
            IN upTo[Len(actual)]
        table[i \in 0 .. Len(expected)] ==
            IF i = 0 THEN <<[j \in 1 .. Len(actual) + 1 |-> (j - 1) * GapCost]>>
            ELSE LET above == table[i - 1] IN Append(above, row(i, above[i]))
    IN table[Len(expected)]

Pair(kind, i, j) == [kind |-> kind, i |-> i, j |-> j]

\* Back from the end: two words that go together, else an added word, else one left out.
Align(expected, actual) ==
    LET cost == Costs(expected, actual)
        back[i \in 0..Len(expected), j \in 0..Len(actual)] ==
            IF i = 0 /\ j = 0 THEN <<>>
            ELSE LET step == SubstCost(expected[i], actual[j])
                 IN IF i > 0 /\ j > 0 /\ cost[i + 1][j + 1] = cost[i][j] + step
                    THEN Append(back[i - 1, j - 1], Pair(IF step = 0 THEN "match" ELSE "subst", i, j))
                    ELSE IF j > 0 /\ cost[i + 1][j + 1] = cost[i + 1][j] + GapCost
                    THEN Append(back[i, j - 1], Pair("extra", 0, j))
                    ELSE Append(back[i - 1, j], Pair("missing", i, 0))
    IN back[Len(expected), Len(actual)]

----------------------------------------------------------------------------
(* recognize.py: the page of a notebook becomes one task.                  *)

\* Rows of paper, in tenths of the height of a word: they stand close, and drift down to the right.
Center(mark) == 8 * mark.row + mark.col
LineGap == 6

\* Twice the median of the centres of a row
RowCenter(row) ==
    LET centers == SortSeq([k \in DOMAIN row |-> Center(row[k])], LAMBDA a, b : a < b)
        n == Len(row)
    IN centers[(n + 1) \div 2] + centers[n \div 2 + 1]

\* Words of the two parts stand above each other.
OverlapInX(left, right) ==
    LET columns(row) == {row[k].col : k \in DOMAIN row}
    IN Max(columns(left)) >= Min(columns(right)) /\ Max(columns(right)) >= Min(columns(left))

SameRow(row, chunk) ==
    /\ RowCenter(chunk) - RowCenter(row) <= 2 * LineGap
    /\ ~OverlapInX(row, chunk)

\* What the OCR took for lines: a torn row is two of them, the right one first.
Placed(row) == [k \in DOMAIN lines[row] |-> lines[row][k] @@ [row |-> row, col |-> k]]
Chunks ==
    FlattenSeq([row \in DOMAIN lines |->
        IF tear.row = row /\ tear.after \in 1..(Len(lines[row]) - 1)
        THEN <<SubSeq(Placed(row), tear.after + 1, Len(lines[row])),
               SubSeq(Placed(row), 1, tear.after)>>
        ELSE IF lines[row] = <<>> THEN <<>> ELSE <<Placed(row)>>])

\* _reading_order: parts from top to bottom, those of one row together, words from left to right
ReadingOrder ==
    LET down == SortSeq(Chunks, LAMBDA a, b : RowCenter(a) < RowCenter(b))
        rows == FoldLeft(LAMBDA done, chunk :
                           IF done # <<>> /\ SameRow(Last(done), chunk)
                           THEN Append(Front(done), Last(done) \o chunk) ELSE Append(done, chunk),
                         <<>>, down)
        across(row) == SortSeq(row, LAMBDA a, b : a.col < b.col)
    IN FlattenSeq([r \in DOMAIN rows |-> [k \in DOMAIN rows[r] |->
                      [across(rows[r])[k] EXCEPT !.line = r]]])

\* A number on the margin is in no line, and stands before the first one.
OnMargin == IF margin THEN <<[Blank EXCEPT !.kind = "number", !.n = 9]>> ELSE <<>>

LineOf(words, l) == SelectSeq(words, LAMBDA w : w.line = l)
Number(mark) == mark.kind \in {"number", "dotted"}

\* header_number: "Упр. 245" and "№245" anywhere in the first two lines, else "245." alone in one
HeaderNumber(first, second) ==
    LET named(line) == {line[k].n : k \in {x \in DOMAIN line : line[x].kind = "glued"}}
                       \cup {line[k].n : k \in {x \in DOMAIN line : x > 1 /\ Number(line[x])
                                                   /\ line[x - 1].kind = "keyword"}}
        bare(line) == IF Len(line) = 1 /\ Number(line[1]) THEN {line[1].n} ELSE {}
        found == SelectSeq(<<named(first), named(second), bare(first), bare(second)>>,
                           LAMBDA s : s # {})
    IN IF found = <<>> THEN 0 ELSE Min(found[1])

\* number = 0: none is written; the marks of the margin go to the first line.
NotebookTask ==
    LET words == ReadingOrder
    IN [words |-> OnMargin \o words,
        number |-> HeaderNumber(OnMargin \o LineOf(words, 1), LineOf(words, 2))]

----------------------------------------------------------------------------
(* check.py: the words of the body                                         *)

IsWord(mark) == mark.form # <<>>

\* _header_prefix: the marks at the start of a line that are a heading
HeaderPrefix(line, number) ==
    LET marks(k) == CASE line[k].kind = "glued" -> 1
                      [] line[k].kind = "keyword" /\ k < Len(line) /\ Number(line[k + 1]) -> 2
                      [] line[k].kind = "dotted" /\ number # 0 /\ line[k].n = number -> 1
                      [] OTHER -> 0
        upTo[k \in 1 .. Len(line) + 1] ==
            IF k > Len(line) \/ marks(k) = 0 THEN k - 1 ELSE upTo[k + marks(k)]
    IN upTo[1]

IsDate(line) == Len(line) = 2 /\ line[1].kind = "number" /\ line[2].kind = "month"
IsWork(line) == Len(line) = 1 /\ line[1].kind = "title"

\* _body_words: without the furniture of the first two lines, the margin and what is no word
BodyWords(task) ==
    LET lined == SelectSeq(task.words, LAMBDA w : w.line # 0)
        rest(l) == LET line == LineOf(lined, l)
                   IN IF l > 2 THEN line
                      ELSE IF IsDate(line) \/ IsWork(line) THEN <<>>
                      ELSE SubSeq(line, HeaderPrefix(line, task.number) + 1, Len(line))
    IN SelectSeq(FlattenSeq([l \in 1..Len(lines) |-> rest(l)]), IsWord)

\* Mutant of IsHyphenation: a line that ends in a hyphen always ends in a part of a word.
IsHyphenationAny(stem, right, reference) == TRUE

\* A dash at the end of a line looks the same: the whole has to be in the exercise, or no part of it.
IsHyphenation(stem, right, reference) ==
    \/ stem \o right \in reference
    \/ stem \notin reference /\ right \notin reference

\* merge_hyphenation: the two parts of a word are one word.
MergeHyphenation(words, reference) ==
    LET joins(k) == /\ k < Len(words) /\ words[k].kind = "half" /\ Len(words[k].form) >= 2
                    /\ words[k + 1].line > words[k].line
                    /\ IsHyphenation(words[k].form, words[k + 1].form, reference)
        step(acc, k) ==
            IF acc.skip THEN [acc EXCEPT !.skip = FALSE]
            ELSE IF joins(k)
            THEN [out |-> Append(acc.out, words[k].form \o words[k + 1].form), skip |-> TRUE]
            ELSE [acc EXCEPT !.out = Append(@, words[k].form)]
    IN FoldLeft(step, [out |-> <<>>, skip |-> FALSE], [k \in DOMAIN words |-> k]).out

----------------------------------------------------------------------------
(* check.py: what the child is asked                                       *)

GoTogether(pair) == pair.kind \in {"match", "subst"}
Matched(pairs) == {k \in DOMAIN pairs : GoTogether(pairs[k])}

\* A gap that was not resolved is not asked about, nor the word that stands in its place.
UnresolvedDrop(pairs, unresolved) ==
    LET gaps == {k \in DOMAIN pairs : pairs[k].i \in unresolved}
    IN gaps \cup {k \in DOMAIN pairs : pairs[k].kind = "extra" /\
                    \E g \in gaps : pairs[g].kind = "missing" /\ k \in {g - 1, g + 1}}

\* Mutant of Furniture: a word left out at either end is not asked about.
FurnitureAll(kind) == kind \in {"extra", "missing"}

\* Added words above and below the text are another work.
Furniture(kind) == kind = "extra"
OuterExtra(pairs) ==
    IF Matched(pairs) = {} THEN {}
    ELSE {k \in DOMAIN pairs : /\ Furniture(pairs[k].kind)
                               /\ k < Min(Matched(pairs)) \/ k > Max(Matched(pairs))}

Window(pairs) ==
    IF Matched(pairs) = {} THEN DOMAIN pairs ELSE Min(Matched(pairs))..Max(Matched(pairs))

Structural == {"missing", "extra"}
Asked(kind, expected, actual) == [kind |-> kind, expected |-> expected, actual |-> actual]
Uncertain == {Asked("uncertain", <<>>, <<>>)}

\* check_words, from the pairs on; the shares as fractions
Questions(expected, words, pairs, gaps) ==
    LET drop == UnresolvedDrop(pairs, gaps) \cup OuterExtra(pairs)
        inside == Window(pairs)
        count(ks, kinds) == Cardinality({k \in ks : pairs[k].kind \in kinds})
        size == count(inside, Structural) + 2 * Cardinality(Matched(pairs))
        aligned == Matched(pairs) \ drop
        asked(k) == CASE pairs[k].kind = "subst" ->
                           Asked("spelling", expected[pairs[k].i], words[pairs[k].j])
                      [] pairs[k].kind = "missing" -> Asked("missing", expected[pairs[k].i], <<>>)
                      [] OTHER -> Asked("extra", <<>>, words[pairs[k].j])
    IN IF \/ words = <<>>
          \/ 2 * Cardinality(Matched(pairs)) < Len(expected)
          \/ 10 * count(inside \ drop, Structural) > 4 * size
          \/ Len(expected) >= 5 /\ 2 * count(aligned, {"subst"}) > Cardinality(aligned)
       THEN Uncertain
       ELSE {asked(k) : k \in {x \in DOMAIN pairs : pairs[x].kind # "match"} \ drop}

CheckWords(task, reference) ==
    LET expected == reference.words
        words == MergeHyphenation(BodyWords(task), Range(expected))
    IN IF expected = <<>> THEN {}
       ELSE UNION {Questions(expected, words, pairs, reference.unresolved) :
                     pairs \in {Align(expected, words)}}

----------------------------------------------------------------------------
(* module.py: the exercise a task is checked against                       *)

\* textbook_tasks: the printed number, or the smallest one that is free
Numbered ==
    LET printed == {textbook[e].printed : e \in DOMAIN textbook} \ {0}
        number(numbers, e) ==
            Append(numbers, IF textbook[e].printed # 0 THEN textbook[e].printed
                            ELSE Min((1..(2 * Len(textbook))) \ (printed \cup Range(numbers))))
    IN FoldLeft(number, <<>>, [e \in DOMAIN textbook |-> e])

\* The words each exercise has in common with the page
Shares(task) ==
    LET actual == [k \in DOMAIN task.words |-> task.words[k].form]
        matches(pairs) == Len(SelectSeq(pairs, LAMBDA pair : pair.kind = "match"))
    IN FoldLeft(LAMBDA shares, e : Append(shares, matches(Align(e.words, actual))), <<>>, textbook)

Enough(share, size) == 10 * share >= 4 * size

\* _pair_by_words: the first of the exercises with the largest share
ByWords(task) ==
    LET shares == Shares(task)
        size(e) == Len(textbook[e].words)
        more(e, f) == shares[e] * size(f) > shares[f] * size(e)
    IN {e \in DOMAIN textbook :
          /\ task.words # <<>> /\ shares[e] > 0 /\ Enough(shares[e], size(e))
          /\ \A f \in DOMAIN textbook : ~more(f, e) /\ (more(e, f) \/ e <= f)}

\* The number the child wrote, the only exercise there is, or the words; the last of equal numbers
Paired(task) ==
    LET named == {e \in DOMAIN textbook : task.number # 0 /\ Numbered[e] = task.number}
    IN IF named # {} THEN {Max(named)}
       ELSE IF Len(textbook) = 1 THEN {1} ELSE ByWords(task)

\* check; nobody is asked about an exercise that was not found
ResultOf(task, pair) ==
    IF pair = {} THEN Uncertain ELSE UNION {CheckWords(task, textbook[e]) : e \in pair}
Result == UNION {ResultOf(task, Paired(task)) : task \in {NotebookTask}}

----------------------------------------------------------------------------
(* The child writes.                                                       *)

Source == textbook[own].right
Finished == at >= Len(Source)
LastLine == lines[Len(lines)]

SInit ==
    /\ textbook \in Textbooks /\ own \in DOMAIN textbook
    /\ \E heading \in textbook[own].headings : lines = Append(heading, <<>>)
    /\ margin \in BOOLEAN /\ tear \in Tears
    /\ text = <<>> /\ at = 0 /\ slips = <<>>

OnLine(mark) == lines' = [lines EXCEPT ![Len(lines)] = Append(@, mark)]
OverTwo(left, right) ==
    /\ Len(lines) < MaxEnds
    /\ lines' = Append([lines EXCEPT ![Len(lines)] =
                           Append(@, [Word(left) EXCEPT !.kind = "half"])], right)

\* In the line, in two parts at the end of a line that has other words, or with a dash after a
\* word of the text
Put(w) ==
    /\ text' = Append(text, w)
    /\ \/ OnLine(Word(w))
       \/ LastLine # <<>> /\ \E parts \in Split[w] : OverTwo(parts[1], <<Word(parts[2])>>)
       \/ /\ w \in Range(textbook[own].words) /\ at + 1 < Len(Source)
          /\ OverTwo(w, <<>>)

Untouched == <<textbook, own, margin, tear>>
Slipped(kind, expected, actual) ==
    /\ Len(slips) < MaxSlips
    /\ slips' = Append(slips, Asked(kind, expected, actual) @@ [at |-> at])

Copy ==
    /\ ~Finished /\ at' = at + 1 /\ Put(Source[at + 1])
    /\ UNCHANGED <<slips, Untouched>>

Slip ==
    /\ ~Finished /\ at' = at + 1
    /\ \E w \in Slips[Source[at + 1]] : Put(w) /\ Slipped("spelling", Source[at + 1], w)
    /\ UNCHANGED Untouched

LeaveOut ==
    /\ ~Finished /\ at' = at + 1 /\ Slipped("missing", Source[at + 1], <<>>)
    /\ UNCHANGED <<lines, text, Untouched>>

Add ==
    /\ ~Finished
    /\ \E w \in Added : Put(w) /\ Slipped("extra", <<>>, w)
    /\ UNCHANGED <<at, Untouched>>

OtherWork ==
    /\ at = Len(Source) /\ LastLine # <<>> /\ Len(lines) < MaxEnds
    /\ \E words \in Below : lines' = Append(lines, [k \in DOMAIN words |-> Word(words[k])])
    /\ at' = at + 1
    /\ UNCHANGED <<text, slips, Untouched>>

SNext == Copy \/ Slip \/ LeaveOut \/ Add \/ OtherWork

SSpec == SInit /\ [][SNext]_svars

----------------------------------------------------------------------------
(* Properties.                                                             *)

Open(w) == \E i \in textbook[own].unresolved : Source[i] = w

\* A copy without mistakes gets no question, whatever stands above, below and beside it, wherever
\* a word is carried over to the next line, and whichever row the OCR tears: it is checked against
\* the exercise it is a copy of (check_words, _pair_by_words, merge_hyphenation, _reading_order).
ExactCopyIsClean ==
    Finished /\ slips = <<>> => Result = {} /\ Paired(NotebookTask) = {own}

\* Nobody is told that all is right unless every word of the exercise that is known was written,
\* in its order: a word can not be lost in a share, among the words dropped or in another exercise
\* (check_words, _unresolved_drop_indices, _outer_extra_indices, _pair_by_words).
NothingPassedOver ==
    LET known == SelectSeq([i \in DOMAIN Source |-> i], LAMBDA i : i \notin textbook[own].unresolved)
        found == FoldLeft(LAMBDA k, w : IF k < Len(known) /\ Source[known[k + 1]] = w
                                        THEN k + 1 ELSE k, 0, text)
    IN found < Len(known) => Result # {}

\* The results that answer the slip s.  A slip too far from the word is taken for two: a word left
\* out and one added.  A word added before the first one of the text, or repeating it, is furniture.
Answering(s) ==
    LET swapped == s.kind = "spelling" /\ ~Similar(s.expected, s.actual)
        asked == IF swapped THEN Asked("missing", s.expected, <<>>)
                 ELSE Asked(s.kind, s.expected, s.actual)
        more == IF swapped THEN {Asked("extra", <<>>, s.actual)} ELSE {}
        furniture == s.kind = "extra" /\ (s.at = 0 \/ (s.at = 1 /\ s.actual = Source[1]))
    IN {Uncertain} \cup {{asked} \cup also : also \in SUBSET more}
       \cup IF furniture THEN {{}} ELSE {}

\* One mistake, one question, about the words in question: a slip is not taken for a word left out
\* and one added, nor the other way round, and no other word is asked about; an added word is not
\* asked about before the first word of the text, nor its repetition (align, _subst_cost, _outer_extra_indices).
OneMistakeOneQuestion ==
    Finished /\ Len(slips) = 1 /\ ~Open(slips[1].expected) => Result \in Answering(slips[1])

\* module.py:178: numbers that were handed out agree by chance and do not make a pair, so a copy
\* without mistakes is not compared with another exercise of the page.
OwnExercise ==
    Finished /\ slips = <<>> => Paired(NotebookTask) = {own}
=============================================================================
