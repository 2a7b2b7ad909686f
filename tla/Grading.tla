------------------------------- MODULE Grading --------------------------------
(***************************************************************************)
(* The verdict on a child's work in mathematics, without a model:          *)
(* recalculation of every line (pipeline/validator.py), doubt about how a  *)
(* line was read (pipeline/reading.py), the verdict with its reason        *)
(* (pipeline/grade.py), and the findings made of it (subjects/math,        *)
(* subjects/base.py).  A line is what the parser makes of it               *)
(* (pipeline/mathparse.py): the values between its signs of equality, or   *)
(* the root of its equation.  Values are fractions <<p, q>>.               *)
(*                                                                         *)
(* The page grows line by line, so every page of at most given.most lines  *)
(* is judged.                                                              *)
(***************************************************************************)
EXTENDS Integers, Sequences, FiniteSets, SequencesExt

CONSTANT
    Works        \* what a child may be given and write: records
                 \*   lines      the lines that may stand on the page, see Blank
                 \*   most       bound: how many of them
                 \*   condition  as printed: [parts, items, division, result]
                 \*   answer     as read: <<"none">>, <<"garbled">>, <<"unreadable">>, <<"value", v>>
                 \*   ref        the reference answer: a value, or NoValue when it can not be read

VARIABLES
    page,        \* the lines written so far
    given        \* the work

NoValue == <<0, 0>>
NoRoot == <<0, 0>>

\* What a line can be in a column: a "number" alone, a "signed" number, a "sign" alone, a "rule"
\* of dashes; op: its sign; number: without the sign; many: it has two digits or more
NoColumn == [kind |-> "none", op |-> "none", number |-> NoValue, many |-> FALSE]

\* form: "equality" with at least two values; "continued" starts with "=" and goes on from the line
\*   above; "number" and "example" are an answer and an expression without "="; "equation",
\*   "assignment" and "answer" have one variable; "statement" has "=" and is not read; "text" is
\*   anything else
\* reread: values with ":" of the notebook taken for the printed sign of multiplication
\* label: letter of the item; copied: as many signs as the printed expression of that item
\* root, sound: root of the first pair of an equation's parts, and whether the other pairs agree
\* shared: numbers it shares with the line of the chain before it
\* fraction, negative: such numbers are written in it; division: so is ":" between two numbers
\* unreadable: part of it was not read
\* exercise: what the child was solving in this line; nothing in the code sees it
Blank == [form |-> "text", values |-> <<>>, reread |-> <<>>, label |-> "none", copied |-> FALSE,
          variable |-> "x", root |-> NoRoot, sound |-> TRUE, shared |-> 0, column |-> NoColumn,
          fraction |-> FALSE, negative |-> FALSE, division |-> FALSE, unreadable |-> FALSE,
          exercise |-> 1]

\* What the parser makes of a line has a shape: an equality has two sides at least, a line that goes
\* on starts with its sign and so has no label, rereading touches the left side only, and the lines
\* of a column are numbers and signs.
Fractions == Int \X (Nat \ {0})
WellFormed(line) ==
    /\ line.values \in Seq(Fractions) /\ line.shared \in Nat /\ line.sound \in BOOLEAN
    /\ line.form = "equality" => Len(line.values) >= 2
    /\ line.form \in {"continued", "number", "example"} => Len(line.values) >= 1
    /\ line.form \in {"number", "example"} => Len(line.values) = 1
    /\ line.form = "continued" => line.label = "none"
    /\ line.reread \in Seq(Fractions)
    /\ line.reread # <<>> =>
          Tail(line.reread) = IF line.form = "continued" THEN line.values ELSE Tail(line.values)
    /\ line.copied => line.form = "equality"
    /\ line.column.kind \in {"number", "signed"} => line.column.number \in Fractions
    /\ line.column.kind = "number" => line.form = "number" /\ line.values = <<line.column.number>>
    /\ line.column.op # "none" <=> line.column.kind \in {"signed", "sign"}

Same(v, w) == v[1] * w[2] = w[1] * v[2]
AllSame(values) == \A i \in DOMAIN values : Same(values[i], values[1])

----------------------------------------------------------------------------
(* _column_results: a column is an equality on the line of its result.     *)

Kind(lines, i) == lines[i].column.kind

\* What stands like a column with its result in line n: a number and a number with a sign, in either
\* order, or a sign between two numbers; then a rule, or none; then the result.
Shaped(lines, n) ==
    {c \in [from : 1 .. n, last : 1 .. n, to : {n}] :
       /\ Kind(lines, n) = "number"
       /\ c.last = n - 1 \/ (c.last = n - 2 /\ Kind(lines, n - 1) = "rule")
       /\ \/ /\ c.last = c.from + 1
             /\ {Kind(lines, c.from), Kind(lines, c.last)} = {"number", "signed"}
          \/ /\ c.last = c.from + 2
             /\ Kind(lines, c.from) = "number" /\ Kind(lines, c.last) = "number"
             /\ Kind(lines, c.from + 1) = "sign"}

Sign(lines, c) == LET i == CHOOSE i \in c.from .. c.last : lines[i].column.op # "none"
                  IN lines[i].column.op
Long(lines, c) == lines[c.from].column.many /\ lines[c.last].column.many

\* The value of what stands above the result
Worked(lines, c) ==
    LET v == lines[c.from].column.number
        w == lines[c.last].column.number
        op == Sign(lines, c)
    IN CASE op = "plus" -> <<v[1] * w[2] + w[1] * v[2], v[2] * w[2]>>
         [] op = "minus" -> <<v[1] * w[2] - w[1] * v[2], v[2] * w[2]>>
         [] OTHER -> <<v[1] * w[1], v[2] * w[2]>>

\* Under a product of two long numbers come the partial products, not the result.
Partial(lines, c) == Sign(lines, c) = "times" /\ Long(lines, c)
\* "5 / -3 / 3" without a rule: three answers rather than a column
Short(lines, c) == c.last = c.to - 1 /\ ~Long(lines, c)

\* Mutant of IsColumn: short numbers make a column without a rule too.
IsColumnShort(lines, c) == ~Partial(lines, c)
\* Mutant of IsColumn: a rule does not make a column of short numbers.
IsColumnLong(lines, c) == ~Partial(lines, c) /\ Long(lines, c)

\* _match_column
IsColumn(lines, c) == ~Partial(lines, c) /\ ~Short(lines, c)

\* From the first line on, each that begins below the one before it
ColumnResults(lines) ==
    LET found[n \in 0 .. Len(lines)] ==
            IF n = 0 THEN {}
            ELSE LET above == found[n - 1]
                 IN above \cup {c \in Shaped(lines, n) :
                                   IsColumn(lines, c) /\ \A d \in above : d.to < c.from}
    IN found[Len(lines)]

\* What the column with its result in line n makes on the left of it
ColumnValue(lines, n) ==
    LET ending == {c \in ColumnResults(lines) : c.to = n}
    IN IF ending = {} THEN NoValue ELSE Worked(lines, CHOOSE c \in ending : TRUE)

----------------------------------------------------------------------------
(* check_steps: recalculation of the lines.                                *)

\* An open chain of transformations of one equation: its variable, its last root and how it began
NoChain == [variable |-> "none", root |-> NoRoot, origin |-> "none"]

\* Mutant of Transforms: any equation after an equation is taken for its next step.
TransformsAny(line, chain) == chain.origin = "equation"

\* An equation is a step of the chain when it shares two numbers with the line before it.
Transforms(line, chain) == chain.origin = "equation" /\ line.shared >= 2

\* _root_change: "error" in a step, "doubt" whether it is a step at all, or neither
RootChange(line, chain) ==
    IF chain = NoChain \/ line.root = chain.root THEN "none"
    ELSE CASE line.form = "equation" -> IF Transforms(line, chain) THEN "error" ELSE "doubt"
           [] line.form = "answer" -> "error"
           [] line.form = "assignment" -> IF chain.origin = "equation" THEN "error" ELSE "none"

Check(status, values) == [status |-> status, values |-> values, doubtful |-> FALSE,
                          misread |-> FALSE, equation |-> FALSE]

Algebraic(line) == line.form \in {"equation", "assignment", "answer"}

\* _check_equation: the check of the line and the chain after it
CheckEquation(line, before) ==
    LET chain == IF line.label # "none" \/ before.variable # line.variable THEN NoChain ELSE before
        change == RootChange(line, chain)
        continues == chain.origin = "equation" /\ change # "doubt"
        check == [Check(CASE change = "error" \/ ~line.sound -> "mismatch"
                          [] change = "doubt" /\ line.sound -> "skipped"
                          [] OTHER -> "ok",
                        IF change = "error" THEN <<chain.root, line.root>> ELSE <<line.root>>)
                  EXCEPT !.doubtful = (change = "doubt"), !.equation = (line.form = "equation")]
        after == [variable |-> line.variable, root |-> line.root,
                  origin |-> IF line.form = "equation" \/ continues THEN "equation"
                             ELSE "assignment"]
    IN IF line.root = NoRoot THEN [check |-> Check("skipped", <<>>), chain |-> NoChain]
       ELSE [check |-> check, chain |-> IF line.form = "answer" THEN NoChain ELSE after]

\* The values of an equality, read with the printed signs when only that makes it right
Reread(values, line) ==
    IF ~AllSame(values) /\ line.reread # <<>> /\ AllSame(line.reread) THEN line.reread ELSE values

\* One line: its check, the value a line that starts with "=" goes on from, and the open chain of
\* an equation; before is the same of the line above, worked what a column gives for this line.
CheckLine(before, line, worked) ==
    LET values == Reread(IF line.form = "continued" THEN <<before.tail>> \o line.values
                         ELSE line.values, line)
        result == <<worked>> \o line.values
        step == CheckEquation(line, before.chain)
        equality(v) == [check |-> Check(IF AllSame(v) THEN "ok" ELSE "mismatch", v),
                        tail |-> Last(v), chain |-> before.chain]
    IN CASE worked # NoValue -> equality(result)
         [] worked = NoValue /\ Algebraic(line) ->
              [check |-> step.check, tail |-> NoValue, chain |-> step.chain]
         [] worked = NoValue /\ (line.form = "equality" \/ (line.form = "continued" /\ before.tail # NoValue)) ->
              equality(values)
         [] OTHER ->
              [check |-> Check("skipped", <<>>),
               tail |-> IF line.form \in {"number", "example"} THEN line.values[1] ELSE NoValue,
               chain |-> before.chain]

CheckSteps(lines) ==
    LET worked == [n \in DOMAIN lines |-> ColumnValue(lines, n)]
        after[n \in 0 .. Len(lines)] ==
            IF n = 0 THEN [check |-> Check("skipped", <<>>), tail |-> NoValue, chain |-> NoChain]
            ELSE CheckLine(after[n - 1], lines[n], worked[n])
    IN [n \in DOMAIN lines |-> after[n].check]

----------------------------------------------------------------------------
(* review_reading: a line that disagrees may have been misread.            *)

Items(condition) == DOMAIN condition.items

\* _without_2_and_5: the value has a finite decimal notation.
EndsDecimal(v) == \E n \in 0 .. v[2] : (v[1] * 10 ^ n) % v[2] = 0
\* _impossible: a value no exercise on whole numbers has
Impossible(expected, written, line) ==
    IF expected[1] % expected[2] # 0 THEN ~line.fraction /\ ~EndsDecimal(expected)
    ELSE /\ ~line.negative
         /\ expected[1] < 0 /\ written[1] >= 0
         /\ ~Same(written, <<-expected[1], expected[2]>>)

Doubted(check) == [check EXCEPT !.status = "skipped", !.doubtful = TRUE, !.misread = TRUE]

\* Mutant of Compared: an item of the condition is compared with any line that has its letter.
ComparedAny(line, condition) == line.label \in Items(condition)

\* The child copied the item whole, so the printed expression can stand for what was read.
Compared(line, condition) == line.label \in Items(condition) /\ line.copied

Review(check, line, condition) ==
    LET printed == condition.items[line.label]
        written == Last(check.values)
        agrees == \A i \in 2 .. Len(check.values) : Same(check.values[i], printed)
    IN CASE check.status = "skipped" \/ Len(check.values) < 2 \/ Algebraic(line) -> check
         [] OTHER ->
              IF Compared(line, condition) /\ agrees
              THEN [check EXCEPT !.status = "ok", !.values = <<printed, written>>]
              ELSE IF \/ Compared(line, condition) /\ ~Same(check.values[1], printed)
                      \/ check.status = "mismatch" /\ Impossible(check.values[1], written, line)
              THEN Doubted(check)
              ELSE check

\* check_student_steps
Checks(lines, condition) ==
    LET checks == CheckSteps(lines)
    IN [i \in DOMAIN lines |-> Review(checks[i], lines[i], condition)]

----------------------------------------------------------------------------
(* grade: the verdict and its reason.                                      *)

\* compare_answers: "yes", "no", or "unknown" when one of the two can not be read
Compare(answer, ref) ==
    IF answer[1] # "value" \/ ref = NoValue THEN "unknown"
    ELSE IF Same(answer[2], ref) THEN "yes" ELSE "no"

HasEquals(line) == line.form \notin {"number", "example", "text"}
Having(checks, status) == {i \in DOMAIN checks : checks[i].status = status}

\* last_value_matches: the last line with "=" was recalculated and gives the reference answer
LastValueMatches(lines, checks, ref) ==
    LET equal == {i \in DOMAIN lines : HasEquals(lines[i])}
        last == CHOOSE i \in equal : \A j \in equal : j <= i
    IN /\ equal # {} /\ ref # NoValue
       /\ checks[last].status = "ok"
       /\ Same(Last(checks[last].values), ref)

Labels(lines) == {lines[i].label : i \in DOMAIN lines} \ {"none"}
IsMultipart(lines, condition) == condition.parts >= 2 \/ Cardinality(Labels(lines)) >= 2

\* is_long_division: a division in the work or in the condition, and three scraps of a column
Scraps(lines) == {i \in DOMAIN lines : Kind(lines, i) \in {"number", "signed"}}
IsLongDivision(lines, condition) ==
    /\ condition.division \/ \E i \in DOMAIN lines : lines[i].division
    /\ Cardinality(Scraps(lines)) >= 3

\* _uncertain_reason: the main one, those a question can cure first
Reason(lines, checks, answer) ==
    LET is(cond, reason) == IF cond THEN <<reason>> ELSE <<>>
        any(P(_)) == \E i \in DOMAIN checks : P(i)
    IN Head(is(answer[1] = "unreadable" \/ any(LAMBDA i : lines[i].unreadable), "unreadable")
            \o is(any(LAMBDA i : checks[i].misread), "line_misread")
            \o is(any(LAMBDA i : checks[i].doubtful), "ambiguous_equation")
            \o is(answer[1] = "garbled", "answer_unparseable")
            \o is(answer[1] = "none" /\ lines # <<>> /\ \A i \in DOMAIN lines : lines[i].form = "example",
                  "no_solution")
            \o is(Having(checks, "ok") \cup Having(checks, "mismatch") = {}, "steps_unparseable")
            \o <<"no_answer">>)

Verdict(verdict, line, reason, checks) ==
    [verdict |-> verdict, line |-> line, reason |-> reason, checks |-> checks]

FirstOf(S) == IF S = {} THEN 0 ELSE CHOOSE i \in S : \A j \in S : i <= j

\* grade_by_lines: nothing to compare the answers with, the lines decide
GradeByLines(lines, checks) ==
    LET wrong == Having(checks, "mismatch")
    IN CASE wrong # {} -> Verdict("wrong", FirstOf(wrong), "none", checks)
         [] wrong = {} /\ Having(checks, "ok") # {} /\ \A i \in DOMAIN checks : ~checks[i].doubtful ->
              Verdict("correct", 0, "none", checks)
         [] OTHER -> Verdict("uncertain", 0, Reason(lines, checks, <<"none">>), checks)

\* _grade_long_division: only the example itself and its result count.  No scrap repeats a number
\* of the condition here, and a labelled line stands for the example with its result.
GradeLongDivision(lines, checks, condition, matches) ==
    LET errors == {i \in Having(checks, "mismatch") : lines[i].copied}
        found == condition.result # NoValue /\ \E i \in DOMAIN lines :
                    \/ lines[i].form = "number" /\ Same(lines[i].values[1], condition.result)
                    \/ Kind(lines, i) = "signed" /\ Same(lines[i].column.number, condition.result)
                    \/ lines[i].form = "equality" /\ Same(Last(lines[i].values), condition.result)
    IN CASE errors # {} \/ matches = "no" -> Verdict("wrong", FirstOf(errors), "none", checks)
         [] errors = {} /\ matches # "no" /\ (matches = "yes" \/ found) ->
              Verdict("correct", 0, "none", checks)
         [] OTHER -> Verdict("uncertain", 0, "column_unreadable", checks)

\* Mutant of AnswerMatches: a last line that gives the reference outweighs an error in another.
AnswerMatchesLast(lines, checks, answer, ref) ==
    IF Compare(answer, ref) = "unknown" /\ LastValueMatches(lines, checks, ref)
    THEN "yes" ELSE Compare(answer, ref)

\* Without an answer to compare, right arithmetic that ends with the reference counts as one.
AnswerMatches(lines, checks, answer, ref) ==
    IF /\ Compare(answer, ref) = "unknown" /\ Having(checks, "mismatch") = {}
       /\ LastValueMatches(lines, checks, ref)
    THEN "yes" ELSE Compare(answer, ref)

GradeAnswer(lines, checks, answer, ref) ==
    LET wrong == Having(checks, "mismatch")
        matches == AnswerMatches(lines, checks, answer, ref)
    IN CASE matches = "yes" -> Verdict("correct", 0, "none", checks)
         [] matches = "no" \/ (matches = "unknown" /\ wrong # {}) ->
              Verdict("wrong", FirstOf(wrong), "none", checks)
         [] OTHER -> Verdict("uncertain", 0, Reason(lines, checks, answer), checks)

Grade(lines, condition, answer, ref) ==
    LET checks == Checks(lines, condition)
        long == IsLongDivision(lines, condition)
    IN CASE IsMultipart(lines, condition) /\ ~long -> GradeByLines(lines, checks)
         [] IsMultipart(lines, condition) /\ long ->
              GradeLongDivision(lines, checks, condition, "unknown")
         [] ~IsMultipart(lines, condition) /\ long ->
              GradeLongDivision(lines, checks, condition, Compare(answer, ref))
         [] OTHER -> GradeAnswer(lines, checks, answer, ref)

----------------------------------------------------------------------------
(* What the rest of the bot gets: findings, their strength, what to tutor. *)

\* findings_from_grade: at most one finding
Findings(grade) ==
    LET check == grade.checks[grade.line]
        expected == IF grade.line # 0 /\ check.status = "mismatch" THEN check.values[1] ELSE NoValue
    IN CASE grade.verdict = "wrong" ->
              {[strength |-> "verified", line |-> grade.line, expected |-> expected]}
         [] grade.verdict = "uncertain" ->
              {[strength |-> "candidate", line |-> 0, expected |-> NoValue]}
         [] OTHER -> {}

\* strength_of_task, none of the candidates answered yet
Strength(findings) ==
    CASE \E f \in findings : f.strength = "verified" -> "verified"
      [] findings # {} /\ \A f \in findings : f.strength # "verified" -> "candidate"
      [] OTHER -> "ok"

----------------------------------------------------------------------------
Init ==
    /\ page = <<>>
    /\ given \in Works

WriteLine ==
    /\ Len(page) < given.most
    /\ \E line \in given.lines : page' = Append(page, line)
    /\ UNCHANGED given

Next == WriteLine

Spec == Init /\ [][Next]_<<page, given>>

Graded == Grade(page, given.condition, given.answer, given.ref)

----------------------------------------------------------------------------
(* Properties.                                                             *)

\* The child copied a printed example whole; what stands on the left was read differently.
ReadDifferently(line) ==
    /\ line.form = "equality" /\ line.copied /\ line.label \in Items(given.condition)
    /\ ~Same(line.values[1], given.condition.items[line.label])

\* Line i goes on from the one above, in a stretch that begins with something that has a value.
GoesOn(i) ==
    /\ page[i].form = "continued"
    /\ \E j \in 1 .. i - 1 : /\ page[j].form \in {"number", "example", "equality"}
                             /\ \A k \in j + 1 .. i - 1 : page[k].form = "continued"

\* Column c is the child's own: one exercise, and nothing else on the page belongs to it.
Own(c) == {i \in DOMAIN page : page[i].exercise = page[c.from].exercise} = c.from .. c.to

\* A column of the child that can not be taken for anything else
Clear(c) == Own(c) /\ ~Partial(page, c) /\ ~Short(page, c)

\* What stands like a column is one, or answers one below the other that can not be taken for one:
\* with a short number and no rule, or beginning with a line of the column above.
ColumnsStandOut ==
    \A n \in DOMAIN page : \A c \in Shaped(page, n) :
       \/ Own(c) \/ Partial(page, c) \/ Short(page, c)
       \/ \E m \in DOMAIN page : \E d \in Shaped(page, m) :
             Clear(d) /\ d.from < c.from /\ c.from <= d.to

\* What the child wrote in line i is true, whatever the lines around it are.  A line that goes on
\* from nothing says nothing, nor does an equation without a single root, nor a number alone unless
\* it is the result of the child's column.
Holds(i) ==
    LET line == page[i]
        from == IF GoesOn(i) THEN <<Last(page[i - 1].values)>> ELSE <<>>
    IN CASE line.form = "equality" \/ GoesOn(i) ->
              AllSame(from \o line.values) \/ (line.reread # <<>> /\ AllSame(line.reread))
         [] Algebraic(line) -> line.root = NoRoot \/ line.sound
         [] OTHER -> \A c \in Shaped(page, i) : Own(c) => Same(line.column.number, Worked(page, c))

\* Each exercise with a variable is solved in one stretch that no step of changes the root.  It opens
\* with a variable of its own, or with its equation, which has less than two numbers in common with
\* the one before; a page may also begin with assignments.
SolvedOneByOne ==
    LET lines == {i \in DOMAIN page : Algebraic(page[i])}
        above(i) == {j \in lines : j < i}
        opens(i) == \A j \in above(i) : page[j].exercise # page[i].exercise
        fresh(i) == \A j \in above(i) : page[j].variable # page[i].variable
    IN \A i \in lines :
         IF opens(i)
         THEN \/ fresh(i)
              \/ /\ \/ page[i].form = "equation"
                    \/ page[i].form = "assignment" /\ \A j \in above(i) : page[j].form = "assignment"
                 /\ page[i].shared < 2
         ELSE /\ i - 1 \in lines /\ page[i - 1].exercise = page[i].exercise
              /\ page[i].root = page[i - 1].root

\* Nothing on the page is wrong, as far as the child goes.
WorkIsRight ==
    /\ \A i \in DOMAIN page : Holds(i) \/ ReadDifferently(page[i])
    /\ SolvedOneByOne
    /\ Compare(given.answer, given.ref) # "no"

\* A child who made no error is not told of one: right arithmetic in lines and in columns, equations
\* solved one after another, short answers one below the other, examples the recognition may have
\* read differently, and no final answer that contradicts the reference give "correct" or "not sure"
\* (grade.py, reading.py, _column_results, _check_equation).
NoFalseError == WorkIsRight /\ ColumnsStandOut => Graded.verdict # "wrong"

\* The same without a word on columns.  The code does not promise it: grading_answers.cfg shows the
\* answers 15, -13 and 13 taken for a column that is wrong.
NoFalseColumn == WorkIsRight => Graded.verdict # "wrong"

\* Line i makes the work wrong, unless a final answer or the result of a long division decides.
Condemns(i) ==
    /\ Compare(given.answer, given.ref) = "unknown"
    /\ ~IsLongDivision(page, given.condition)
    => Graded.verdict = "wrong" /\ Graded.line \in 1 .. i

\* An error that shows on the page is an error: without an answer to compare, an equality that does
\* not hold and that no misreading of a printed example explains, or a clear column with another
\* result than its numbers give, makes the work wrong when the value is possible, and the line named
\* is that one or an earlier one (grade, _review, _match_column).
ErrorStands ==
    \A i \in DOMAIN page :
       /\ /\ page[i].form = "equality" /\ page[i].reread = <<>> /\ ~AllSame(page[i].values)
          /\ ~page[i].copied
          /\ ~Impossible(page[i].values[1], Last(page[i].values), page[i])
          => Condemns(i)
       /\ \A c \in Shaped(page, i) :
             /\ ColumnsStandOut /\ Clear(c)
             /\ ~Same(page[i].column.number, Worked(page, c))
             /\ ~Impossible(Worked(page, c), page[i].column.number, page[i])
             => Condemns(i)

\* "Correct" is never given for lack of proof of the contrary: the answer equals the reference, or
\* some line was recalculated, and each line that was is true (answers_match, grade_by_lines).
CorrectIsProved ==
    /\ Graded.verdict = "correct" /\ ~IsLongDivision(page, given.condition)
    /\ Compare(given.answer, given.ref) # "yes"
    => /\ Having(Graded.checks, "ok") # {}
       /\ \A i \in DOMAIN page : \/ Holds(i) \/ ReadDifferently(page[i]) \/ Graded.checks[i].doubtful
                                 \/ page[i].form = "number" /\ Graded.checks[i].status = "skipped"
=============================================================================
