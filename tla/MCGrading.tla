------------------------------- MODULE MCGrading ------------------------------
EXTENDS Grading

N(n) == <<n, 1>>

Equality(values) == [Blank EXCEPT !.form = "equality", !.values = values]
Algebra(form, root, shared, exercise) ==
    [Blank EXCEPT !.form = form, !.root = root, !.shared = shared, !.exercise = exercise]

\* Lines of columns and of short answers: the numbers of one exercise, and of two more
Alone(n, exercise) ==
    [Blank EXCEPT !.form = "number", !.values = <<N(n)>>, !.exercise = exercise,
       !.column = [kind |-> "number", op |-> "none", number |-> N(n), many |-> n >= 10]]
Minus(n, exercise) ==
    [Alone(n, exercise) EXCEPT !.values = <<N(-n)>>, !.column.kind = "signed", !.column.op = "minus"]
Times(n) ==
    [Alone(n, 1) EXCEPT !.form = "text", !.values = <<>>, !.column.kind = "signed", !.column.op = "times"]
MCColumns == {
    Alone(15, 1), Alone(5, 1), Alone(2, 1), Alone(13, 3), Minus(13, 1), Minus(3, 1), Minus(3, 2), Times(13),
    [Blank EXCEPT !.column.kind = "sign", !.column.op = "minus"],
    [Blank EXCEPT !.column.kind = "rule"]}

MCLines == {
    Equality(<<N(4), N(4)>>),
    Equality(<<N(4), N(5)>>),
    Equality(<<N(-3), N(4)>>),
    Equality(<<<<10, 3>>, N(3)>>),
    [Equality(<<N(4), N(7)>>) EXCEPT !.reread = <<N(7), N(7)>>],
    [Equality(<<N(4), N(4)>>) EXCEPT !.label = "a", !.copied = TRUE],
    [Equality(<<N(5), N(4)>>) EXCEPT !.label = "a", !.copied = TRUE],
    [Equality(<<N(2), N(5)>>) EXCEPT !.label = "a"],
    [Blank EXCEPT !.form = "continued", !.values = <<N(4)>>],
    Alone(4, 1),
    [Blank EXCEPT !.form = "example", !.values = <<N(5)>>],
    [Blank EXCEPT !.unreadable = TRUE],
    Algebra("equation", N(4), 0, 1),
    Algebra("equation", N(4), 2, 1),
    Algebra("equation", N(5), 1, 2),
    Algebra("equation", N(5), 2, 1),
    [Algebra("equation", N(5), 0, 2) EXCEPT !.label = "b"],
    Algebra("assignment", N(4), 0, 1),
    [Algebra("assignment", N(5), 0, 2) EXCEPT !.sound = FALSE],
    Algebra("answer", N(4), 0, 1),
    Algebra("answer", N(5), 0, 2),
    [Algebra("equation", N(5), 2, 2) EXCEPT !.variable = "y"]}

Plain == [parts |-> 1, items |-> <<>>, division |-> FALSE, result |-> NoValue]
MCConditions == {Plain, [Plain EXCEPT !.parts = 2, !.items = [a |-> N(4)]],
                 [Plain EXCEPT !.items = [a |-> N(4)]],
                 [Plain EXCEPT !.division = TRUE, !.result = N(4)]}

MCAnswers == {<<"none">>, <<"garbled">>, <<"value", N(4)>>, <<"value", N(5)>>}
MCReferences == {N(4), NoValue}

\* Every page of three lines under every condition, and columns of four lines or less
MCWorks ==
    [lines : {MCLines}, most : {3}, condition : MCConditions, answer : MCAnswers, ref : MCReferences]
    \cup [lines : {MCColumns}, most : {4}, condition : {Plain, [Plain EXCEPT !.division = TRUE, !.result = N(2)]},
          answer : {<<"none">>}, ref : {N(2)}]

\* Three answers, each to an exercise of its own
MCApart ==
    [lines : {{Alone(15, 1), Minus(13, 2), Alone(13, 3)}}, most : {3}, condition : {Plain},
     answer : {<<"none">>}, ref : {NoValue}]
=============================================================================
