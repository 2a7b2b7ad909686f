-------------------------------- MODULE MCAlbum --------------------------------
EXTENDS Album

\* Printed: one page with written numbers, one without.
Printed(e, number, written, nums) ==
    [Task EXCEPT !.exercise = e, !.number = number, !.written = written, !.text = TRUE,
                 !.nums = nums, !.lines = FALSE, !.answer = FALSE]
Work(e, number, written, nums) ==
    [Task EXCEPT !.exercise = e, !.number = number, !.written = written, !.nums = nums]
Unanswered(task) == [task EXCEPT !.answer = FALSE, !.computed = TRUE]

Math(tasks) == [Page EXCEPT !.tasks = tasks]
Words(role, tasks, rotation, unread) ==
    [Page EXCEPT !.subject = "russian", !.tasks = tasks, !.role = role, !.rotation = rotation,
                 !.unread = unread]
Named(e) == <<[Task EXCEPT !.exercise = e, !.number = e]>>

MCPages == {
    Math(<<Printed(1, 1, TRUE, {15, 24}), Printed(2, 2, TRUE, {24, 36, 48, 60})>>),
    Math(<<Printed(2, 1, FALSE, {24, 36, 48, 60})>>),
    Math(<<[Work(1, 1, TRUE, {15}) EXCEPT !.flaw = "error"]>>),
    Math(<<Work(2, 1, FALSE, {36, 48}), [Work(3, 3, TRUE, {48, 60}) EXCEPT !.right = FALSE]>>),
    Math(<<Unanswered(Work(2, 2, TRUE, {36}))>>),
    Math(<<[Unanswered(Work(3, 3, TRUE, {})) EXCEPT !.flaw = "doubt"]>>),
    Math(<<Work(2, 1, FALSE, {})>>),
    Math(<<>>),
    Words("textbook", Named(1), 0, FALSE),
    Words("textbook", Named(2), 0, FALSE),
    Words("notebook", Named(1), 0, FALSE),
    Words("notebook", Named(2), 90, FALSE),
    Words("notebook", <<>>, 0, TRUE)}

MCPraises == {Failed, <<[index |-> 2, safe |-> TRUE], [index |-> 1, safe |-> FALSE]>>}
=============================================================================
