------------------------------ MODULE MCDialog ------------------------------
(***************************************************************************)
(* TLC instances of Dialog: a homework in mathematics and one in Russian,  *)
(* picked so that each kind of question, a task with several of them, an   *)
(* error in a task that is asked about, and more places in doubt than the  *)
(* bot asks about occur.                                                   *)
(***************************************************************************)
EXTENDS Dialog

\* A task with a verdict and the questions it leads to; a task with words in doubt.
Sum(verdict, about) == [sure |-> verdict, asks |-> about, words |-> <<>>, seed |-> FALSE]
Text(verdict, n)    == [sure |-> verdict, asks |-> <<>>, words |-> [w \in 1..n |-> "open"],
                       seed |-> FALSE]

\* An error in a word of "help me find the mistake".
Seeded == [Text("verified", 0) EXCEPT !.seed = TRUE]

Math(pages)    == [subject |-> "math", tasks |-> pages]
Russian(pages) == [subject |-> "russian", tasks |-> pages]

Wrong == Sum("verified", <<>>)

MCAlbums ==
    {Math(<<Wrong, Sum("candidate", <<"result", "result">>)>>),
     Math(<<Sum("candidate", <<"sign">>), Sum("candidate", <<"text">>)>>),
     Russian(<<Text("verified", 1), Text("ok", 2)>>),
     Russian(<<Seeded>>)}

MCOfTwo == {Math(<<Sum("candidate", <<"result", "result">>)>>)}

MCSeeded == {Russian(<<Seeded, Text("verified", 0)>>)}

MCSubjects == {"math", "russian"}
=============================================================================
