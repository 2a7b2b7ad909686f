---------------------------- MODULE MCDispatcher ----------------------------
(***************************************************************************)
(* TLC instances of Dispatcher: two chats and the queue of the updates     *)
(* without a chat; a backlog limit small enough to be hit and left again.  *)
(***************************************************************************)
EXTENDS Dispatcher, TLC

CONSTANTS c1, c2

MCChats == {c1, c2}

\* With more than one slot the queues are interchangeable, the one without a chat included: no
\* action tells one from another.  So the first update is of c1, and none is without a chat before
\* one of c2 came.  (The constraint keeps one of the states that differ in names only; TLC's
\* symmetry sets cannot be used with liveness.)
NamedInOrder ==
    LET came == chatOf' \o batch'
        Of(c) == {i \in 1..Len(came) : came[i] = c}
    IN  /\ \A i \in Of(c2) : \E j \in Of(c1) : j < i
        /\ \A i \in Of(NoChat) : \E j \in Of(c2) : j < i
=============================================================================
