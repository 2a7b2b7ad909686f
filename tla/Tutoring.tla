------------------------------- MODULE Tutoring -------------------------------
(***************************************************************************)
(* A dialogue of the tutor with a child about one mistake                  *)
(* (pipeline/tutor.py): the code raises the level of the hints, recognises *)
(* the answer and the right intermediate actions, checks what the model    *)
(* says before the child sees it, and ends the dialogue.  The model is     *)
(* free to say anything.  Numbers are told apart by what they are in the   *)
(* task; a word exercise has the word and its letter in place of numbers.  *)
(***************************************************************************)
EXTENDS Naturals, FiniteSets

CONSTANTS
    MaxReplies   \* bound: replies of a word dialogue, which only the child ends

MaxHintLevel == 3

VARIABLES
    task,     \* what the dialogue is about, see Tasks
    level,    \* hint_level
    known,    \* known_values: right intermediate values the child has named
    resolved, \* the child has answered
    closed,   \* the code named the answer and ended the dialogue
    shown,    \* a prompt held the whole solution, so a reply may have shown it
    reply,    \* the last reply: whether it praises, and whether the child earned it
    early,    \* history: what replies said below the last level, before the answer
    replies   \* history: replies so far

vars == <<task, level, known, resolved, closed, shown, reply, early, replies>>

\* The reference answer, a step of the reference solution, the value of the line the child got
\* wrong, an action inside that line, and any other number
Numbers == {"answer", "way", "line", "step", "other"}
\* The expected spelling, the letter that makes the difference, and the rule
Hints == {"word", "letter", "rule"}

\* line: a line of the child is known to be wrong; read: the reference answer is a number the code
\* can read; seen: numbers that the condition or the child's own notes show
Tasks ==
    [mode : {"math"}, line : BOOLEAN, read : BOOLEAN,
     seen : {{"other"} \cup x : x \in SUBSET {"answer", "line", "step"}}] \cup
    [mode : {"word"}, line : {FALSE}, read : {FALSE}, seen : {{"rule"}}]

Math == task.mode = "math"

\* action_values of the wrong line: its actions and its own value
Actions == IF task.line THEN {"step", "line"} ELSE {}
\* What closes the dialogue: the value of the wrong line, else the reference answer; an answer
\* that is not a number can not be matched
Target == CASE ~Math -> {"word"}
            [] Math /\ task.line -> {"line"}
            [] Math /\ ~task.line -> IF task.read THEN {"answer"} ELSE {}

\* _secret_values and _secret_letters: what no reply may say yet
Secrets ==
    IF Math THEN ((IF task.read THEN {"answer"} ELSE {}) \cup {"way"} \cup Actions)
                 \ (task.seen \cup known)
    ELSE {"word", "letter"}

\* What the model can say: anything, in one reply of at most one thing (a rule of the guard is
\* broken by each thing said on its own)
Texts == [says : {{}} \cup {{x} : x \in IF Math THEN Numbers ELSE Hints}, praise : BOOLEAN]
\* SAFE_RETRY, SAFE_REDIRECT, SAFE_PRAISE_REDIRECT, WORD_REDIRECT: texts of the code
Safe == [says |-> {}, praise |-> FALSE]
\* StructuredOutputError
Invalid == [says |-> {"nothing"}, praise |-> FALSE]
Outcomes == Texts \cup {Invalid}

Init ==
    /\ task \in Tasks
    /\ level = 0 /\ known = {}
    /\ resolved = FALSE /\ closed = FALSE /\ shown = FALSE
    /\ reply = [praise |-> FALSE, earned |-> FALSE]
    /\ early = {} /\ replies = 0

----------------------------------------------------------------------------
(* What the child said.                                                    *)

\* A number, the word, or something that is neither
Messages == (IF Math THEN Numbers ELSE {"word"}) \cup {"words"}

Solves(m) == m \in Target

\* A right action of the wrong line, named for the first time: it costs no level
ActionStep(m) == Math /\ ~Solves(m) /\ m \in Actions /\ m \notin known

----------------------------------------------------------------------------
(* The guard over the model's reply.                                       *)

\* Mutant of Leaks: at the level before the last the reply is not checked any more.
LeaksLate(r, secrets, l) == l < MaxHintLevel - 1 /\ r.says \cap secrets # {}

\* Before the last level a reply may not say a secret.
Leaks(r, secrets, l) == l < MaxHintLevel /\ r.says \cap secrets # {}

\* Mutant of FalsePraise: praise is looked for only with a wrong number, not with a right action.
FalsePraiseNever(r, m) == FALSE

\* Praise without an answer or a right action; the word dialogue does not look for it.
FalsePraise(r, m) == Math /\ r.praise /\ ~ActionStep(m)

Violates(r, m, secrets, l) == Leaks(r, secrets, l) \/ FalsePraise(r, m)

\* What the child gets for the model's first reply and, when that breaks a rule, its second one
Guarded(first, second, m, secrets, l) ==
    CASE first = Invalid -> Safe
      [] first # Invalid /\ ~Violates(first, m, secrets, l) -> first
      [] OTHER -> IF second = Invalid THEN Safe
                  ELSE IF Violates(second, m, secrets, l) THEN Safe ELSE second

----------------------------------------------------------------------------
Said(r, earned) == reply' = [praise |-> r.praise, earned |-> earned]

\* The child answered: the model may say what it likes about it.
Solve(m) ==
    /\ Solves(m)
    /\ resolved' = TRUE
    /\ \E first \in Outcomes : Said(IF first = Invalid THEN Safe ELSE first, TRUE)
    /\ UNCHANGED <<level, known, closed, shown, early>>

\* A hint of the next level, or a comment on a right action at the same level.  The question that
\* follows it names numbers of the wrong line only.
Hint(m) ==
    LET step == ActionStep(m)
        l == IF step \/ level = MaxHintLevel THEN level ELSE level + 1
    IN /\ ~Solves(m)
       /\ Math /\ ~step => level < MaxHintLevel
       /\ level' = l
       /\ known' = IF step THEN known \cup {m} ELSE known
       /\ shown' = (shown \/ l = MaxHintLevel)
       /\ \E first, second \in Outcomes :
            LET r == Guarded(first, second, m, Secrets', l)
            IN /\ Said(r, step)
               /\ early' = IF l < MaxHintLevel THEN early \cup r.says ELSE early
       /\ UNCHANGED <<resolved, closed>>

\* Mutant of Closes: the dialogue is closed at the step to the last level.
ClosesEarly(m) == Math /\ ~Solves(m) /\ ~ActionStep(m) /\ level >= MaxHintLevel - 1

\* The solution has been shown and the answer is wrong again: the code names the answer.
Closes(m) == Math /\ ~Solves(m) /\ ~ActionStep(m) /\ level >= MaxHintLevel

Close(m) ==
    /\ Closes(m)
    /\ closed' = TRUE
    /\ Said(Safe, FALSE)
    /\ UNCHANGED <<level, known, resolved, shown, early>>

\* tutor_reply: one message of the child in a dialogue that goes on
TutorReply ==
    /\ ~resolved /\ ~closed
    /\ ~Math => replies < MaxReplies
    /\ UNCHANGED task
    /\ replies' = replies + 1
    /\ \E m \in Messages : Solve(m) \/ Hint(m) \/ Close(m)

Next == TutorReply

Spec == Init /\ [][Next]_vars

----------------------------------------------------------------------------
(* Properties.                                                             *)

TypeOK ==
    /\ task \in Tasks
    /\ level \in 0 .. MaxHintLevel
    /\ known \subseteq Actions
    /\ resolved \in BOOLEAN /\ closed \in BOOLEAN /\ shown \in BOOLEAN
    /\ early \subseteq Numbers \cup Hints
    /\ replies \in Nat

\* Until the last level no reply has named a number of the solution that the child had not seen in
\* the task or found himself, nor the expected spelling or its letter, whatever the model wrote in
\* its first and second attempt.
NothingToldEarly ==
    early \cap (IF Math THEN ((IF task.read THEN {"answer"} ELSE {}) \cup {"way"} \cup Actions)
                             \ (task.seen \cup known)
                ELSE {"word", "letter"}) = {}

\* In mathematics a reply praises only a child who has just answered or found a right action.
PraiseIsEarned == Math /\ reply.praise => reply.earned

\* A dialogue about mathematics ends: every message raises the level, names a new right action or
\* ends it, so it has at most four replies more than there are actions, and the answer is named by
\* the code only after a reply that could show the solution.
EndsAfterShowing ==
    /\ Math => replies <= MaxHintLevel + 1 + Cardinality(Actions \ Target)
    /\ closed => shown /\ ~resolved /\ replies > MaxHintLevel
=============================================================================
