------------------------------ MODULE MCHomework ------------------------------
(***************************************************************************)
(* What is done with a homework, from the album to the tutor: four         *)
(* machines that share no state, checked side by side.  `part` says which  *)
(* of them a behaviour is of; the others stay in one state of their own.   *)
(***************************************************************************)
EXTENDS MCAlbum, MCSpelling

CONSTANTS
    Works,         (* Grading *)
    MaxReplies     (* Tutoring *)

VARIABLES
    part,
    page, given,                                                          (* Grading *)
    topic, level, known, resolved, closed, shown, reply, early, replies    (* Tutoring *)

G == INSTANCE MCGrading
T == INSTANCE Tutoring WITH task <- topic

\* What the parser may make of a line and of a printed condition.
ASSUME GradingAssumption ==
    \A work \in Works :
       /\ \A line \in work.lines : G!WellFormed(line)
       /\ "none" \notin DOMAIN work.condition.items
       /\ \A label \in DOMAIN work.condition.items : work.condition.items[label] \in G!Fractions

gvars == <<page, given>>
tvars == <<topic, level, known, resolved, closed, shown, reply, early, replies>>
hvars == <<part, avars, svars, gvars, tvars>>

\* The instance of Grading for TLC.
Data == INSTANCE MCGrading WITH Works <- {}
MCWorks == Data!MCWorks

SpellingRests ==
    textbook = <<>> /\ own = 0 /\ lines = <<>> /\ margin = FALSE /\ tear = NoTear /\ text = <<>>
    /\ at = 0 /\ slips = <<>>
GradingRests == page = <<>> /\ given = "none"
TutoringRests ==
    topic = "none" /\ level = 0 /\ known = {} /\ resolved = FALSE /\ closed = FALSE
    /\ shown = FALSE /\ reply = "none" /\ early = {} /\ replies = 0

HInit ==
    \/ part = "album" /\ Init /\ SpellingRests /\ GradingRests /\ TutoringRests
    \/ part = "spelling" /\ Init /\ SInit /\ GradingRests /\ TutoringRests
    \/ part = "grading" /\ Init /\ SpellingRests /\ G!Init /\ TutoringRests
    \/ part = "tutoring" /\ Init /\ SpellingRests /\ GradingRests /\ T!Init

HNext ==
    \/ part = "album" /\ Next /\ UNCHANGED <<part, svars, gvars, tvars>>
    \/ part = "spelling" /\ SNext /\ UNCHANGED <<part, avars, gvars, tvars>>
    \/ part = "grading" /\ G!Next /\ UNCHANGED <<part, avars, svars, tvars>>
    \/ part = "tutoring" /\ T!Next /\ UNCHANGED <<part, avars, svars, gvars>>

HSpec == HInit /\ [][HNext]_hvars

-----------------------------------------------------------------------------
(* Properties, with those of Album.                                        *)

\* Nobody is told that all is right unless every word of the exercise that is known was written in
\* its order: no word is lost in a share, among the words dropped or in another exercise
\* (check_words, _unresolved_drop_indices, _outer_extra_indices, _pair_by_words).
EveryWordCounts == part = "spelling" => NothingPassedOver

\* A question is asked about what is wrong and about nothing else: none about a copy without
\* mistakes, one about one mistake (align, merge_hyphenation, _reading_order).
QuestionsAreExact == part = "spelling" => ExactCopyIsClean /\ OneMistakeOneQuestion

\* A verdict stands: a child who made no error is not told of one, an error that shows in a line is
\* not passed over, and "correct" is said when it was proved (grade.py, reading.py, validator.py).
VerdictsStand == part = "grading" => G!NoFalseError /\ G!ErrorStands /\ G!CorrectIsProved

\* Before the last level of hints the tutor has not given the solution away, and it praises only
\* what the child has earned, whatever the model writes (_guard, _leaks).
RepliesAreSafe == part = "tutoring" => T!TypeOK /\ T!NothingToldEarly /\ T!PraiseIsEarned

\* A dialogue about mathematics comes to its end, and names the answer only after a reply that
\* could show the solution (tutor_reply, _close).
EndsAfterShowing == part = "tutoring" => T!EndsAfterShowing
=============================================================================
