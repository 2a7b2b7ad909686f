----------------------------- MODULE KnowledgeBase -----------------------------
(***************************************************************************)
(* Where the reference text of a Russian exercise comes from               *)
(* (subjects/russian/gaps.py, resolve_reference of module.py, db/kb.py,    *)
(* kb_cli.py): the knowledge base, or the dictionary and the model, whose  *)
(* answer is then kept for other children and for a reviewer.              *)
(*                                                                         *)
(* Checks of several chats run concurrently, the console of the reviewer   *)
(* is a process of its own, every query may fail, and the bot may die      *)
(* between two of them.  db/kb_memory.py keeps the same contract.          *)
(***************************************************************************)
EXTENDS Naturals, Sequences, SequencesExt

CONSTANTS
    Checks,      \* concurrent checks of an exercise
    Texts,       \* exercises
    Gaps,        \* Gaps[t]: its gaps, see below
    Replies,     \* choices the model may make for a text: sequences of [gap, word]
    MaxChecks    \* bound: checks begun

\* A gap: the dictionary words its pattern allows, found by trying every letter; when there are none
\* (too many letters missing), those the model may still name; and the word that belongs there.
Pattern == "pattern"
Unresolved(words) == {g \in DOMAIN words : words[g] = Pattern}

\* A reply is a list.
RepliesOK == \A reply \in Replies : reply \in Seq({reply[i] : i \in DOMAIN reply})

VARIABLES
    pages,       \* texts whose page and task are in the base
    answers,     \* kb_answers in the order of their ids
    check,       \* check[c]
    review,      \* the reviewer's console: the queue it read, and where it stands
    begun

kvars == <<pages, answers, check, review, begun>>

\* faulted: a query failed or the model was not reached; answered: the base had an answer to the
\* text when the check began; corrected: it had one a reviewer typed in.  Both are histories.
Idle == [pc |-> "idle", text |-> "none", words |-> <<>>, trust |-> "none", origin |-> "none",
         save |-> FALSE, faulted |-> FALSE, answered |-> FALSE, corrected |-> FALSE]

AnswersTo(t) == {i \in DOMAIN answers : answers[i].text = t}
Valid(i) == answers[i].status # "rejected"

Init ==
    /\ pages = {} /\ answers = <<>> /\ begun = 0
    /\ check = [c \in Checks |-> Idle]
    /\ review = [queue |-> {}, pc |-> "read"]

----------------------------------------------------------------------------
(* derive_text.                                                            *)

Single(gap) == \E w \in gap.candidates : gap.candidates = {w}
Ambiguous(t) == {g \in DOMAIN Gaps[t] : ~Single(Gaps[t][g])}

\* _ask_llm takes one of the candidates, or without any a dictionary word that fits the pattern.
Allowed(gap, word) ==
    word \in gap.candidates \/ (gap.candidates = {} /\ word \in gap.fits)

\* The choices of a reply that are allowed for gap g; the last of them counts.
AllowedFor(t, g, reply) ==
    {i \in DOMAIN reply : reply[i].gap = g /\ Allowed(Gaps[t][g], reply[i].word)}

Chosen(t, reply) ==
    [g \in DOMAIN Gaps[t] |->
       IF g \notin Ambiguous(t) THEN CHOOSE w \in Gaps[t][g].candidates : TRUE
       ELSE IF AllowedFor(t, g, reply) = {} THEN Pattern
       ELSE reply[Max(AllowedFor(t, g, reply))].word]

\* Mutant of Trust: a text without unresolved gaps counts as checked.
TrustResolved(t, words) == IF Unresolved(words) = {} THEN "verified" ELSE "unverified"

\* Only the dictionary verifies, when it has closed every gap and there was one.
Trust(t, words) ==
    IF Gaps[t] # <<>> /\ Ambiguous(t) = {} THEN "verified" ELSE "unverified"

----------------------------------------------------------------------------
(* resolve_reference, one exercise.                                        *)

Step(c, pc) == check' = [check EXCEPT ![c].pc = pc]

Begin(c) ==
    /\ check[c].pc = "idle" /\ begun < MaxChecks /\ begun' = begun + 1
    /\ \E t \in Texts :
         check' = [check EXCEPT ![c] = [Idle EXCEPT
            !.pc = "find", !.text = t, !.answered = (AnswersTo(t) # {}),
            !.corrected = (\E i \in AnswersTo(t) : Valid(i) /\ answers[i].checked = "manual"
                                                   /\ answers[i].form = "typed")]]
    /\ UNCHANGED <<pages, answers, review>>

\* find_page: the page of the same text, whoever sent it
Find(c) ==
    /\ check[c].pc = "find"
    /\ check' = [check EXCEPT ![c].pc = IF check[c].text \in pages THEN "answers" ELSE "derive",
                              ![c].save = (check[c].text \notin pages)]
    /\ UNCHANGED <<pages, answers, review, begun>>

\* Mutant of Known: a page counts as known without an answer.
KnownPage(t) == TRUE

\* An answer that the reviewer rejected is one too: it is not made again.
Known(t) == AnswersTo(t) # {}

TrustOf(i) == IF answers[i].status = "verified" \/ answers[i].checked = "dictionary"
              THEN "verified" ELSE "unverified"

\* The newest of the verified answers, or of the others
Best(t) ==
    CHOOSE i \in AnswersTo(t) :
       /\ Valid(i)
       /\ \A j \in AnswersTo(t) : Valid(j) =>
            \/ TrustOf(i) = "verified" /\ TrustOf(j) # "verified"
            \/ TrustOf(i) = TrustOf(j) /\ j <= i

\* _from_kb: the best answer that was not rejected.  One that does not have the form of a derived
\* text can not be read, which counts as a failure of the base.
ReadAnswers(c) ==
    /\ check[c].pc = "answers"
    /\ LET t == check[c].text
           valid == {i \in AnswersTo(t) : Valid(i)}
       IN \/ /\ valid = {}
             /\ check' = [check EXCEPT ![c].pc = "derive", ![c].save = ~Known(t)]
          \/ /\ valid # {} /\ answers[Best(t)].form = "derived"
             /\ check' = [check EXCEPT ![c].pc = "done", ![c].origin = "kb",
                                       ![c].words = answers[Best(t)].words,
                                       ![c].trust = TrustOf(Best(t))]
          \/ /\ valid # {} /\ answers[Best(t)].form # "derived"
             /\ check' = [check EXCEPT ![c].pc = "derive", ![c].save = FALSE]
    /\ UNCHANGED <<pages, answers, review, begun>>

\* Mutant of SavesAfter: a base that could not be read is taken for an empty one.
SavesAfterAny(failed) == failed

\* Nothing is written to a base that could not be read.
SavesAfter(failed) == FALSE

ReadFails(c) ==
    /\ check[c].pc \in {"find", "answers"}
    /\ check' = [check EXCEPT ![c].pc = "derive", ![c].save = SavesAfter(TRUE), ![c].faulted = TRUE]
    /\ UNCHANGED <<pages, answers, review, begun>>

\* The dictionary, and the model for the gaps it leaves open
Derive(c) ==
    /\ check[c].pc = "derive"
    /\ \E reply \in IF Ambiguous(check[c].text) = {} THEN {<<>>} ELSE Replies :
         LET words == Chosen(check[c].text, reply)
         IN check' = [check EXCEPT ![c].pc = IF check[c].save THEN "save page" ELSE "done",
                                   ![c].words = words, ![c].origin = "derived",
                                   ![c].trust = Trust(check[c].text, words)]
    /\ UNCHANGED <<pages, answers, review, begun>>

\* The model is not reached, or the bot is stopped: the check is over without a reference.
GiveUp(c) ==
    /\ check[c].pc \notin {"idle", "done"}
    /\ check' = [check EXCEPT ![c].pc = "done", ![c].words = <<>>, ![c].origin = "none",
                              ![c].trust = "none", ![c].faulted = TRUE]
    /\ UNCHANGED <<pages, answers, review, begun>>

\* save_page: one transaction; the page of another check is taken as it is
SavePage(c) ==
    /\ check[c].pc = "save page"
    /\ pages' = pages \cup {check[c].text}
    /\ Step(c, "save answer")
    /\ UNCHANGED <<answers, review, begun>>

Answer(t, words, form, checked, status) ==
    [text |-> t, words |-> words, form |-> form, checked |-> checked, status |-> status]

SaveAnswer(c) ==
    /\ check[c].pc = "save answer"
    /\ answers' = Append(answers, Answer(check[c].text, check[c].words, "derived",
                            IF check[c].trust = "verified" THEN "dictionary" ELSE "none",
                            check[c].trust))
    /\ Step(c, "done")
    /\ UNCHANGED <<pages, review, begun>>

\* The reference is used although it could not be kept.
SaveFails(c) ==
    /\ check[c].pc \in {"save page", "save answer"}
    /\ check' = [check EXCEPT ![c].pc = "done", ![c].faulted = TRUE]
    /\ UNCHANGED <<pages, answers, review, begun>>

\* The child got the result.
End(c) ==
    /\ check[c].pc = "done"
    /\ check' = [check EXCEPT ![c] = Idle]
    /\ UNCHANGED <<pages, answers, review, begun>>

----------------------------------------------------------------------------
(* kb_cli.review: the reviewer knows Russian.                              *)

Right(t) == [g \in DOMAIN Gaps[t] |-> Gaps[t][g].right]

\* The queue is read once, the answers may change after that.
ReadQueue ==
    /\ review.pc = "read"
    /\ LET open == {i \in DOMAIN answers : answers[i].status = "unverified"}
       IN open # {} /\ review' = [queue |-> open, pc |-> "ask"]
    /\ UNCHANGED <<pages, answers, check, begun>>

\* unverified_answers orders by id
Shown == Min(review.queue)

Reviewed(status) == [answers EXCEPT ![Shown].status = status, ![Shown].checked = "manual"]
NextInQueue == [queue |-> review.queue \ {Shown},
                pc |-> IF review.queue = {Shown} THEN "read" ELSE "ask"]

Confirm ==
    /\ review.pc = "ask"
    /\ answers[Shown].words = Right(answers[Shown].text)
    /\ answers' = Reviewed("verified") /\ review' = NextInQueue
    /\ UNCHANGED <<pages, check, begun>>

\* A wrong answer is rejected; the right one may be typed in after that.
Reject ==
    /\ review.pc = "ask"
    /\ answers[Shown].words # Right(answers[Shown].text)
    /\ answers' = Reviewed("rejected")
    /\ review' \in {NextInQueue, [review EXCEPT !.pc = "type"]}
    /\ UNCHANGED <<pages, check, begun>>

\* It is kept as the reviewer typed it, under "text".
TypeIn ==
    /\ review.pc = "type"
    /\ LET t == answers[Shown].text
       IN answers' = Append(answers, Answer(t, Right(t), "typed", "manual", "verified"))
    /\ review' = NextInQueue
    /\ UNCHANGED <<pages, check, begun>>

\* The console is closed.
Quit ==
    /\ review.pc \in {"ask", "type"}
    /\ review' = [queue |-> {}, pc |-> "read"]
    /\ UNCHANGED <<pages, answers, check, begun>>

----------------------------------------------------------------------------
Next ==
    \/ \E c \in Checks : \/ Begin(c) \/ Find(c) \/ ReadAnswers(c) \/ ReadFails(c) \/ Derive(c)
                         \/ GiveUp(c) \/ SavePage(c) \/ SaveAnswer(c) \/ SaveFails(c) \/ End(c)
    \/ ReadQueue \/ Confirm \/ Reject \/ TypeIn \/ Quit

Spec == Init /\ [][Next]_kvars

----------------------------------------------------------------------------
(* Properties.                                                             *)

Referenced(c) == check[c].pc = "done" /\ check[c].origin # "none"

\* A verified reference is the text the author meant, as far as the dictionary knows: it closed
\* every gap with the only word there is, or the reviewer has said so; and whatever the model
\* answers, a gap is closed with a dictionary word that fits it or stays open (derive_text,
\* _from_kb, save_answer).
VerifiedIsProved ==
    \A c \in Checks : Referenced(c) =>
       LET gaps == Gaps[check[c].text]
           words == check[c].words
       IN /\ \A g \in DOMAIN words : words[g] \in gaps[g].candidates \cup gaps[g].fits \cup {Pattern}
          /\ check[c].trust = "verified" =>
               \/ gaps # <<>> /\ \A g \in DOMAIN gaps : gaps[g].candidates = {words[g]}
               \/ words = Right(check[c].text)

\* A check that begins when the base has an answer, a rejected one included, adds none, whichever
\* of its queries fail: the reviewer's queue is not filled with what was decided (_KbLookup.known).
AnsweredOnce ==
    [][\A c \in Checks :
         check[c].pc = "save answer" /\ check'[c].pc = "done" /\ answers' # answers
         => ~check[c].answered]_kvars

\* A check without failures leaves the base with an answer to its text, also when an earlier one
\* got no further than the page (resolve_reference, save_page).
NoPageWithoutAnswer ==
    \A c \in Checks : Referenced(c) /\ ~check[c].faulted => AnswersTo(check[c].text) # {}

\* A text comes to have one answer.
AnswersKeptOnce == AnsweredOnce /\ [][NoPageWithoutAnswer']_kvars

\* kb_cli.py: "e" rejects the old answer and the new one is verified, so checks that begin later
\* use it, when no query fails.
CorrectionIsUsed ==
    \A c \in Checks : Referenced(c) /\ ~check[c].faulted /\ check[c].corrected =>
       check[c].words = Right(check[c].text)
=============================================================================
