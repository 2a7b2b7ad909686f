------------------------------- MODULE Dialog -------------------------------
(***************************************************************************)
(* The dialog of the bot with one chat: an album of photos is checked, the *)
(* summary goes out with buttons, questions about doubtful places are put  *)
(* one by one, an error is worked through with the tutor, and what the     *)
(* child has fixed is counted and told to the parent (bot/handlers.py,     *)
(* bot/clarify.py, bot/summary.py, bot/notifier.py, pipeline/tutor.py).    *)
(*                                                                         *)
(* The dispatcher gives the updates of a chat to one handler at a time, so *)
(* the state is never shared.  What makes it hard: a handler goes through  *)
(* several awaits and may break off at each of them, after its write of    *)
(* the state; and the child may press any button the bot ever sent, be it  *)
(* of a question answered long ago or of an earlier homework.              *)
(*                                                                         *)
(* A handler is the write of the state it begins with and the calls still  *)
(* to be made after it, `todo`.  What a model or MAX or the child says is  *)
(* a free choice; tasks are known by their places in the album.            *)
(***************************************************************************)
EXTENDS Integers, SequencesExt, FiniteSets

CONSTANTS
    Albums,      (* the homeworks a check may find: subject and tasks      *)
    Subjects,    (* subjects of albums                                     *)
    MaxChecks,   (* bound on the checks                                    *)
    MaxResolved, (* bound on the tutorings of a homework that are resolved *)
    MaxFailures, (* bound on calls that fail, crashes and lost states      *)
    None         (* no question, no tutoring                               *)

\* The kinds of questions about a verdict: by buttons or text (sign), or by text alone.
VerdictKinds == {"sign", "result", "text"}

Strengths == {"ok", "candidate", "verified"}

Tasks == [sure : Strengths, asks : Seq(VerdictKinds), words : Seq({"open", "yes", "no"}),
          seed : BOOLEAN]

\* A chat nothing is known of is one in mathematics; what a check finds nobody has answered yet.
ASSUME DialogAssumption ==
    /\ "math" \in Subjects
    /\ MaxChecks \in Nat /\ MaxResolved \in Nat /\ MaxFailures \in Nat
    /\ None \notin [level : Nat, resolved : BOOLEAN]
    /\ \A album \in Albums :
        /\ album.subject \in Subjects
        /\ album.tasks \in Seq(Tasks) \ {<<>>}
        /\ \A i \in DOMAIN album.tasks :
              /\ album.tasks[i].asks # <<>> => album.tasks[i].sure = "candidate"
              /\ \A w \in DOMAIN album.tasks[i].words : album.tasks[i].words[w] = "open"

MaxQuestions == 2
MaxAttempts  == 2
MaxHintLevel == 3

VARIABLES
    chat,     (* ChatState of the chat in Redis                            *)
    todo,     (* the calls the handler that runs has yet to make           *)
    rows,     (* the table homeworks: of which check, errors_resolved      *)
    checks,   (* history: checks so far, the number of a check is its name *)
    screen,   (* history: the buttons that reached the child               *)
    asked,    (* history: the token of the question shown last             *)
    ended,    (* history: tasks of the chat whose tutoring came to an end  *)
    fixed,    (* history: those of them the handler took for fixed         *)
    told,     (* history: checks whose errors the parent knows as resolved *)
    gaveUp,   (* history: a question of the homework was given up          *)
    failures  (* failures so far                                           *)

history == <<checks, screen, asked, ended, fixed, told, gaveUp>>
vars == <<chat, todo, rows, checks, screen, asked, ended, fixed, told, gaveUp, failures>>

-----------------------------------------------------------------------------
(***************************************************************************)
(* Tasks and what is found in them.  Findings nobody is asked about, and   *)
(* the verdict of a recalculation, are in `sure`; `words` are candidates   *)
(* the child is asked about ("is it written so?"); `asks` are the kinds of *)
(* questions a verdict "uncertain" leads to.  `seed`: the word to be found *)
(* occurs in the phrase a tutoring opens with.                             *)
(***************************************************************************)
Buttons == {"sign", "word"}
Kinds   == VerdictKinds \union Buttons

\* strength_of_task(): the worst of the findings, a candidate the child denied being none.
Strength(task) ==
    LET heard == {task.words[w] : w \in DOMAIN task.words}
    IN  IF task.sure = "verified" \/ "yes" \in heard THEN "verified"
        ELSE IF task.sure = "candidate" \/ "open" \in heard THEN "candidate"
        ELSE "ok"

\* plan_clarifications(): doubtful verdicts first, words after them, MAX_QUESTIONS in all.
Question(check, n, task, kind, word) ==
    [task |-> task, kind |-> kind, word |-> word, attempts |-> 0, token |-> <<check, n>>]

Plan(tasks, check) ==
    LET ofVerdicts == FlattenSeq([i \in DOMAIN tasks |->
                          [k \in DOMAIN tasks[i].asks |-> <<i, tasks[i].asks[k], 0>>]])
        ofWords    == FlattenSeq([i \in DOMAIN tasks |->
                          [w \in DOMAIN tasks[i].words |-> <<i, "word", w>>]])
        all        == ofVerdicts \o ofWords
        upTo       == IF Len(all) < MaxQuestions THEN Len(all) ELSE MaxQuestions
    IN  [n \in 1..upTo |-> Question(check, n, all[n][1], all[n][2], all[n][3])]

\* What the answer to a question makes of its task: a denied or confirmed word, or a
\* recalculation, which may find anything but does not take back an error it has proved.
Answered(task, q) ==
    IF q.kind = "word" THEN {[task EXCEPT !.words[q.word] = a] : a \in {"yes", "no"}}
    ELSE IF task.sure = "verified" THEN {task}
    ELSE {[task EXCEPT !.sure = s] : s \in Strengths}

-----------------------------------------------------------------------------
(***************************************************************************)
(* The state of the chat.                                                  *)
(***************************************************************************)
Phases == {"idle", "clarifying", "review", "tutoring"}

\* ChatState(): also what is read when the state has expired or cannot be read.
Fresh == [phase |-> "idle", check |-> 0, subject |-> "math", tasks |-> <<>>, queue |-> <<>>,
          tutor |-> None, index |-> 0, resolved |-> <<>>, shown |-> {}, homework |-> 0]

Elements(s) == {s[i] : i \in DOMAIN s}

\* Mutant of Remaining (see Dispatcher on mutants): the verdicts alone, without the words.
RemainingSums(state) ==
    {i \in DOMAIN state.tasks :
        state.tasks[i].sure = "verified" /\ i \notin Elements(state.resolved) \union state.shown}

\* remaining_buttons(): errors nobody has worked through yet.
Remaining(state) ==
    {i \in DOMAIN state.tasks :
        Strength(state.tasks[i]) = "verified" /\ i \notin Elements(state.resolved) \union state.shown}

TutorButton(state, i) ==
    [kind |-> "tutor", check |-> state.check, task |-> i, word |-> 0, token |-> None]

QuestionButtons(state, q) ==
    IF q.kind \in Buttons
    THEN {[kind |-> q.kind, check |-> state.check, task |-> q.task, word |-> q.word,
            token |-> q.token]}
    ELSE {}

\* review_message(): a button for each error, except in the tasks about to be asked about.
ReviewButtons(state) ==
    LET about == {state.queue[n].task : n \in DOMAIN state.queue}
    IN  {TutorButton(state, i) : i \in {j \in DOMAIN state.tasks :
            Strength(state.tasks[j]) = "verified" /\ j \notin about}}

\* Mutant of ReplyButtons: an answer with questions behind it never brings the button.
ReplyButtonsAtLast(state, q, rest) ==
    IF Strength(state.tasks[q.task]) = "verified" /\ rest = <<>>
    THEN {TutorButton(state, q.task)}
    ELSE {}

\* answer_reply(), clarified_line(): the result of the task with its button, after an answer about
\* one line only when no other question is left about the task.
ReplyButtons(state, q, rest) ==
    IF /\ Strength(state.tasks[q.task]) = "verified"
       /\ q.kind = "result" => q.task \notin {rest[n].task : n \in DOMAIN rest}
    THEN {TutorButton(state, q.task)}
    ELSE {}

RemainingButtons(state) == {TutorButton(state, i) : i \in Remaining(state)}

-----------------------------------------------------------------------------
(***************************************************************************)
(* Calls made after the write of the state.                                *)
(***************************************************************************)
Say(offer)   == [call |-> "say", buttons |-> offer]
Ask          == [call |-> "ask", buttons |-> {}]
Save         == [call |-> "add_homework", buttons |-> {}]
Link         == [call |-> "homework_id", buttons |-> {}]
Count        == [call |-> "resolve_error", buttons |-> {}]
Tell         == [call |-> "tell", buttons |-> {}]

\* The calls of the notifier: a failure of one is caught and keeps the child from nothing.
Guarded == {"add_homework", "homework_id", "resolve_error", "tell"}

Init ==
    /\ chat = Fresh
    /\ todo = <<>>
    /\ rows = <<>>
    /\ checks = 0
    /\ screen = {}
    /\ asked = None
    /\ ended = {}
    /\ fixed = {}
    /\ told = {}
    /\ gaveUp = FALSE
    /\ failures = 0

\* The handler of an update begins when the one before is over.
Idle == todo = <<>>

-----------------------------------------------------------------------------
(***************************************************************************)
(* Photos.                                                                 *)
(***************************************************************************)
\* _process_photos(), _process_language_photos(): the summary, the first question and then the
\* notifier follow the write of the new state.
Checked(album) ==
    LET plan == Plan(album.tasks, checks + 1)
    IN  [Fresh EXCEPT !.phase = IF plan # <<>> THEN "clarifying" ELSE "review",
                      !.check = checks + 1, !.subject = album.subject,
                      !.tasks = album.tasks, !.queue = plan]

OnPhoto(album) ==
    /\ Idle
    /\ checks < MaxChecks
    /\ checks' = checks + 1
    /\ gaveUp' = FALSE
    /\ chat' = Checked(album)
    /\ todo' = <<Say(ReviewButtons(chat'))>>
                 \o (IF chat'.queue # <<>> THEN <<Ask>> ELSE <<>>) \o <<Save, Link>>
    /\ ended' = {} /\ fixed' = {} /\ asked' = None
    /\ UNCHANGED <<rows, screen, told, failures>>

\* An album of textbook pages leaves the homework in the chat alone, but for one in a language
\* that this homework is not in: it takes its place (_album_without_notebook).
OnTextbook(subject) ==
    /\ Idle
    /\ subject \notin {"math", chat.subject}
    /\ chat' = [Fresh EXCEPT !.subject = subject]
    /\ UNCHANGED <<todo, rows, checks, screen, asked, ended, fixed, told, gaveUp, failures>>

-----------------------------------------------------------------------------
(***************************************************************************)
(* Questions.                                                              *)
(***************************************************************************)
\* Mutant of NotUnderstood: the question given up is not followed by the next one.
NotUnderstoodSilently ==
    LET q    == Head(chat.queue)
        rest == Tail(chat.queue)
    IN  IF q.attempts + 1 < MaxAttempts
        THEN /\ chat' = [chat EXCEPT !.queue = <<[q EXCEPT !.attempts = @ + 1]>> \o rest]
             /\ todo' = <<Say(QuestionButtons(chat, q))>>
             /\ UNCHANGED gaveUp
        ELSE /\ chat' = [chat EXCEPT !.queue = rest,
                                     !.phase = IF rest # <<>> THEN "clarifying" ELSE "review"]
             /\ todo' = <<Say({})>>
             /\ gaveUp' = TRUE

\* _answer_clarification() without an answer that could be understood: one more try, or none.
NotUnderstood ==
    LET q    == Head(chat.queue)
        rest == Tail(chat.queue)
    IN  IF q.attempts + 1 < MaxAttempts
        THEN /\ chat' = [chat EXCEPT !.queue = <<[q EXCEPT !.attempts = @ + 1]>> \o rest]
             /\ todo' = <<Say(QuestionButtons(chat, q))>>
             /\ UNCHANGED gaveUp
        ELSE /\ chat' = [chat EXCEPT !.queue = rest,
                                     !.phase = IF rest # <<>> THEN "clarifying" ELSE "review"]
             /\ todo' = <<Say({})>> \o (IF rest # <<>> THEN <<Ask>> ELSE <<>>)
             /\ gaveUp' = TRUE

\* _answer_clarification() with an answer.
Understood(q) ==
    LET rest == Tail(chat.queue)
    IN  /\ \E task \in Answered(chat.tasks[q.task], q) :
              chat' = [chat EXCEPT !.tasks[q.task] = task, !.queue = rest,
                                   !.phase = IF rest # <<>> THEN "clarifying" ELSE "review"]
        /\ todo' = <<Say(ReplyButtons(chat', q, rest))>> \o (IF rest # <<>> THEN <<Ask>> ELSE <<>>)
        /\ UNCHANGED gaveUp

\* Mutant of AnswersHead: a press answers whatever is asked.
AnswersAnything(button) == chat.phase = "clarifying"

\* _on_callback(), `clarify:<token>:<key>`: only a button of the question at the head.
AnswersHead(button) ==
    /\ chat.phase = "clarifying"
    /\ button.token = Head(chat.queue).token

PressAnswer(button) ==
    /\ Idle
    /\ button.kind \in Buttons
    /\ AnswersHead(button)
    /\ IF button.kind = Head(chat.queue).kind THEN Understood(Head(chat.queue)) ELSE NotUnderstood
    /\ UNCHANGED <<rows, checks, screen, asked, ended, fixed, told, failures>>

\* _on_text() while a question is open: apply_text() may or may not make sense of it.
TypeAnswer ==
    /\ Idle
    /\ chat.phase = "clarifying"
    /\ Understood(Head(chat.queue)) \/ NotUnderstood
    /\ UNCHANGED <<rows, checks, screen, asked, ended, fixed, told, failures>>

-----------------------------------------------------------------------------
(***************************************************************************)
(* The tutor.                                                              *)
(***************************************************************************)
\* start_tutoring() and the first turn, "help me find the mistake", which is a turn like any
\* other: it takes a level unless the code finds the answer in it.
Opened(task) ==
    IF task.seed THEN [level |-> 0, resolved |-> TRUE] ELSE [level |-> 1, resolved |-> FALSE]

\* A task of a language must have an error to be worked through; in mathematics any task will do.
CanTutor(state, i) == state.subject = "math" \/ Strength(state.tasks[i]) = "verified"

\* Mutant of PressTutor: the questions stay where they are.
PressTutorAmidQuestions(button) ==
    /\ Idle
    /\ button.kind = "tutor"
    /\ button.task \in DOMAIN chat.tasks
    /\ CanTutor(chat, button.task)
    /\ Len(chat.resolved) < MaxResolved
    /\ chat' = [chat EXCEPT !.phase = "tutoring", !.tutor = Opened(chat.tasks[button.task]),
                            !.index = button.task]
    /\ todo' = <<Say({})>>
    /\ UNCHANGED <<rows, checks, screen, asked, ended, fixed, told, gaveUp, failures>>

\* _on_callback(), `tutor:<index>`: the index is of the tasks in the chat, whatever it was sent
\* for; the questions that are left are dropped.
PressTutor(button) ==
    /\ Idle
    /\ button.kind = "tutor"
    /\ button.task \in DOMAIN chat.tasks
    /\ CanTutor(chat, button.task)
    /\ Len(chat.resolved) < MaxResolved
    /\ chat' = [chat EXCEPT !.phase = "tutoring", !.tutor = Opened(chat.tasks[button.task]),
                            !.index = button.task, !.queue = <<>>]
    /\ todo' = <<Say({})>>
    /\ UNCHANGED <<rows, checks, screen, asked, ended, fixed, told, gaveUp, failures>>

\* tutor_reply(): a right answer resolves; a right step (known in mathematics alone) changes no
\* level; anything else takes a level, and after the last one closes, a word never being closed.
Turn(session, says) ==
    IF says = "right" THEN [session EXCEPT !.resolved = TRUE]
    ELSE IF says = "step" THEN session
    ELSE [session EXCEPT !.level = IF @ < MaxHintLevel THEN @ + 1 ELSE @]

Closes(session, subject, says) ==
    subject = "math" /\ says = "wrong" /\ session.level >= MaxHintLevel

\* Mutant of Ended: the session stays.
EndedHalf(state) == [state EXCEPT !.phase = "review"]

Ended(state) == [state EXCEPT !.phase = "review", !.tutor = None, !.index = 0]

\* Mutant of CountsFixed: a task counts each time.
CountsEach(state, i) == state.homework # 0

\* error_fixed(): counted when the homework is recorded and the task was not fixed before; the
\* parent is told when no error is left.
CountsFixed(state, i) ==
    state.homework # 0 /\ Cardinality({n \in DOMAIN state.resolved : state.resolved[n] = i}) <= 1

Notify(state, i) ==
    IF ~CountsFixed(state, i) THEN <<>>
    ELSE <<Count>> \o (IF Remaining(state) = {} THEN <<Tell>> ELSE <<>>)

\* The three ways _on_text() goes on in a tutoring.
EndsFixed(session) ==
    LET done == [Ended(chat) EXCEPT !.resolved = Append(@, chat.index)]
    IN  /\ session.resolved
        /\ chat' = done
        /\ todo' = <<Say({}), Say(RemainingButtons(done))>> \o Notify(done, chat.index)
        /\ fixed' = fixed \union {chat.index}
        /\ ended' = ended \union {chat.index}

EndsShown(session, says) ==
    LET done == [Ended(chat) EXCEPT !.shown = @ \union {chat.index}]
    IN  /\ ~session.resolved
        /\ Closes(chat.tutor, chat.subject, says)
        /\ chat' = done
        /\ todo' = <<Say({}), Say(RemainingButtons(done))>>
        /\ ended' = ended \union {chat.index}
        /\ UNCHANGED fixed

GoesOn(session, says) ==
    /\ ~session.resolved
    /\ ~Closes(chat.tutor, chat.subject, says)
    /\ chat' = [chat EXCEPT !.tutor = session]
    /\ todo' = <<Say({})>>
    /\ UNCHANGED <<ended, fixed>>

Says == {"right", "step", "wrong"}

Reply(says) ==
    /\ Idle
    /\ chat.phase = "tutoring"
    /\ says = "step" => chat.subject = "math"
    /\ LET session == Turn(chat.tutor, says)
       IN  EndsFixed(session) \/ EndsShown(session, says) \/ GoesOn(session, says)
    /\ UNCHANGED <<rows, checks, screen, asked, told, gaveUp, failures>>

\* _on_text() between homeworks: the errors that are left, or a greeting.
Chatter ==
    /\ Idle
    /\ chat.phase \in {"review", "idle"}
    /\ todo' = <<Say(RemainingButtons(chat))>>
    /\ UNCHANGED <<chat, rows, checks, screen, asked, ended, fixed, told, gaveUp, failures>>

-----------------------------------------------------------------------------
(***************************************************************************)
(* The calls of a handler, and their failures.                             *)
(***************************************************************************)
Calls(call) ==
    /\ todo # <<>>
    /\ Head(todo).call = call
    /\ todo' = Tail(todo)

Send ==
    /\ Calls("say")
    /\ screen' = screen \union Head(todo).buttons
    /\ UNCHANGED <<chat, rows, checks, asked, ended, fixed, told, gaveUp, failures>>

\* _ask_clarification(): the question at the head of the queue.
SendQuestion ==
    /\ Calls("ask")
    /\ screen' = screen \union QuestionButtons(chat, Head(chat.queue))
    /\ asked' = Head(chat.queue).token
    /\ UNCHANGED <<chat, rows, checks, ended, fixed, told, gaveUp, failures>>

\* _save(): the row, then its id into the state, which is read again.
AddHomework ==
    /\ Calls("add_homework")
    /\ rows' = Append(rows, [check |-> chat.check, resolved |-> 0])
    /\ UNCHANGED <<chat, history, failures>>

WriteHomeworkId ==
    /\ Calls("homework_id")
    /\ chat' = [chat EXCEPT !.homework = Len(rows)]
    /\ UNCHANGED <<rows, history, failures>>

ResolveError ==
    /\ Calls("resolve_error")
    /\ rows' = [rows EXCEPT ![chat.homework].resolved = @ + 1]
    /\ UNCHANGED <<chat, history, failures>>

TellParent ==
    /\ Calls("tell")
    /\ told' = told \union {rows[chat.homework].check}
    /\ UNCHANGED <<chat, rows, checks, screen, asked, ended, fixed, gaveUp, failures>>

Fails == failures < MaxFailures /\ failures' = failures + 1

\* _guard(): a call of the notifier fails.  What depends on it is left out as well.
NotifierFails ==
    /\ Fails
    /\ todo # <<>>
    /\ Head(todo).call \in Guarded
    /\ todo' = <<>>
    /\ UNCHANGED <<chat, rows, history>>

\* MAX or Redis does not answer (handle_update then excuses itself) or the process dies: the
\* rest of the handler is lost, and the notifier with it.
BreaksOff ==
    /\ Fails
    /\ todo # <<>>
    /\ Head(todo).call \notin Guarded
    /\ todo' = <<>>
    /\ UNCHANGED <<chat, rows, history>>

\* The state is gone: its day is over, or a new version of the bot cannot read it.
Forget ==
    /\ Fails
    /\ todo = <<>>
    /\ chat # Fresh
    /\ chat' = Fresh
    /\ UNCHANGED <<todo, rows, history>>

-----------------------------------------------------------------------------
Update ==
    \/ \E album \in Albums : OnPhoto(album)
    \/ \E subject \in Subjects : OnTextbook(subject)
    \/ \E button \in screen : PressAnswer(button) \/ PressTutor(button)
    \/ TypeAnswer
    \/ \E says \in Says : Reply(says)
    \/ Chatter

Call == Send \/ SendQuestion \/ AddHomework \/ WriteHomeworkId \/ ResolveError \/ TellParent

Failure == NotifierFails \/ BreaksOff \/ Forget

Next == Update \/ Call \/ Failure

Spec == Init /\ [][Next]_vars

-----------------------------------------------------------------------------
(***************************************************************************)
(* Properties.                                                             *)
(***************************************************************************)
Checks == 1..MaxChecks
Tokens == Checks \X (1..MaxQuestions)

AllButtons == [kind : Buttons \union {"tutor"}, check : Checks, task : Nat, word : Nat,
               token : Tokens \union {None}]

Questions == [task : Nat, kind : Kinds, word : Nat, attempts : 0..(MaxAttempts - 1),
              token : Tokens]

Sessions == [level : 0..MaxHintLevel, resolved : BOOLEAN]

\* Types, and what the phase says of the rest of the state: a tutoring is of a task of the chat,
\* a question of one of its tasks, and either is there in its phase only.
TypeOK ==
    /\ chat \in [phase : Phases, check : Checks \union {0}, subject : Subjects,
                  tasks : Seq(Tasks), queue : Seq(Questions),
                  tutor : Sessions \union {None}, index : Nat, resolved : Seq(Nat \ {0}),
                  shown : SUBSET (Nat \ {0}), homework : 0..Len(rows)]
    /\ chat.phase = "tutoring" <=> chat.tutor # None
    /\ chat.phase = "tutoring" => chat.index \in DOMAIN chat.tasks
    /\ chat.phase # "idle" <=> chat.check # 0
    /\ todo \in Seq([call : Guarded \union {"say", "ask"}, buttons : SUBSET AllButtons])
    /\ rows \in Seq([check : Checks, resolved : Nat])
    /\ checks \in Checks \union {0}
    /\ screen \subseteq AllButtons
    /\ asked \in Tokens \union {None}
    /\ ended \subseteq Nat \ {0}
    /\ fixed \subseteq ended
    /\ told \subseteq Checks
    /\ gaveUp \in BOOLEAN
    /\ failures \in 0..MaxFailures

\* A question waits while the phase says so, never two of the same token, and one about a word is
\* about a word nobody has confirmed or denied yet (_finding, handlers.py:693-698).
QuestionsLive ==
    /\ chat.phase = "clarifying" <=> chat.queue # <<>>
    /\ \A n, m \in DOMAIN chat.queue :
          chat.queue[n].token = chat.queue[m].token => n = m
    /\ \A n \in DOMAIN chat.queue :
          LET q == chat.queue[n]
          IN  q.kind = "word" => chat.tasks[q.task].words[q.word] = "open"

\* A pressed button changes the task and the word it was sent for and no other, however old it
\* is and whatever was asked, answered or checked since (fsm.py:69-70).
ButtonAnswersItsQuestion ==
    [][\A b \in screen :
          PressAnswer(b) /\ chat'.tasks # chat.tasks
          => /\ b.check = chat.check
             /\ \A i \in DOMAIN chat.tasks :
                   chat'.tasks[i] # chat.tasks[i]
                   => /\ i = b.task
                      /\ \A w \in DOMAIN chat.tasks[i].words :
                            chat'.tasks[i].words[w] # chat.tasks[i].words[w] => w = b.word]_vars

\* As long as no call has failed, the question the child has before him is the one his next
\* words will be taken for an answer to.
AskedIsHead ==
    failures = 0 /\ todo = <<>> /\ chat.phase = "clarifying" => asked = Head(chat.queue).token

\* As long as no call has failed and no question was given up, the child has been sent a button
\* for every error of the homework he has not worked through, though the summary leaves out the
\* tasks it is going to ask about.
ErrorsOffered ==
    failures = 0 /\ ~gaveUp /\ todo = <<>> /\ chat.phase = "review"
    => RemainingButtons(chat) \subseteq screen

\* Errors are counted in the row of the homework in the chat, whichever calls failed for it or an
\* earlier one; errors_resolved counts a task once, however often it is worked through, and without
\* failures it counts all of them (notifier.py:177-179, 218-225).
CountedOnce ==
    chat.homework # 0 =>
        /\ rows[chat.homework].check = chat.check
        /\ rows[chat.homework].resolved <= Cardinality(fixed)
        /\ failures = 0 /\ todo = <<>> => rows[chat.homework].resolved = Cardinality(fixed)

\* "All errors of the homework are resolved" stays true once the parent has read it: no error that
\* nobody worked through is left, or turns up later (notifier.py:188, summary.py:139-147).
ToldAllIsFinal ==
    \A c \in told :
        c = chat.check =>
            \A i \in DOMAIN chat.tasks : Strength(chat.tasks[i]) = "verified" => i \in ended

\* The result of a task with the button for its error comes after the last question about the task
\* (clarify.py:250-251): whatever became of the questions, each error has been offered.
OfferedAfterQuestions ==
    failures = 0 /\ todo = <<>> /\ chat.phase = "review" => RemainingButtons(chat) \subseteq screen

\* An error is fixed only by an answer the code has found right (tutor.py:10).
FixedByAnswer ==
    [][\A says \in Says \ {"right"} : Reply(says) => chat'.resolved = chat.resolved]_vars


\* The chat state fits what the child has on the screen: the phase, the questions that wait, and the
\* one that the child's next words will be taken for an answer to.
QuestionsMatch == TypeOK /\ QuestionsLive /\ AskedIsHead

\* No error of the homework goes unmentioned: the child has a button for each, and the parent reads
\* "all errors are resolved" when none is left.
ErrorsStand == ErrorsOffered /\ ToldAllIsFinal
=============================================================================
