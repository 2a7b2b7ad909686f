--------------------------------- MODULE Album ---------------------------------
(***************************************************************************)
(* One message with photos, from its pages to the review (bot/handlers.py, *)
(* bot/check.py, bot/pages.py, bot/praise.py): which pages are a textbook  *)
(* and which a notebook, how long the conditions of a textbook are         *)
(* remembered, which condition a task of the notebook gets, which page is  *)
(* the end of a task of another page, where the photo of a word lies, and  *)
(* what a correct task is praised with.                                    *)
(*                                                                         *)
(* A chat has one handler at a time (Dispatcher), so an album is one step; *)
(* the replies to it are left to Dialog.  Chats of a parent get the        *)
(* homework of several children and so of several subjects.                *)
(***************************************************************************)
EXTENDS Integers, Sequences, FiniteSets, SequencesExt

CONSTANTS
    Pages,       \* what a photo may show, see Page and Task
    Praises,     \* answers of the model to the step that praises: Failed, or items [index, safe]
    MaxPhotos,   \* MAX_PHOTOS
    Ttl,         \* TEXTBOOK_TTL_S
    MaxHomework, \* bound: homeworks in a subject
    MaxSent,     \* bound: photos sent to the chat
    MaxNow       \* bound: the clock

VARIABLES
    now,
    homework,    \* [subject -> the homework the children of this chat are doing now]
    last,        \* [subject -> when its last album came, Never before the first]
    photos,      \* how many photos came
    chat,        \* ChatState: what is remembered and what is under review
    sent         \* the album under review

avars == <<now, homework, last, photos, chat, sent>>

Never == -1
Failed == <<"failed">>
NoPath == <<>>
Subjects == {"math", "russian"}

\* An exercise is a homework and a number in it.  A task on a page is about one exercise; what the
\* recognition makes of it is the rest.
Task == [exercise |-> 1, number |-> 1,
         written |-> TRUE,    \* number_on_page: the number is in the transcript
         text |-> FALSE,      \* a condition is on the page
         nums |-> {},         \* numbers of its text and of the left sides of its lines
         lines |-> TRUE, computed |-> FALSE,  \* lines, and one the validator recalculates
         answer |-> TRUE, right |-> TRUE,
         flaw |-> "none"]     \* "error": a line that disagrees, "doubt": one that may be misread

\* role, rotation and unread are what a subject with words gets of its module; in mathematics the
\* role is found out by PageRole
Page == [subject |-> "math", tasks |-> <<>>, role |-> "unknown", rotation |-> 0, unread |-> FALSE]

Numbers == {nums \in SUBSET Nat : IsFiniteSet(nums)}
Tasks == [exercise : Nat, number : Nat, written : BOOLEAN, text : BOOLEAN, nums : Numbers,
          lines : BOOLEAN, computed : BOOLEAN, answer : BOOLEAN, right : BOOLEAN,
          flaw : {"none", "doubt", "error"}]

ASSUME AlbumAssumption ==
    /\ Ttl \in Nat /\ MaxPhotos \in Nat
    /\ Pages \subseteq [subject : Subjects, tasks : Seq(Tasks), rotation : Nat, unread : BOOLEAN,
                       role : {"unknown", "textbook", "notebook"}]
    /\ \A s \in Subjects : \E p \in Pages : p.subject = s

\* fate: "failed" when the download or the recognition fails, whatever the photo shows; "unsaved"
\* when only the disk does, which matters where words are shown
Photos(s) ==
    LET pages == {p \in Pages : p.subject = s}
    IN [page : pages, fate : IF s = "math" THEN {"ok"} ELSE {"ok", "unsaved"}]
       \cup {[page |-> CHOOSE p \in pages : TRUE, fate |-> "failed"]}
Albums(s) == UNION {[1 .. n -> Photos(s)] : n \in 1 .. MaxPhotos}
MathAlbums == Albums("math")
WordAlbums == Albums("russian")
Recognized(album) == {i \in DOMAIN album : album[i].fate # "failed"}

ChatState == [subject |-> "math", textbook |-> <<>>, conditions |-> <<>>, saved |-> Never,
              checked |-> <<>>, paths |-> <<>>]

----------------------------------------------------------------------------
(* Pages of mathematics.                                                   *)

\* page_role: a notebook has an answer or recalculated line for at least half of its conditions
PageRole(tasks) ==
    LET signals == {i \in DOMAIN tasks : tasks[i].answer \/ tasks[i].computed}
        printed == {i \in DOMAIN tasks : tasks[i].text}
    IN CASE tasks = <<>> -> "empty"
         [] signals # {} /\ 2 * Cardinality(signals) >= Cardinality(printed) -> "notebook"
         [] tasks # <<>> /\ signals = {} /\ printed = {} /\ (\E i \in DOMAIN tasks : tasks[i].lines) ->
              "notebook"
         [] OTHER -> IF printed # {} THEN "textbook" ELSE "empty"

NoExercise == <<0, 0>>
Stamped(task, hw) ==
    [of |-> <<hw, task.exercise>>, number |-> task.number, written |-> task.written,
     nums |-> task.nums, lines |-> task.lines, computed |-> task.computed, right |-> task.right,
     flaw |-> task.flaw,
     answerOf |-> IF task.answer THEN <<hw, task.exercise>> ELSE NoExercise]

Condition(task, hw) == [of |-> <<hw, task.exercise>>, number |-> task.number,
                        written |-> task.written, nums |-> task.nums]

After(c, d) == d.number < c.number \/ (d.number = c.number /\ d.written /\ ~c.written)
Insert(known, c) ==
    LET before == Cardinality({i \in DOMAIN known : ~After(known[i], c)})
    IN SubSeq(known, 1, before) \o <<c>> \o SubSeq(known, before + 1, Len(known))

\* merge_textbook: a written number is a key, conditions with a made-up one pile up by their text
Merge(known, c) ==
    LET same == {i \in DOMAIN known : /\ known[i].written = c.written
                                     /\ IF c.written THEN known[i].number = c.number
                                        ELSE known[i].of = c.of}
    IN IF same = {} THEN Insert(known, c)
       ELSE [i \in DOMAIN known |-> IF c.written /\ i \in same THEN c ELSE known[i]]

MergePage(known, tasks, hw) ==
    LET upTo[n \in 0 .. Len(tasks)] ==
            IF n = 0 THEN known
            ELSE IF tasks[n].text \/ tasks[n].lines
            THEN Merge(upTo[n - 1], Condition(tasks[n], hw)) ELSE upTo[n - 1]
    IN upTo[Len(tasks)]

----------------------------------------------------------------------------
(* _attach_continuations: a page with nothing but an answer.               *)

Continues(tasks) == Len(tasks) = 1 /\ ~tasks[1].written /\ tasks[1].answerOf # NoExercise
Unfinished(tasks) ==
    /\ ~Continues(tasks) /\ tasks # <<>>
    /\ Last(tasks).written /\ Last(tasks).answerOf = NoExercise

Glued(task, end) == [task EXCEPT !.answerOf = end.answerOf, !.right = @ /\ end.right,
                                 !.lines = @ \/ end.lines, !.computed = @ \/ end.computed,
                                 !.nums = @ \cup end.nums,
                                 !.flaw = IF @ = "none" \/ end.flaw = "error" THEN end.flaw ELSE @]

\* Mutant of Pairs: the first of several such pages and tasks are joined.
PairsFirst(ends, starts) == ends # {} /\ starts # {}

\* Joined only when the album has one of each.
Pairs(ends, starts) == Cardinality(ends) = 1 /\ Cardinality(starts) = 1

AttachContinuations(pages) ==
    LET ends == {p \in DOMAIN pages : Continues(pages[p])}
        starts == {p \in DOMAIN pages : Unfinished(pages[p])}
        end == CHOOSE p \in ends : \A q \in ends : p <= q
        start == CHOOSE p \in starts : \A q \in starts : p <= q
        glued == Append(Front(pages[start]), Glued(Last(pages[start]), pages[end][1]))
        joined == [pages EXCEPT ![end] = <<>>, ![start] = glued]
    IN FlattenSeq(IF Pairs(ends, starts) THEN joined ELSE pages)

----------------------------------------------------------------------------
(* attach_conditions: a printed condition for a task of the notebook.      *)

ExactNumber(task, c) == c.number = task.number /\ c.written /\ task.written

Distinctive(conditions, j) ==
    {n \in conditions[j].nums : \A k \in DOMAIN conditions \ {j} : n \notin conditions[k].nums}

Score(tasks, conditions, i, j) ==
    (IF ExactNumber(tasks[i], conditions[j]) THEN 2 ELSE 0)
    + Cardinality(tasks[i].nums \cap Distinctive(conditions, j))

\* Mutant of Excludes: a condition given away is given again.
ExcludesTask(q, p, exact) == q[1] = p[1]

\* After q is given p is not: the task has its condition, or the condition is another task's and
\* the number does not match.
Excludes(q, p, exact) == q[1] = p[1] \/ (q[2] = p[2] /\ ~exact)

\* The best pairs first, by numbers before contents: the pairs of a task and its condition
Chosen(tasks, conditions) ==
    LET score(p) == Score(tasks, conditions, p[1], p[2])
        exact(p) == ExactNumber(tasks[p[1]], conditions[p[2]])
        pairs == {p \in (DOMAIN tasks) \X (DOMAIN conditions) : score(p) >= 2}
        before(p, q) == \/ score(p) > score(q)
                        \/ score(p) = score(q) /\ exact(p) /\ ~exact(q)
                        \/ /\ score(p) = score(q) /\ exact(p) = exact(q)
                           /\ p[1] < q[1] \/ (p[1] = q[1] /\ p[2] < q[2])
        given[p \in pairs] == \A q \in pairs : before(q, p) /\ given[q] => ~Excludes(q, p, exact(p))
    IN {p \in pairs : given[p]}

----------------------------------------------------------------------------
(* _check_task and explain_correct.                                        *)

\* check_task: the solution of the condition, when it could be verified, or the lines alone.  What
\* grade makes of a line is in Grading: here the child's work is right or not, and an answer is
\* right for its own exercise only.  A right answer outweighs a flaw in the lines.
Verdict(task, condition, solved) ==
    CASE condition # NoExercise /\ solved /\ task.answerOf # NoExercise ->
           IF task.right /\ task.answerOf = condition THEN "correct" ELSE "wrong"
      [] task.computed /\ ~(condition # NoExercise /\ solved /\ task.answerOf # NoExercise) ->
           CASE ~task.right \/ task.flaw = "error" -> "wrong"
             [] task.right /\ task.flaw = "doubt" -> "uncertain"
             [] task.right /\ task.flaw = "none" /\ condition # NoExercise /\ solved /\ task.of # condition -> "uncertain"
             [] OTHER -> "correct"
      [] OTHER -> "uncertain"

\* `printed` is the place of the condition in the textbook, 0 when there is none
Checked(task, condition, printed, exact, solved) ==
    [of |-> task.of, answerOf |-> task.answerOf, printed |-> printed, exact |-> exact,
     right |-> task.right, against |-> {condition} \ {NoExercise},
     verdict |-> Verdict(task, condition, solved), lines |-> task.lines, flaw |-> task.flaw,
     praise |-> "none"]

\* _correct_grade, describable: what the model is asked about.  It would repeat a line that
\* disagrees as a right one.
Correct(checked) == {i \in DOMAIN checked : checked[i].verdict = "correct"}
Told(checked) == {i \in Correct(checked) : checked[i].lines /\ checked[i].flaw = "none"}

\* Mutant of Accepted: the model's index is taken as it is.
AcceptedAny(items, told) == {k \in DOMAIN items : items[k].safe}

\* accepted_praise: the first item on a task that was asked about, when it is safe
Accepted(items, told) ==
    {k \in DOMAIN items : /\ items[k].index \in told /\ items[k].safe
                          /\ \A l \in 1 .. k - 1 : items[l].index # items[k].index}

\* explain_correct: a failure of the model leaves the texts the bot has of its own
Praised(checked, answer) ==
    LET told == Told(checked)
        items == IF told = {} \/ answer = Failed THEN <<>> ELSE answer
        by == {items[k].index : k \in Accepted(items, told)}
    IN [i \in DOMAIN checked |-> [checked[i] EXCEPT !.praise =
          CASE i \in by -> "model"
            [] i \in Correct(checked) \ by -> "own"
            [] OTHER -> "none"]]

----------------------------------------------------------------------------
(* The handlers.                                                           *)

\* Mutant of Known: the conditions of yesterday.
KnownStale(s) == IF s = "math" THEN chat.textbook ELSE chat.conditions

\* What the chat remembers for this subject: both kinds of conditions share one time of saving.
Known(s) ==
    CASE chat.saved = Never \/ now - chat.saved >= Ttl -> <<>>
      [] chat.saved # Never /\ now - chat.saved < Ttl /\ s = "math" -> chat.textbook
      [] OTHER -> IF chat.subject = s THEN chat.conditions ELSE <<>>

\* _recognize_all: a path for every photo of the message
MathPath(album, i) == IF album[i].fate = "ok" THEN <<i, 0>> ELSE NoPath

\* split_pages
Notebook(album) ==
    [i \in 1 .. Len(album) |->
       IF i \in Recognized(album) /\ PageRole(album[i].page.tasks) = "notebook"
       THEN [t \in DOMAIN album[i].page.tasks |-> Stamped(album[i].page.tasks[t], homework["math"])]
       ELSE <<>>]
TextbookPages(album) ==
    {i \in Recognized(album) : PageRole(album[i].page.tasks) = "textbook"}
Textbook(album, known) ==
    LET upTo[n \in 0 .. Len(album)] ==
            IF n = 0 THEN known
            ELSE IF n \in TextbookPages(album)
            THEN MergePage(upTo[n - 1], album[n].page.tasks, homework["math"]) ELSE upTo[n - 1]
    IN upTo[Len(album)]

CheckedAlbum(tasks, conditions, solved) ==
    LET chosen == Chosen(tasks, conditions)
    IN [i \in DOMAIN tasks |->
          LET given == {p \in chosen : p[1] = i}
              j == (CHOOSE p \in given : TRUE)[2]
          IN IF given # {}
             THEN Checked(tasks[i], conditions[j].of, j, ExactNumber(tasks[i], conditions[j]), solved)
             ELSE Checked(tasks[i], NoExercise, 0, FALSE, solved)]

Arrives(s, album) ==
    /\ photos + Len(album) <= MaxSent /\ photos' = photos + Len(album)
    /\ last' = [last EXCEPT ![s] = now]
    /\ UNCHANGED <<now, homework>>

SavedIf(remembered) == IF remembered = <<>> THEN Never ELSE now

\* _process_photos, mathematics: a notebook is checked, a textbook alone is remembered
MathAlbum ==
    \E album \in MathAlbums :
       LET textbook == Textbook(album, Known("math"))
           tasks == AttachContinuations(Notebook(album))
       IN /\ Arrives("math", album)
          /\ \/ /\ tasks # <<>>
                /\ \E solved \in BOOLEAN, answer \in Praises :
                     chat' = [ChatState EXCEPT
                                !.textbook = textbook, !.saved = SavedIf(textbook),
                                !.checked = Praised(CheckedAlbum(tasks, textbook, solved), answer),
                                !.paths = [i \in DOMAIN album |-> MathPath(album, i)]]
                /\ sent' = album
             \/ /\ tasks = <<>> /\ TextbookPages(album) # {}
                /\ chat' = [chat EXCEPT !.textbook = textbook, !.saved = now]
                /\ UNCHANGED sent
             \/ /\ tasks = <<>> /\ TextbookPages(album) = {}
                /\ UNCHANGED <<chat, sent>>

\* Mutant of WordPath: a turned photo that can not be saved leaves the one as it came.
WordPathAsCame(photo, i) ==
    IF photo.fate = "ok" THEN <<i, photo.page.rotation>> ELSE <<i, 0>>

\* _recognize_language_album: the photo in the position its words were read in, or none; a photo
\* that failed after it was saved is kept as it came
WordPath(photo, i) ==
    CASE photo.fate = "ok" -> <<i, photo.page.rotation>>
      [] photo.fate = "failed" -> <<i, 0>>
      [] OTHER -> NoPath

\* _split_language_album: the last page that has the number gives the exercise
Exercises(album, known) ==
    LET pages == {i \in Recognized(album) : album[i].page.role = "textbook"}
        printed == UNION {{<<i, t>> : t \in DOMAIN album[i].page.tasks} : i \in pages}
        task(p) == album[p[1]].page.tasks[p[2]]
        of(n) == {p \in printed : task(p).number = n}
        latest(n) == CHOOSE p \in of(n) : \A q \in of(n) : q[1] < p[1] \/ (q[1] = p[1] /\ q[2] <= p[2])
    IN [n \in DOMAIN known \cup {task(p).number : p \in printed} |->
          IF of(n) # {} THEN <<homework["russian"], task(latest(n)).exercise>> ELSE known[n]]
WordPages(album) ==
    {i \in Recognized(album) : album[i].page.role = "notebook" /\ ~album[i].page.unread}
WordTasks(album, exercises) ==
    [i \in WordPages(album) |->
       [of |-> <<homework["russian"], album[i].page.tasks[1].exercise>>,
        against |-> {exercises[n] : n \in DOMAIN exercises}, index |-> i]]

\* _process_language_photos and _album_without_notebook
WordAlbum ==
    \E album \in WordAlbums :
       LET exercises == Exercises(album, Known("russian"))
           tasks == WordTasks(album, exercises)
           kept == IF chat.subject = "russian" THEN chat ELSE ChatState
       IN /\ Arrives("russian", album)
          /\ \/ /\ tasks # <<>>
                /\ chat' = [ChatState EXCEPT
                              !.subject = "russian", !.conditions = exercises,
                              !.saved = SavedIf(exercises), !.checked = tasks,
                              !.paths = [i \in DOMAIN album |-> WordPath(album[i], i)]]
                /\ sent' = album
             \/ /\ tasks = <<>> /\ Recognized(album) # {} /\ exercises # <<>>
                /\ chat' = [kept EXCEPT !.subject = "russian", !.conditions = exercises,
                                        !.saved = now]
                /\ sent' = IF chat.subject = "russian" THEN sent ELSE <<>>
             \/ /\ tasks = <<>> /\ (Recognized(album) = {} \/ exercises = <<>>)
                /\ UNCHANGED <<chat, sent>>

----------------------------------------------------------------------------
Init ==
    /\ now = 0
    /\ homework = [s \in Subjects |-> 1]
    /\ last = [s \in Subjects |-> Never]
    /\ photos = 0
    /\ chat = ChatState
    /\ sent = <<>>

\* The children of the chat start the next homework in a subject: not while the previous one is
\* still being sent.
NextHomework(s) ==
    /\ last[s] # Never /\ now - last[s] >= Ttl /\ homework[s] < MaxHomework
    /\ homework' = [homework EXCEPT ![s] = @ + 1]
    /\ UNCHANGED <<now, last, photos, chat, sent>>

Tick ==
    /\ now < MaxNow /\ now' = now + 1
    /\ UNCHANGED <<homework, last, photos, chat, sent>>

Next == MathAlbum \/ WordAlbum \/ Tick \/ \E s \in Subjects : NextHomework(s)

Spec == Init /\ [][Next]_avars

----------------------------------------------------------------------------
(* Properties.                                                             *)

OneHomeworkOf(checked) == \A i \in DOMAIN checked : \A e \in checked[i].against : e[1] = checked[i].of[1]

\* A homework is never checked against a condition of another one, in a chat with homework in one
\* subject: the numbers are the same, the conditions are not (textbook_is_fresh).
OneHomework == (\E s \in Subjects : last[s] = Never) => OneHomeworkOf(chat.checked)

\* pages.py says so of every chat: the conditions of a textbook live for one homework.
ConditionsOfOneHomework == OneHomeworkOf(chat.checked)

\* One condition goes to one task of the notebook, and to another only when that one has its number
\* in writing (attach_conditions).
OneConditionOneTask ==
    chat.subject = "math" =>
      \A i, j \in DOMAIN chat.checked :
         i # j /\ chat.checked[i].printed = chat.checked[j].printed /\ chat.checked[i].printed # 0
         => chat.checked[i].exact \/ chat.checked[j].exact

\* The answers on a page of their own belong to unfinished tasks of the same message; both pages were
\* read and taken for pages of a notebook.
EndsFollowStarts(album) ==
    LET ending(i) == Last(album[i].page.tasks)
        pages == {i \in Recognized(album) : PageRole(album[i].page.tasks) = "notebook"}
        ends == {i \in pages : /\ Len(album[i].page.tasks) = 1
                               /\ ~ending(i).written /\ ending(i).answer}
    IN \A i \in ends : \E j \in pages :
          ending(i).exercise = ending(j).exercise /\ ending(j).written /\ ~ending(j).answer

\* An answer is never joined to the solution of another exercise, whichever order the photos of the
\* album come in (_attach_continuations).
NoForeignAnswer ==
    chat.subject = "math" /\ EndsFollowStarts(sent) =>
      \A i \in DOMAIN chat.checked : chat.checked[i].answerOf \in {NoExercise, chat.checked[i].of}

\* A word is shown to the child in the picture it was read from, turned as it was then, or not at
\* all: photos that fail, or can not be saved, do not shift the others (Word.photo_index).
WordsInTheirPhoto ==
    chat.subject = "russian" =>
      \A i \in DOMAIN chat.checked :
         LET at == chat.checked[i].index
         IN /\ sent[at].page.tasks[1].exercise = chat.checked[i].of[2]
            /\ chat.paths[at] \in {NoPath, <<at, sent[at].page.rotation>>}

\* Work with an error is not praised, whatever indices the model answers with, and no failure of the
\* model leaves right work without a word; the words on a right answer with a flaw in its lines are
\* the bot's own (accepted_praise, explain_correct, describable).
PraiseForCorrect ==
    chat.subject = "math" =>
      \A i \in DOMAIN chat.checked :
         /\ (chat.checked[i].praise # "none") <=> (chat.checked[i].verdict = "correct")
         /\ chat.checked[i].praise = "model" => chat.checked[i].flaw = "none"

\* What a child wrote is put where it belongs: a condition of the textbook goes to one task, and an
\* answer on a page of its own to the solution it ends.
AnswersInPlace == OneConditionOneTask /\ NoForeignAnswer

\* What the child is shown is what was checked: a word in the picture it was read from, and praise
\* for right work only.
ShownRight == WordsInTheirPhoto /\ PraiseForCorrect
=============================================================================
