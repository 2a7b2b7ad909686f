# Verification of the homework bot

TLA+ models of max-homework-ai, a bot in the MAX messenger: a child sends a photo of
homework, the bot checks it with language models, asks what it could not read, and leads the
child to its mistakes; parents give the consent, link their children, and get a report once a
week. It is one asyncio process (`src/src/hwcheck`) beside Redis, PostgreSQL and an OCR service.

Paths below are relative to `src/src/hwcheck`.

## The system

| Component | State | Operations | Hard behaviour |
|---|---|---|---|
| Update dispatcher, `bot/dispatch.py` | queue and task per chat, slots (semaphore), counters, events `_idle`, `_capacity` | `submit`, `wait_for_capacity`, `_run_chat`, `_settle`, `drain`, `abort` | tasks of all chats interleave; cancellation at any await; shutdown under a deadline |
| Poll loop, `bot/runner.py`, `bot/max_api.py` | marker in memory and in `var/max_marker.txt`, stop event | `_receive`, `_save_marker`, `_load_marker`, `_poll_loop` | at-most-once delivery over crashes, disk errors, a stop that races with an answer |
| Calendar, `bot/report_schedule.py` | none | `last_slot`, `next_slot`, `deliverable`, `weekly_period`, `previous_period` | half-open weeks, quiet hours over midnight |
| Weekly report, `bot/report_schedule.py`, `bot/report.py`, `db/reports.py` | marks `weekly_reports`, switch, `_missed_checked` | `tick`, `_deliver`, `_send`, `due_parents`, `claim_weekly`, `finish_weekly`, `send_weekly` | crash between mark, report and outcome; time limits; two processes; settings that change during a pass |
| Onboarding, `bot/onboarding/*`, `db/repo.py` | accounts, profiles, consents, invitations, `OnboardingState` in Redis | open and accept links and codes, decline, start a child, renew a consent, whose photo, reminders | two users on one invitation or child, double presses, a state that expires |
| Album, `bot/check.py`, `bot/pages.py`, `bot/handlers.py`, `bot/praise.py` | conditions of a textbook in `ChatState` | roles of pages, merging, matching conditions, ends of tasks | pages that fail shift the others; conditions of an earlier homework |
| Mathematics, `pipeline/validator.py`, `reading.py`, `grade.py`, `subjects/math` | none | recalculate, doubt, grade, find | a line the recognition misread |
| Russian, `subjects/russian/*` | none | align, join hyphens, pair exercises, ask | ties of the alignment; furniture of a page |
| Knowledge base, `db/kb.py`, `subjects/russian/gaps.py`, `kb_cli.py` | pages, answers with status | resolve a reference, keep it, review | concurrent checks, a reviewer beside them, each query may fail |
| Dialog, `bot/handlers.py`, `bot/fsm.py`, `bot/clarify.py` | `ChatState` in Redis | photo, text, button, clarification, tutoring step | state written before calls that may fail; buttons of old messages |
| Notifier, `bot/notifier.py` | `homeworks` rows | `homework_checked`, `error_fixed`, `switch` | failures in between, order of resolved tasks |
| Tutor, `pipeline/tutor.py` | `TutorSession` in `ChatState` | `tutor_reply` | a model that may say anything |
| Model calls, `llm/*`, `pipeline/vision.py`, `solver.py`, ... | slots, journal, cache, photos at GigaChat | `chat`, `chat_structured`, `analyze_image`, retries | paid requests that must not be repeated; cancellation at any await |
| Photos, OCR, events, cost | files, tables | save and purge, recognise, append | mostly input and output |

MAX hands updates to the poll loop, which submits them to the dispatcher; the dispatcher runs
`Bot.handle_update` for one update of a chat at a time; the handler asks the onboarding who is
writing, then checks photos or goes on with the dialog, calling models, and tells the parent
through the notifier. The weekly loop runs beside the polling in the same process, shares the
database with the handlers (switch, consent, homeworks) and stops with the same event.

`PROJECT.json` lists every component with its status, and the hazards of the code line by line.

## Modules

| Module | Models | Theorems |
|---|---|---|
| `Dispatcher` | `UpdateDispatcher` with the part of `_poll_loop` that calls it | `DispatcherProofs` |
| `Poller` | `_receive`, the marker file, SIGTERM, crashes; extends `Dispatcher` and is shown to implement it | `PollerProofs` |
| `Schedule` | the calendar of the weekly report | `WeeklyProofs` |
| `WeeklyReport` | the loop of the weekly report, the report, the marks; uses `Schedule` | `WeeklyProofs` |
| `Family` | what the onboarding promises about a child; abstract | |
| `Linking` | accounts, profiles, invitations, consents; shown to implement `Family` | `LinkingProofs` |
| `Desk` | what the onboarding lets through to the check, for which child; reminders; report on request | `FamiliesProofs` |
| `KnowledgeBase` | reference texts of exercises: dictionary, model, base, reviewer | `FamiliesProofs` |
| `Dialog` | the dialog with one chat: homework, questions, tutoring, what is counted | `DialogProofs` |
| `ModelCalls` | slots, retries, journal, photos at GigaChat, recognition, solver, classifier, generator | `ModelCallsProofs` |
| `Album` | one message with photos, from its pages to the review | `HomeworkProofs` |
| `Grading` | the verdict on a page of mathematics | `HomeworkProofs` |
| `Spelling` | a copied exercise: from the words of the OCR to the questions | |
| `Tutoring` | one dialogue of the tutor: hints, guard, end | `HomeworkProofs` |

`MCDispatcher`, `MCPoller`, `MCLinking`, `MCDialog`, `MCModelCalls`, `MCAlbum`, `MCSpelling`,
`MCGrading`, `MCKnowledgeBase` and `MCDesk` give the constants their values. Three of the MC modules
put machines that share no state side by side, `part` saying which of them a behaviour is of (the
others rest in one state): `MCWeekly` (`WeeklyReport` with two processes, with one over several weeks,
and the calendar alone), `MCFamilies` (`Desk`, `KnowledgeBase`) and `MCHomework` (`Album`, `Spelling`,
`Grading`, `Tutoring`). `WeeklyProofs`, `FamiliesProofs` and `HomeworkProofs` prove their theorems of
these joined machines.

Operators whose comment begins with "Mutant of" are bugs the code could have had. Nothing refers
to them; each is what a definition is replaced by to show that a property notices (`mutants` in
`PROJECT.json`).

### Dispatcher

A *ticket* is an accepted update, numbered in the order of `submit`. `queue[k]` and `worker[k]`
are the `_Chat` of key `k`; `worker` tells where its task stands: created and not begun, in line
for a slot, handed a slot, processing, or cancelled before its first step ("dead"). `waiters` and
`free` are the semaphore as CPython 3.12 implements it: a released slot goes to the first in line,
and a newcomer does not overtake it (`Locked`, `Release`, `Resume`). Between two awaits nothing
else runs, so an action is a stretch of code between two awaits: what a task does after its
handler ended (release the slot, `_settle(1)`, look at the queue, take the slot again, stand in
line, or leave `_chats`) is one step, split by its three outcomes (`FinishLast`, `FinishAndWait`,
`FinishAndContinue`). Where a stretch is several steps of the model - the updates of a batch
(`Submit`), the chats that `abort()` cleans up (`CleanUp`) - `Yielded` keeps everything else out.

`abort()` is `Abort` (up to its wait), `AbortWaited`, `CleanUp` per chat and `AbortDone`; it runs
after a drain that timed out and again from the finally clause of `_poll_loop`. A cancelled
handler may let the cancellation through, swallow it and end, or outlast the grace period
(`stuck`). `Restart` is a crash, or the start after an end, at any moment.

### Poller

`step` is where `_receive` stands. MAX keeps updates in order; the marker is the number of the
last one received, and every answer carries one. `SaveMarker` splits the two ways an `OSError`
can leave the file; `Reboot` reads the file, which is empty if the process died inside
`write_text()`. Without a marker MAX may answer from anywhere: the code does not say, its comment
says the whole backlog. Steps of the tasks are `Dispatch`.

### Schedule and WeeklyReport

Hours of Moscow time are counted from a Monday 00:00: Moscow has a fixed offset, and every
boundary of the calendar is a full hour, so nothing is decided inside one.

`pc[p]` is where the loop of process `p` stands: asleep ("idle"), choosing the parents, between
two parents ("next"), setting the mark ("claim"), collecting, sending, or recording the outcome
("finish"). Each await on the database or on MAX separates two steps. The reads of one report
(`_collect`, `_nothing_to_send`) are one step: the weeks they count are over when they are
counted, and only one of the reads is of something that can still change (the consent). A failure
is possible at every database call, in both forms: nothing happened, or it happened and the answer
was lost. The clock jumps between the moments of the instance at any time. A family has one child;
the parent may switch the report, give, renew and revoke the consent at any time (a revocation is
done by hand in the database, and a renewal counts from its own time, as in `renew_consent`).

### Linking and Family

`role`, `profile`, `consents`, `invite` and `attempts` are the tables of `db/repo.py`; `pending` is
the part of `OnboardingState` that remembers an opened link, with the policy its screen named (the
code does not keep that; it serves a property only). `at[h]` is where the processing of an update
stands. The router holds a lock per user, so `Enter` lets one update of a user in at a time, and
updates of different users interleave. Where a user's own updates alone can change what is read, the
read and what follows are one step; a read of something others can change, and every statement that
may wait for a row lock, starts a step of its own. A row is locked while some transaction that took
the lock stands before its commit (`InviteLocked`, `ProfileLocked`); a transaction's writes all come
in the step of its commit, which nobody can tell apart because the rows are locked. `Fail` ends an
update anywhere and with it its transaction: database, Redis and MAX may fail, and a crash fails all
updates. `Deploy` ends all of them and raises `POLICY_VERSION`.

The branches that refuse what the tables rule out are not actions: "invalid" in a transaction for a
student without a profile, the second check of the role, an insert that hits a unique index.
`AccountsMatchProfiles`, `ConsentsMatchFamilies` and `ReadsStand` say that they are out of reach. A
wrong code is `NoInvite`; wording, grades and the choice among subjects are left out, so that choosing
a subject is choosing one that is available.

`Family` knows nothing of accounts, links or transactions: a child appears, gets parent and consent in
one step, gets a newer consent, or makes way for another before it had one. A child of `Family` is a
profile with the version of its consent in force.

### Dialog

`chat` is `ChatState` as Redis has it, `rows` the table `homeworks`. The dispatcher gives the updates
of a chat to one handler at a time (`ChatOrder`), so handlers do not interleave; a handler is its one
write of the state, an action (`OnPhoto`, `OnTextbook`, `PressAnswer`, `TypeAnswer`, `PressTutor`,
`Reply`, `Chatter`), and the calls it makes afterwards, `todo`, each a step that may fail: `Send` and
`SendQuestion` to MAX, `AddHomework`, `WriteHomeworkId`, `ResolveError` and `TellParent` of the
notifier. `BreaksOff` loses the rest of a handler, the notifier's part with it; `NotifierFails` is a
failure `_guard` catches; `Forget` is a state that expired or that a new version cannot read. What
fails before the write of the state changes nothing and is left out.

A task is what the dialog can tell of it: `sure`, the strength of the findings nobody is asked about
(for mathematics, of the verdict); `words`, the candidates the child is asked about; `asks`, the
questions its verdict leads to (a sign by buttons; a line, an answer or the result of an item by
text); `seed`, whether the word to be found occurs in the opening phrase of a tutoring. What an answer
does to its task (`Answered`) is a free choice within what `regrade` can return: a recalculation may
find anything, but keeps an error in another line. Buttons stay on the `screen` for ever, as they do in
a chat. A question of a homework is known by its token, the pair of the homework and its place.

`_skip_clarification` is not an action: it is for a question about a word whose finding is gone, and
`QuestionsLive` says that there is none. The strength `feedback` is produced by no subject module. A
handler that changes nothing and sends no button (a greeting, a button whose question is over, "nothing
to tutor") is a stutter.

### Desk

One family: a parent, the children of grades 1-4 whose homework the parent sends, and a student with
an account. `saved` is `OnboardingState` in Redis with its time to live, which every write sets anew
(`Set`, `Ttl`). An update of a user is one action, but a photo of the student, which reads the consent
(`StudentPhoto`), writes the reminder and goes on later (`StudentCheck`), so that the parent can renew
in between. Each write followed by a message has the failure of the message as an outcome of its own:
`AskWhose`, `AnswerWhose`, `Remind`. `Restart` is a deploy or a crash. `route` says what became of the
last update, `checked` with which child and policy a photo went on. How consents come about is in
`Linking`; here they are given and renewed.

### KnowledgeBase

`check[c]` is where one check stands with its text: reading the page, its answers, asking the
dictionary and the model, saving the page, saving the answer. Every query may fail and the bot may die
between two of them. `review` is the console of the reviewer: the queue is read once, the answers
change afterwards. A gap is the set of dictionary words its pattern allows, those the model may name
when there are too many to try, and the word that belongs there; a reply of the model is any sequence
of choices in `Replies`.

### ModelCalls

A step (recognition, solution, classifier, generator) makes calls one after another; `at[s]` is where
its call stands: waiting for a slot, on its way, pausing before a repetition, uploading or removing a
photo. `line` and `free` are the semaphore of a provider; every wait for it starts an action. `Cancel`
hits a step at any await, and `async with` and `finally` do what they do. `log` counts the entries of
the journal, `step[s].counted` what the step reports. What a model answers is its class only: a page
that was read with confidence, with doubts, without tasks, or an answer that fails the schema.

`Replies` are the ways a request to the gateway can end, `Repeatable` those `_post` sends again: a lost or
refused connection, 429, 5xx, but no timeout. `MayCharge` is what nobody on this side can know: whether the
model had run by then. It may have for a failure of the gateway and a connection lost after the request
was sent, both of which are repeated; a 429 is a refusal before anything ran. The journal has one entry for a
call, so such requests are an expense it does not show: `call[s].charged`, a history, collects them, and
`HiddenChargesBounded` says which they can be and how many. That there are none, as the comment at
`llm/gateway_client.py:132-133` wishes for timeouts, is more than the code does (`model_charge` below).

### Album, Grading, Spelling, Tutoring

These are mostly pure code, and the state machines around them produce its inputs.

`Album`: one message is one step, which may hold any photos of `MCPages`, any of them failing. Tasks
are the exercise they are about (which nothing in the code sees; the properties are about it), and what
the recognition makes of it. `chat` is the part of `ChatState` an album reads and writes. The loops of
`merge_textbook` and `split_pages` are recursive functions over the pages; `attach_conditions`, which goes
through the pairs from the best on and keeps what was given away, is the set of the pairs that no better
given pair excludes (`Chosen`), the sorted loop without its variables. What was checked says which
condition of the textbook it was checked against (`printed`), and whether its lines have a `flaw`, one that
disagrees or that may have been misread, which is what `describable` asks before the model may explain
the work. An answer on a page of its own can be joined
rightly only when the unfinished task is in the album and its page was taken for a notebook:
`NoForeignAnswer` is about those albums (`EndsFollowStarts`), in whatever order their photos come.

`Grading`: the page grows line by line, and every page is judged (`grade`, `grade_by_lines`,
`check_student_steps`, `review_reading`). A line is what the parser makes of it: its values, or the
root of its equation. `WellFormed` is the shape the parser gives it: two values at least in an equality,
no letter of an item before a line that starts with "=". `exercise` is what the child was solving in a
line, which the code does not see. A line that starts with "=" is true or false only where it goes on from
something that has a value (`GoesOn`); after a text or an equation it says nothing and is not counted.
The first pass looks for columns (`ColumnResults`): `Shaped` is what stands like one, `IsColumn` what
`_match_column` takes for one, and the value worked out above a result stands on its left in the
recalculation (`CheckLine`). Equations form chains by their variable and the numbers they share. `Works`
says which lines may stand on the page, how many of them, under which condition and answers.

Nothing in the code tells a column from answers to several exercises one below the other. "5, -3, 3"
without a rule is no column for it, since the numbers are short (`validator.py:178-180`), and
`NoFalseError` is about such pages. But `ColumnsStandOut`, its premise, leaves out pages on which more than
that looks like a column and is none: answers of two digits ("15, -13, 13"), for which the code tells a
child without errors of one (`grading_answers` below), or answers above a rule; an answer just above a
column that begins with its sign; a number just below a short column without a rule. What is not left out: a column of the child, long or
short, with its rule or without; products of long numbers; and what begins inside a clear column, which the
code passes by because it looks from the top.

`Spelling`: the child copies an exercise word by word, with slips, words left out or added, hyphens and
dashes at the ends of lines, a heading, marks on the margin and another work below; the OCR tears rows.
After each word the page is checked as it stands: `ReadingOrder`, `NotebookTask`, `BodyWords`,
`MergeHyphenation`, `Paired`, `Align`, `CheckWords`, `Questions`.

`Tutoring`: `TutorReply` is one message of the child in a dialogue that goes on; the model's two
attempts are free, the guard (`Violates`) decides what the child sees. `early` collects what was said
before the last level, a history.

## Runs

| Run | Instance | Shows |
|---|---|---|
| `dispatcher` | 2 chats and updates without a chat, 2 slots, backlog limit 3, batches of up to 2, 4 updates, fair | counters, slots, order per chat, queues with readers, wake-ups; `abort()` is final; every update ends, polling resumes, a stop ends |
| `poller` | 1 chat and updates without a chat, 3 updates at MAX, fair | at most once, nothing received is skipped, refinement of `Dispatcher!Spec`, SIGTERM is honoured wherever the loop stands |
| `weekly` | "processes": 2 processes, 1 slot; "weeks": 1 process, 3 slots with a night and an end of the window; "calendar": two weeks hour by hour under 12 schedules; fair | at most one report, truthful marks, none left behind, each homework in one report, one empty report, a missed week stays missed, whoever is due gets a turn, the calendar agrees with its definitions |
| `linking` | 3 users, 2 profiles, 2 invitations, 2 updates at once, 2 policies, 1 attempt | accounts, families and consents agree; an invitation is redeemed once; refinement of `Family` |
| `families` | "desk": 2 young children and a student, 2 photos, 2 policies, 5 moments; "base": 2 concurrent checks of 4 texts, 3 in all, and the reviewer | nothing without a consent, no photo checked twice, reminders and reports apart; verified references are proved, one answer to a text |
| `dialog` | 2 homeworks out of 4, 2 errors resolved, 1 failure | answers reach their questions, errors are offered and counted once, "all resolved" stays true |
| `model_calls` | 2 steps of any kinds, 1 slot per provider, 1 retry, 2 orientations, fair | slots and expense agree, hidden charges stay within the retries, no photo is forgotten, the best page wins, every step ends |
| `homework` | albums of 3 photos out of 13, 2 homeworks; pages of 3 lines out of 22, with 4 conditions, 4 answers, 2 references, and columns of 4 lines out of 10; copies of 3 exercises with 2 slips; dialogues of 5 messages | conditions and answers of the right homework, praise for right work, verdicts that stand, exact questions, a tutor that does not tell |
| `linking_policy`, `dialog_offer`, `dialog_seed`, `kb_correction` | small instances | findings, see below |

Bounds. *Dispatcher*: two chats and a third key are enough for one chat to overtake, block or outlive
another; two slots for one to be handed over while another is free; a limit of three with batches of two
for the backlog to pass its limit, for `_capacity` to be cleared and set again (`resume_at` is 1), and
for a chat to end an update with work left while another stands in line, which takes four updates
(`FinishAndWait`). `NamedInOrder` gives the chats their names in the order in which they come; TLC's
symmetry does not go with liveness. That the backlog stays below limit plus batch is proved, not left
to four updates. *Poller*: three updates give a batch, a second one and a rest to be repeated after a
restart. *Weekly*: the moments are one of each kind (before the slot, the slot, the night, the window,
after the window, two later slots). `InOneSlot` and `OverWeeks` bound the parts: two processes up to the
first night with two failures or changes, so that a crash hits a process that recovers from another; one
process over all moments with two homeworks, failures or changes. *Linking*: two transactions at once
are enough for every race on one invitation or profile, a third user for two parents to meet one child
while each has an invitation of their own. `OneAtATime` constrains the run: a third user, a newer policy,
codes and expired invitations are each combined with everything else but not with one another.
*Families*: the periods keep the order the code gives them (`OwnerTtl` < `StateTtl` < `RemindEvery` <
`RenewalTtl`) and the clock passes each of them; two checks meet at one text, and a third begins after
both. *Dialog*: the homeworks are picked for their questions: an error beside a task asked about twice,
a sign and a line, three words in doubt (more than `MAX_QUESTIONS`) one of them in a task with an error,
a word of the opening phrase. Two homeworks give buttons of the one pressed in the other. *Model calls*:
two orientations and two attempts stand for the four and two of the code, one slot for a line to form;
steps with different providers share nothing and are not combined (`OneProvider`), and of two choices of
jobs that differ by a swap of the steps one is checked (`NoSwap`). *Homework*: three
photos are two pages and one between them, three lines a chain with a line on either side, four lines a
column with its rule and its result, two slips one that hides another. `MaxUpdates`, `MaxArrived`, `MaxChecks`, `MaxResolved`, `MaxFailures`,
`MaxHomework`, `MaxChanges`, `MaxNow`, `MaxSent`, `MaxPhotos`, `MaxLines`, `MaxSlips`, `MaxEnds` and
`MaxReplies` end the runs; nothing else bounds the counters.

`ErrorsOffered` and `AskedIsHead` are about dialogs without a failure so far, which the other properties
are not; `ErrorsOffered` excepts questions that were given up, and `dialog_offer` shows why it has to.
`OneHomework` is about chats with homework in one subject; see `album_homework` below.

Deadlock is checked for the dispatcher, the poll loop, the dialog and the model calls. The other
machines stop in earnest: the clock has reached the last moment, profiles and invitations are used up,
the page is full. Symmetry is used for users, profiles, invitations and updates in `linking` and for
children, photos and checks in `families`, runs without liveness.

Fairness. Tasks and the loops are scheduled by asyncio, so each has weak fairness. A handler ends
because every request it makes has a time limit (config.py, `llm/*`), a poll because of the HTTP
timeout, a report because of `SEND_TIMEOUT_S`, a call to a model by the timeout of its client, a pause
because it is finite; slots are granted in the order of the line. A process that died starts again
(`restart: unless-stopped`). In `weekly` only the processes that run have fairness (`MFairSpec`). For
SIGTERM less is enough: that the event loop runs something as long as anything is ready (`Turn`),
whichever. Nothing is assumed of users, of the clock, or of failures, which are bounded in number.
`linking`, `families`, `dialog` and `homework` state no fairness: their properties are about what may
not happen.

## Findings

1. `linking_policy`: the policy says that the mark of a consent carries "the version of this policy"
   (docs/legal/privacy-policy-v1.md:12), and the screen names it; the version recorded is the one of
   the process that handles the button (`bot/onboarding/linking.py:141`), so a screen from before a
   deploy gives a consent to a text the parent was not shown. A version in the button's payload
   would close the gap. `ob:consent` and `ob:pconsent` have it as well.
2. `dialog_offer`: "the result of the task with the button comes after the last question about it"
   (`bot/clarify.py:250-251`), but when that question is given up after two answers nobody could read,
   no result and no button follow (`bot/handlers.py:799-801`): an error found by an earlier answer is
   named ("item a) has an error") and not offered, until the child happens to write something.
3. `dialog_seed`: a tutoring opens with the bot's own "help me find the mistake", which is checked like
   an answer (`bot/handlers.py:898`). If the word to be found is in it, the session is stored as
   resolved, and the next message of the child, whatever it says, counts as the error fixed.
4. `kb_correction`: the answer a reviewer types in (`kb_cli.py:52`) is stored as `{"text": ...}`, which
   `DerivedText` cannot read (`subjects/russian/module.py:154`): the text is derived anew at every check
   and the correction is never used, against what the console promises (`kb_cli.py:3-4`).

Six more configurations show something narrower and are not among the runs; TLC ends each with
a counterexample:

- `album_homework.cfg` (`MCAlbum`, `ConditionsOfOneHomework`): "the conditions of a textbook live for one
  homework" (`bot/pages.py:21`), but `textbook_tasks` and `conditions` share one `textbook_saved_at`
  (`bot/handlers.py:417`): a page of a mathematics textbook without a notebook renews the time of the
  Russian exercises of the same chat, and the next Russian homework is checked against them.
- `desk_whose.cfg` (`MCDesk`, `NoSilence`): "whose homework?" is asked once; when that message was lost
  (`bot/handlers.py:228` tells the parent to try again), the photo sent again waits for the answer to a
  question nobody saw (`bot/onboarding/parent.py:123-130`), until `OWNER_TTL_S` is over.
- `model_charge.cfg` (`MCModelCalls`, `NoHiddenCharge`): a request whose connection was lost after it was
  sent is sent again (`llm/gateway_client.py:135-138`), and so is one answered with 5xx; the provider may
  have charged for it, and the journal shows the last one only. A timeout is not repeated for this very reason
  (`:132-133`); deploy.md:762 says that the others are.
- `grading_answers.cfg` (`MCGrading`, `NoFalseColumn`): the answers 15, -13 and 13, each to an exercise of
  its own, are read as the column 15 - 13 = 13, and the verdict is "wrong". The guard against it
  (`pipeline/validator.py:178-180`) is for numbers of one digit.
- `model_photo.cfg` (`MCModelCalls`, `PhotoLeftOnlyByFault`): a photo stays in GigaChat's storage
  when the removal gets no slot within `CLEANUP_TIMEOUT_S`, without a fault of anybody
  (`llm/gigachat_client.py:80-83`).
- `spelling_number.cfg` (`MCSpelling`, `OwnExercise`): a number handed out to an unnumbered exercise
  agrees by chance with the number a child wrote (`subjects/russian/module.py:178-179`).

And what no property speaks of: a crash between the two halves of `Path.write_text` in `_save_marker`
brings updates twice (the comment at `bot/runner.py:444-445` accepts it, and `AtMostOnce` excepts it by
`torn`); a weekly report may still go out to a parent who switched it off while the pass was under way;
a task whose solution was shown can be opened again by an old button and then counts as fixed, with a
second "all errors resolved"; a photo that failed hides a second unfinished task from
`_attach_continuations`; conditions of a language with numbers handed out by the program overwrite each
other from page to page. `Spelling` is exact within limits its inputs keep: the first word
of a text written twice is not asked about; a misspelt word carried over whose part is itself a word of
the exercise, and a dash after a word that is not in the reference, are joined wrongly; another work
below that repeats words of the text, and an exercise contained in another, can be paired wrongly.

## Proofs

Theorems are in the `*Proofs` modules and checked by TLAPS for every value of the constants: any
number of chats, users, steps, failures, restarts. They rest on the assumptions the modules name and on
nothing else. `PROJECT.json` lists the theorems with the properties of the runs they state. TLC found
each inductive invariant to hold on a run before it was proved.

**Dispatcher** (`LimitsAssumption`: the chats are a finite set without `NoChat`; limits are
positive). None of the checked invariants is inductive alone: that the counters are exact needs
each ticket to be in exactly one queue or in one task's hands; that no wake-up is lost needs to
know who stands in line and who was handed a slot; the order of a chat needs its queue to be
sorted and to lie after the update in processing. `IInv` is their conjunction with these facts:
what each state of a task says about its queue, its current ticket and the line; the sum of free
slots, slots handed over and slots in use; which phase allows what. `StopInv` adds what holds after
`abort()`: no task but those on their way out. `Invariance` proves both for every step, one lemma
per action; `QueuesAreSound`, `ChatOrderHolds`, `AbortStands` and the theorems about their parts follow,
the bound on the backlog among them. The counts are cardinalities; the lemmas on finite sets come from
`FiniteSetTheorems`.

**Poller** (also `FeedAssumption`: every update at MAX has a chat or none). `PIInv` joins `Aligned`
(the batch the dispatcher sees is the one `_receive` takes apart; a request is under way only with
capacity), `Covered` (what the marker moved past is in `inbox` or submitted) and `Ordered` (as long
as every marker got to the disk, what was submitted is sorted and lies before what the file will
make MAX send next, and before what is still in `inbox`). At-most-once delivery speaks of submitted
updates only; it is `Ordered` that carries it over a crash, where the file becomes the marker.
`PollerImplements` proves that the poll loop implements `Dispatcher`'s `Spec`: it polls only with
capacity, submits a batch before it yields, and starts anew only as a new process; so all theorems
about `Spec` hold of the loop with its file, signals and restarts.

**Weekly report and calendar** (`WeeklyAssumption`: hours are natural numbers, the schedule is one that
`__post_init__` accepts; `CalendarAssumption`). The calendar is arithmetic: an hour is a week, a weekday and
an hour of the day in one way, hours of the same phase are whole weeks apart, so the last slot is the
latest and the weeks of the slots cover every hour once (`ScheduleIsExact`, `CalendarIsExact`). `WInv`
adds to the safety properties that a process knows its slot and parent (`Placed`), that whoever handles
a report holds its mark on `sending` (`Claimed`), that the parent has no report of the slot before the
request (`Unsent`), and that an outcome is true before it becomes the mark (`Known`). `Claimed` is what
makes two processes exclude each other: a claim succeeds only on a mark that is not there. `WContent`
is about what a report says: a slot in someone's hands is over (`Past`), so what was counted for it stays
what was written in its week (`Gathered`), and so does what was sent (`Reported`), for a homework of this
moment falls in no week that is over. `WMissed` says that a slot noted as missed is closed and that nobody is at work on it any
more; the theorem `MissedWeeksStayMissed` is about one process and says so, for a second one may have
passed its check of the window before.

**Linking** (`LinkingAssumption`: the three nulls are no users, profiles, invitations; policies
are numbered from 1). `LInv` has the parts `Rows` and `Roles` (accounts and profiles agree), `Links` (who made
an invitation has the role it takes), `Versions` (no consent is to a policy still to come), `OneUpdate`
and `OneTransaction` (the locks exclude), and `Stands`: what an update has read still holds when it
writes. `Stands` is what the writes of the transactions rest on, and it is kept because whoever could
break it would need a lock that is held. From it, accounts agree with profiles and consents with
families in every interleaving (`FamiliesMatch`), an invitation is answered once by whom it was shown to
(`LinksOnce`), and each step is one of `Family` or none (`OnboardingIsFamily`): the refinement maps a
profile to its child, and the proof is a case for each action.

**Model calls** (steps are finite, slots positive, retries natural, rounds positive). The balance of
slots and the expense are not inductive. `CInv` adds where a step may stand in a line (`Lines`: once, in
the line of its own provider, while it waits), how a step's two meters relate while a structured answer
is half way (`Books`), and where a photo may be while its question is asked (`PhotosOnTheWay`). Each request
sent again is a try of its own, and the tries are counted; that bounds the charges nobody sees. From it:
`CallsBalance`, `PhotosAreRemoved`, `BestPageWins`. That slots are conserved is a count of the steps whose
request is on its way, over every grant, error, repetition and cancellation.

**Families** (`DeskAssumption`, `BaseAssumption`: the replies are sequences of choices of words). The
desk and the base have an invariant each. `DInv`: `Entered` (a consent comes after the subject),
`Reading` (a photo under way has a consent behind it), `OnceOnly` (a photo is in one place: read, waiting
or checked), `Marked` (a reminder is remembered as long as it keeps the next one away, which is where
`RemindEvery <= RenewalTtl` is used), `Paused`. `BInv`: `Queue`, `Rows` (a verified answer has its proof,
and one the check can read fits its exercise) and `Checked` (what a check is about to keep or has given is
proved too). A step of one machine leaves the other alone. The theorems are about any children,
photos, periods, texts, gaps and replies, and any number of checks at once.

**Dialog** (`DialogAssumption`: what a check finds nobody has answered yet; a task with questions is in
doubt; the bounds are natural). A handler writes the state and then makes its calls one by one, any
of which may fail, and the properties are about quiet moments; `DInv` says what holds while calls are on
their way. `Phased`: the phase says which fields are set. `Queued`: questions are of this check's open
words and tasks, no two the same. `Buttoned`: a button, on the screen or on its way, that carries the
token of a question belongs to that question; this is what makes buttons of any age harmless. `Ordered` and
`Expected`: which calls may wait behind which, and what each finds when its turn comes. `Heard` and
`Offered`: the first question, and a button for each error left or a question about its task, are on the
screen or on their way. `Worked`, `Counted`, `Kept`: the numbers in the chat are those of the history; the
row counts them, less the call that waits; a check without a row has the call that will number it.
`Told`: nothing is left in a check whose end the parent was told. `QuestionsFitTheScreen`,
`NoErrorGoesUnmentioned`, `ErrorsAreCountedOnce` and the action property `ButtonsAnswerTheirQuestions`
follow, for homeworks of any size, any number of checks and failures. The lemmas on the plan of questions
(`PlanFacts`: the questions are of different places) go through `FlattenSeq`, whose recursive function is
handled by a least counterexample (`FlattenFacts`, from `WFMin`).

**Tutoring and Album** (`AlbumAssumption`: pages are of a subject with a sequence of tasks, each with
finitely many numbers, there is one of each subject; the limits are natural). Of the tutor: a level rises, an action of the child is counted
once, or the dialogue ends with each message, so the number of replies is a sum that the state shows
(`Counts`), and `Tutored` follows it through the model's two attempts and the guard; `TutorIsSafe` and
`TutorEnds` say that what was told and praised stays within what the child had earned, and that the
dialogue ends. Of the album: `OneHomework` is not inductive, for what is checked comes from what the chat
remembers. `AlbumInv` says that in a chat with homework in one subject all the conditions that are still
fresh are of the homework of now, and that they were saved no later than its last album came
(`OnlyMath`, `OnlyWords`); a homework ends only when that is `TEXTBOOK_TTL_S` ago, and then they are not
fresh. The other half is what the algorithms on pages do with the homework a condition is of: inserted
in order, merged by number or text, joined from another page or chosen as the best pair, it comes out as
it went in (`InsertIn`, `MergeIn`, `TextbookIn`, `NotebookIn`, `AttachedIn`, `CheckedIn`, `ExercisesIn`), for
any number of pages and tasks. Two of them are recursive functions; that they have values at all is
proved by a least counterexample (`RecursionExists`, from `LeastNumber`). `OneHomeworkAtATime` and
`ShownIsRight` follow.

`AnswersStayInPlace` is about where things go, for any pages. `Chosen` asks of a pair what was given to the
better ones, so it means something only if every pair has better ones to come to an end: better is a strict
order that compares any two pairs (`BetterIsOrder`; it needs that scores are numbers, `ScoreIsNat`), the
pairs are finitely many, and giving is settled in the order of how many are better (`GivenExists`). Then of
two given pairs one came first and the other was not excluded by it: they are of two tasks, and of one
condition only when a number matches (`ChosenApart`). For the answers, the album has one page with an answer
alone and one unfinished task when they are joined, and the task it belongs to is unfinished, so it is that
one (`AttachedOwned`). What is under review changes only with an album of its own (`InPlace`).

**Grading** (`GradingAssumption`: lines are as the parser makes them, `WellFormed`, and the items of a
condition have letters and values). `VerdictsAreRight` says of every page of any lines that a child
without errors is told of none (under `ColumnsStandOut`), that an error visible in an equality or in a
clear column makes the work wrong, and that "correct" was proved. Nothing has to be invented to be inductive in the state, for a page is judged as it
stands; the inductions are over its lines. What reaches a line from those above it is the value it goes on
from and the open chain of an equation: the first is the value of the line above if that line has one
(`TailIs`), the second has its equation above it and the root of its last line (`ChainBegan`,
`ChainRoot`). So a step that keeps the root is never an error and a new exercise never closes in an old
chain (`AlgebraIs`, `ChainVariable`), an equality is judged by its own values (`ArithmeticIs`), and what the printed condition
then makes of it is the same verdict, a doubt, or "right" where the values agree with what was printed
(`ArithmeticJudged`, which needs that equality of fractions is transitive, `SameThrough`). The three grades
add the first wrong line and the last line with "=" (`ByLinesIs`, `LongIs`, `AnswerIs`, `MatchesIs`).
For columns, the search from the top takes what does not overlap a column it took before (`Picked`). What
stands in the way of a clear column begins inside another clear one above it, so there is no first clear
column that is missed (`ClearIsTaken`); and what begins inside a column that was taken is passed by, so under
`ColumnsStandOut` all that is taken is the child's (`TakenAreOwn`). A result is judged by the child's own
numbers (`ColumnIs`, `ColumnJudged`).

Only model-checked:

- everything under fairness, which is beyond the prover: `EveryUpdateEnds`, `LoopMovesOn`, `StopHonoured`,
  `DueGetsTurn`, `EveryStepEnds`;
- `EveryWordCounts` and `QuestionsAreExact`: they turn on which path the table of edit costs gives for
  every pair of texts, an induction over both of them at once whose lemmas are not written;
- that the four findings are reachable.

## Not modelled

The handlers are opaque to the dispatcher, and a report is its slot and its homeworks. Wording,
keyboards, settings, the event log, the switches of the onboarding and its status screens are left out
throughout, and so are: the photo store (`photos.py` saves and purges by age, nothing reads back), the
OCR service and its client (what it returns is the input of `Spelling`), `cost.py`, `loadtest.py`,
`cli.py` and `bench/` (tools around the bot), `db/memory.py` (a copy of the contract for tests), the
plumbing of the database and the encryption of ids, parsing of arithmetic and of the models'
answers, the content of prompts. Deleting a mark by hand, which docs/deploy.md describes as giving up
the protection, is not modelled.

## The plan

Done: all modules above with their runs; the theorems about `Dispatcher`, `Poller`, `WeeklyReport`,
`Schedule`, `Linking`, `ModelCalls`, `Desk`, `KnowledgeBase`, `Dialog`, `Tutoring`, `Album` and `Grading`. Left:
lemmas about the table of edit costs in `Spelling`.
