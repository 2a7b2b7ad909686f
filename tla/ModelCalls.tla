----------------------------- MODULE ModelCalls -----------------------------
(***************************************************************************)
(* How the steps of a check call the models: the journal around every      *)
(* call (llm/journal.py), the choice of the provider (llm/router.py), the  *)
(* gateway's client with its retries (llm/gateway_client.py), the GigaChat *)
(* client that uploads a photo and removes it (llm/gigachat_client.py),    *)
(* structured answers with one repeat (llm/base.py), and the steps that    *)
(* use them: recognition of a page in several orientations                 *)
(* (pipeline/vision.py), the reference solution with its cache             *)
(* (pipeline/solver.py), the error classifier and the generator.           *)
(*                                                                         *)
(* Steps of several checks run concurrently and compete for the slots of a *)
(* provider.  A step may be cancelled at any await (the bot stops).        *)
(***************************************************************************)
EXTENDS Naturals, Sequences, FiniteSets, SequencesExt, TLC

CONSTANTS
    Steps,          \* concurrent steps of checks
    Jobs,           \* what a step may be: records [kind |-> , via |-> ]
    Slots,          \* Slots[q]: concurrent requests provider q allows
    MaxRetries,     \* llm_gateway_max_retries
    Rounds          \* Rounds[k]: orientations or attempts a step of kind k has

Providers == {"gateway", "gigachat"}
Kinds == {"recognize", "solve", "classify", "generate"}

ASSUME StepsAssumption == IsFiniteSet(Steps)
ASSUME SlotsAssumption == Slots \in [Providers -> Nat \ {0}]
ASSUME RetriesAssumption == MaxRetries \in Nat
ASSUME RoundsAssumption == Rounds \in [Kinds -> Nat \ {0}]
ASSUME JobsAssumption == Jobs \subseteq [kind : Kinds, via : Providers]

VARIABLES
    job,     \* job[s]: kind and provider of step s
    at,      \* at[s]: where its current call is
    call,    \* call[s]: the call's own variables, see NoCall
    step,    \* step[s]: the step's own variables, see NewStep
    free,    \* free[q]: value of the semaphore of provider q
    line,    \* line[q]: steps waiting for that semaphore, in order
    photo,   \* photo[s]: a photo of step s is in GigaChat's storage and is to be removed
    left,    \* left[s]: a photo stayed there because its removal got no slot in time
    log,     \* log[s]: llm_call entries about step s
    cache    \* the solver's file for the task all steps solve: "none", "broken", "checked"

vars == <<job, at, call, step, free, line, photo, left, log, cache>>

Waiting == {"queued", "upload queued", "delete queued"}
Flying  == {"sent", "uploading", "deleting"}
Takeoff == [w \in Waiting |-> CASE w = "queued" -> "sent"
                                 [] w = "upload queued" -> "uploading"
                                 [] w = "delete queued" -> "deleting"]

\* tries made before; the requests of the call that were sent again although the provider may have
\* charged for them, a history variable: their try and what came of it; and what the call will end
\* with once its photo is removed
NoCall == [tries |-> 0, charged |-> {}, outcome |-> "none"]
\* stage: "look" asks for a transcript of the photo, "ask" and "again" for a structured answer;
\* half: answers the unfinished structured call already has; counted: answers the step counts;
\* read: pages read so far, a history variable
NewStep(k) == [stage |-> IF k = "recognize" THEN "look" ELSE "ask", round |-> 1, half |-> 0,
               counted |-> 0, read |-> {}, best |-> "none", result |-> "none"]

Init ==
    /\ job \in [Steps -> Jobs]
    /\ at = [s \in Steps |-> "idle"]
    /\ call = [s \in Steps |-> NoCall]
    /\ step = [s \in Steps |-> NewStep(job[s].kind)]
    /\ free = Slots
    /\ line = [q \in Providers |-> <<>>]
    /\ photo = [s \in Steps |-> FALSE]
    /\ left = [s \in Steps |-> FALSE]
    /\ log = [s \in Steps |-> 0]
    /\ cache \in {"none", "broken"}

Via(s) == job[s].via
Over(s) == at[s] = "over"
\* analyze_image of GigaChatClient: the photo is a file of its own
Uploads(s, st) == st.stage = "look" /\ Via(s) = "gigachat"

----------------------------------------------------------------------------
(* What follows a call: its journal entry, then the step that made it.     *)

\* JournaledLLM._journaled: one entry for a call, whichever way it ends
Entry(s) == log' = [log EXCEPT ![s] = @ + 1]

\* Step s makes its next call: it waits for a slot of the provider first.
Continue(s, st) ==
    /\ step' = [step EXCEPT ![s] = st]
    /\ call' = [call EXCEPT ![s] = NoCall]
    /\ at' = [at EXCEPT ![s] = IF Uploads(s, st) THEN "upload queued" ELSE "queued"]
    /\ line' = [line EXCEPT ![Via(s)] = Append(RemoveFirst(@, s), s)]

Finish(s, st, result) ==
    /\ step' = [step EXCEPT ![s] = [st EXCEPT !.result = result]]
    /\ call' = [call EXCEPT ![s] = NoCall]
    /\ at' = [at EXCEPT ![s] = "over"]
    /\ line' = [line EXCEPT ![Via(s)] = RemoveFirst(@, s)]

\* The next orientation of the photo, or the best candidate after the last one; the next attempt
\* of the generator, or nothing
NextRound(s, st) ==
    IF st.round < Rounds[job[s].kind]
    THEN Continue(s, [st EXCEPT !.round = @ + 1, !.stage = NewStep(job[s].kind).stage])
    ELSE Finish(s, st, st.best)

\* A page as the model structured it: every task read with confidence, some not, no tasks.
Pages == {"sure", "unsure", "empty"}
\* Mutant of Better: the last page wins.
BetterLast(page, best) == TRUE

\* recognize_page_two_stage: is this page the new best candidate?
Better(page, best) == best = "none" \/ (page = "unsure" /\ best = "empty")

\* What a model can answer at each stage; "invalid" fails the schema.
Contents(s) ==
    CASE step[s].stage = "look" -> {"math", "noise"}
      [] step[s].stage # "look" /\ job[s].kind = "recognize" -> Pages \cup {"invalid"}
      [] OTHER -> {"good", "poor", "invalid"}

\* Mutant of InvalidUsage: the answers that failed the schema are not counted.
InvalidUsageLost(st) == 0

\* chat_structured with an invalid answer: the usage the caller gets with StructuredOutputError
InvalidUsage(st) == st.half + 1

\* The answer c reaches the step.  chat_structured repeats an invalid one once; then the step
\* decides.
Take(s, c, st) ==
    LET k == job[s].kind
        whole == [st EXCEPT !.counted = @ + st.half + 1, !.half = 0]
        failed == [st EXCEPT !.counted = @ + InvalidUsage(st), !.half = 0]
    IN CASE c = "math" -> Continue(s, [whole EXCEPT !.stage = "ask"])
         [] c = "noise" -> NextRound(s, whole)
         [] c = "invalid" /\ st.stage = "ask" ->
              Continue(s, [st EXCEPT !.stage = "again", !.half = 1])
         [] c = "invalid" /\ st.stage = "again" ->
              IF k \in {"recognize", "generate"} THEN NextRound(s, failed)
              ELSE Finish(s, failed, "invalid")
         [] c \in {"unsure", "empty"} ->
              NextRound(s, [whole EXCEPT !.best = IF Better(c, @) THEN c ELSE @,
                                         !.read = @ \cup {c}])
         [] c = "poor" /\ k = "generate" -> NextRound(s, whole)
         [] OTHER -> Finish(s, whole, c)

\* solve_task keeps a reference solution that passed the validator's check of its steps.
Keeps(s, c) == job[s].kind = "solve" /\ c = "good"
\* The file a step leaves behind, as later steps will find it
Cached(s, c) == IF Keeps(s, c) THEN (IF c = "good" THEN "checked" ELSE "unchecked") ELSE cache

\* The call ends with an answer, an error or a cancellation.
Settle(s, outcome) ==
    /\ Entry(s)
    /\ IF outcome \in {"error", "cancelled"}
       THEN Finish(s, step[s], outcome) /\ UNCHANGED cache
       ELSE Take(s, outcome, step[s]) /\ cache' = Cached(s, outcome)

----------------------------------------------------------------------------
(* A step starts; slots are granted.                                       *)

\* A checked solution in the cache needs no model; a broken file is removed and counts as none.
Begin(s) ==
    /\ at[s] = "idle"
    /\ LET solves == job[s].kind = "solve"
       IN \/ /\ solves /\ cache \in {"checked", "unchecked"}
             /\ Finish(s, step[s], IF cache = "checked" THEN "good" ELSE "poor")
             /\ UNCHANGED cache
          \/ /\ ~(solves /\ cache \in {"checked", "unchecked"})
             /\ Continue(s, step[s])
             /\ cache' = IF solves /\ cache = "broken" THEN "none" ELSE cache
    /\ UNCHANGED <<job, free, photo, left, log>>

\* asyncio.Semaphore wakes its waiters in the order they came.
Grant(q) ==
    /\ line[q] # <<>> /\ free[q] > 0
    /\ LET s == Head(line[q])
       IN at' = [at EXCEPT ![s] = Takeoff[@]]
    /\ free' = [free EXCEPT ![q] = @ - 1]
    /\ line' = [line EXCEPT ![q] = Tail(@)]
    /\ UNCHANGED <<job, call, step, photo, left, log, cache>>

Release(s) == free' = [free EXCEPT ![Via(s)] = @ + 1]

----------------------------------------------------------------------------
(* The gateway: GatewayClient._post and _call.                             *)

\* What may come of a request: a 200 with an answer or without one; a refusal (HTTP 4xx); a
\* timeout while the request or its answer was on its way; HTTP 429; HTTP 5xx; a connection lost
\* after the request was sent (ReadError, WriteError, RemoteProtocolError); no connection at all.
Replies == {"answer", "garbage", "refused", "late", "busy", "failed", "lost", "no link"}

\* May the provider have run the model, and charged for it, before it came to that?
MayCharge(reply) == reply \in {"answer", "garbage", "late", "failed", "lost"}

\* Mutant of Repeatable: a request that timed out is sent again.
RepeatableLate(reply) == reply \in {"busy", "failed", "lost", "no link", "late"}

\* RETRY_STATUSES, and every error of the connection except the two timeouts
Repeatable(reply) == reply \in {"busy", "failed", "lost", "no link"}

\* Mutant of Retried: the last try is not told from the others.
RetriedForever(s, reply) == Repeatable(reply)

Retried(s, reply) == Repeatable(reply) /\ call[s].tries < MaxRetries

\* The request sent again joins those the journal will not show.
Unjournaled(s, reply) ==
    {c \in {[try |-> call[s].tries, reply |-> reply]} : MayCharge(reply)}

GatewayReplies(s) ==
    /\ at[s] = "sent" /\ Via(s) = "gateway"
    /\ \E reply \in Replies :
         \/ /\ Retried(s, reply)
            /\ at' = [at EXCEPT ![s] = "pausing"]
            /\ call' = [call EXCEPT ![s].charged = @ \cup Unjournaled(s, reply)]
            /\ UNCHANGED <<step, line, log, cache>>
         \/ /\ reply = "answer"
            /\ \E c \in Contents(s) : Settle(s, c)
         \/ ~Retried(s, reply) /\ reply # "answer" /\ Settle(s, "error")
    /\ Release(s)
    /\ UNCHANGED <<job, photo, left>>

\* The pause between two tries is over: the call waits for a slot again.
Wake(s) ==
    /\ at[s] = "pausing"
    /\ at' = [at EXCEPT ![s] = "queued"]
    /\ call' = [call EXCEPT ![s].tries = IF @ < MaxRetries THEN @ + 1 ELSE @]
    /\ line' = [line EXCEPT ![Via(s)] = Append(@, s)]
    /\ UNCHANGED <<job, step, free, photo, left, log, cache>>

----------------------------------------------------------------------------
(* GigaChat: GigaChatClient.chat and analyze_image.                        *)

\* aupload_file: with the photo stored, the question about it waits for a slot of its own.
Uploaded(s) ==
    /\ at[s] = "uploading"
    /\ \/ /\ at' = [at EXCEPT ![s] = "queued"]
          /\ photo' = [photo EXCEPT ![s] = TRUE]
          /\ line' = [line EXCEPT !["gigachat"] = Append(@, s)]
          /\ UNCHANGED <<call, step, log, cache>>
       \/ Settle(s, "error") /\ UNCHANGED photo
    /\ Release(s)
    /\ UNCHANGED <<job, left>>

\* Mutant of Removes: without the finally, an error leaves the photo.
RemovesAnswered(s, outcome) == photo[s] /\ outcome \notin {"error", "cancelled"}

\* Is the photo removed after the question about it ended so?
Removes(s, outcome) == photo[s]

\* The question is over: a stored photo is removed first, whatever the outcome.
AfterQuestion(s, outcome) ==
    \/ /\ Removes(s, outcome)
       /\ at' = [at EXCEPT ![s] = "delete queued"]
       /\ call' = [call EXCEPT ![s].outcome = outcome]
       /\ line' = [line EXCEPT ![Via(s)] = Append(RemoveFirst(@, s), s)]
       /\ UNCHANGED <<step, log, cache>>
    \/ ~Removes(s, outcome) /\ Settle(s, outcome)

GigaChatReplies(s) ==
    /\ at[s] = "sent" /\ Via(s) = "gigachat"
    /\ \/ \E c \in Contents(s) : AfterQuestion(s, c)
       \/ AfterQuestion(s, "error")
    /\ Release(s)
    /\ UNCHANGED <<job, photo, left>>

\* The removal is over, and the call ends with the outcome it had.
Cleaned(s, outcome) ==
    /\ photo' = [photo EXCEPT ![s] = FALSE]
    /\ Settle(s, outcome)
    /\ UNCHANGED job

\* GigaChat removed the photo, refused, or did not answer within CLEANUP_TIMEOUT_S.
Deleted(s) ==
    /\ at[s] = "deleting"
    /\ Cleaned(s, call[s].outcome)
    /\ Release(s)
    /\ UNCHANGED left

\* CLEANUP_TIMEOUT_S runs out while others hold every slot.
CleanupTimesOut(s) ==
    /\ at[s] = "delete queued" /\ free[Via(s)] = 0
    /\ Cleaned(s, call[s].outcome)
    /\ left' = [left EXCEPT ![s] = TRUE]
    /\ UNCHANGED free

----------------------------------------------------------------------------
(* The bot stops, or a check is given up: CancelledError at any await.     *)

\* Mutant of SlotAfterCancel: a slot taken by hand and not given back on a cancellation.
SlotLost(s) == UNCHANGED free

\* `async with` gives the slot back
SlotAfterCancel(s) == IF at[s] \in Flying THEN Release(s) ELSE UNCHANGED free

Cancel(s) ==
    /\ at[s] \notin {"idle", "over"}
    /\ CASE at[s] \in {"queued", "sent", "pausing"} ->
              /\ AfterQuestion(s, "cancelled")
              /\ UNCHANGED <<job, photo, left>>
         [] OTHER -> Cleaned(s, "cancelled") /\ UNCHANGED left
    /\ SlotAfterCancel(s)

----------------------------------------------------------------------------
Done == (\A s \in Steps : Over(s)) /\ UNCHANGED vars

Next == \/ \E s \in Steps : \/ Begin(s) \/ GatewayReplies(s) \/ Wake(s)
                            \/ Uploaded(s) \/ GigaChatReplies(s) \/ Deleted(s)
                            \/ CleanupTimesOut(s) \/ Cancel(s)
        \/ \E q \in Providers : Grant(q)
        \/ Done

\* The event loop starts what is scheduled and hands out free slots; every request ends, with an
\* answer or by its timeout (timeout of both clients), and every pause is finite.
Fairness ==
    /\ \A s \in Steps : /\ WF_vars(Begin(s)) /\ WF_vars(Wake(s))
                        /\ WF_vars(GatewayReplies(s)) /\ WF_vars(GigaChatReplies(s))
                        /\ WF_vars(Uploaded(s))
                        /\ WF_vars(Deleted(s))
    /\ \A q \in Providers : WF_vars(Grant(q))

Spec == Init /\ [][Next]_vars
FairSpec == Spec /\ Fairness

----------------------------------------------------------------------------
(* Properties.                                                             *)

TypeOK ==
    /\ job \in [Steps -> Jobs]
    /\ at \in [Steps -> {"idle", "pausing", "over"} \cup Waiting \cup Flying]
    /\ free \in [Providers -> Nat]
    /\ \A q \in Providers : line[q] \in Seq(Steps)
    /\ photo \in [Steps -> BOOLEAN]
    /\ cache \in {"none", "broken", "checked", "unchecked"}

\* A call has one journal entry, for its last request.  Requests before it may have been charged
\* for behind the journal's back, but each of them is a try of its own that was cut off or failed
\* at the gateway, and they are no more than the retries allowed: a request that timed out, that
\* was answered, or that was the last one is never sent again (GatewayClient._post).
HiddenChargesBounded ==
    \A s \in Steps : \A c, d \in call[s].charged :
       /\ c.reply \in {"lost", "failed"}
       /\ c.try < MaxRetries
       /\ c.try = d.try => c = d

\* A call is charged for once, as the comment on timeouts has it.  The code does not promise it:
\* model_charge.cfg shows a lost connection.
NoHiddenCharge == \A s \in Steps : call[s].charged = {}

\* What a recognition or a solution reports as its expense is every answer the journal shows for
\* it, the ones that failed the schema and the orientations given up included.
ExpenseIsWhole ==
    \A s \in Steps :
       (Over(s) /\ step[s].result \notin {"error", "cancelled"})
         => step[s].counted = log[s]

\* The slots taken are the requests on their way: no error, cancellation or timed-out removal
\* loses a slot or gives one back twice, and a pause between tries holds none.
SlotsAreRequests ==
    \A q \in Providers :
       free[q] + Cardinality({s \in Steps : Via(s) = q /\ at[s] \in Flying}) = Slots[q]

\* A photo uploaded to GigaChat stays there only while the question about it is asked and the
\* removal is tried: analyze_image never ends with the photo forgotten.
NoPhotoForgotten ==
    \A s \in Steps :
       photo[s] => step[s].stage = "look" /\ at[s] \in {"queued", "sent", "delete queued", "deleting"}

\* A recognition gives the page of the first orientation read with confidence, else one with
\* tasks before one without; a solution kept in the cache is one the validator checked.
BestOfWhatWasRead ==
    /\ cache # "unchecked"
    /\ \A s \in Steps : step[s].result = "empty" => "unsure" \notin step[s].read

\* Every step comes to its end: retries are finite and a line for a slot is served.
EveryStepEnds == \A s \in Steps : <>Over(s)

\* The photo of a child's notebook stays in GigaChat's storage only when GigaChat refuses the
\* removal or does not answer it, or when the bot is stopped.
PhotoLeftOnlyByFault ==
    \A s \in Steps : left[s] => step[s].result = "cancelled"

\* The books on the calls to a model balance: a slot is held for each request on its way and for
\* nothing else, what may be paid without an entry of the journal is bounded by the retries, and
\* what a step reports as its expense is all the journal shows for it (_call, _post, journal.py).
CallsAccounted == TypeOK /\ HiddenChargesBounded /\ ExpenseIsWhole /\ SlotsAreRequests
=============================================================================
