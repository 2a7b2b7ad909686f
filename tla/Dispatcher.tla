----------------------------- MODULE Dispatcher -----------------------------
(***************************************************************************)
(* UpdateDispatcher of bot/dispatch.py: updates of different chats are     *)
(* handled in parallel, the updates of one chat strictly one at a time and *)
(* in the order of arrival.                                                *)
(*                                                                         *)
(* Every chat with work has a queue and a worker task.  The tasks run on   *)
(* one asyncio loop, so an action below is everything a task does between  *)
(* two points where it really yields.  Two stretches of synchronous code   *)
(* contain a loop: submitting a batch (runner.py:234) and the cleanup at   *)
(* the end of abort().  They take one step per iteration, and no other     *)
(* task moves meanwhile (Yielded).                                         *)
(*                                                                         *)
(* An update is the number of its submit() call, its ticket; chatOf and    *)
(* status record where it came from and what became of it.                 *)
(***************************************************************************)
EXTENDS Integers, Sequences, FiniteSets

CONSTANTS
    Chats,        (* chat ids                                              *)
    NoChat,       (* None: the key of the updates without a chat           *)
    Concurrency,  (* DispatchLimits.concurrency                            *)
    QueueLimit,   (* DispatchLimits.queue_limit                            *)
    MaxBatch,     (* updates in one answer of MAX: limit=100 in max_api.py *)
    MaxUpdates    (* bound on the submit() calls explored                  *)

ASSUME LimitsAssumption ==
    /\ NoChat \notin Chats
    /\ IsFiniteSet(Chats)
    /\ Concurrency \in Nat \ {0}
    /\ QueueLimit \in Nat \ {0}
    /\ MaxBatch \in Nat \ {0}
    /\ MaxUpdates \in Nat

VARIABLES
    batch,     (* chats of the updates received and not submitted yet      *)
    chatOf,    (* chatOf[t]: chat of ticket t                              *)
    status,    (* status[t]: fate of ticket t                              *)
    queue,     (* queue[k]: deque of tickets of the chat k                 *)
    worker,    (* worker[k]: where the task of the chat k stands           *)
    current,   (* current[k]: ticket in processing, 0 when there is none   *)
    waiters,   (* tasks in line for a slot: Semaphore._waiters             *)
    free,      (* free slots: Semaphore._value                             *)
    pending,   (* _pending                                                 *)
    running,   (* _running                                                 *)
    capacity,  (* _capacity is set                                         *)
    idle,      (* _idle is set                                             *)
    stopped,   (* _stopped                                                 *)
    phase,     (* where _poll_loop stands                                  *)
    final,     (* the abort() in progress is the one of the finally clause *)
    stuck      (* some abort() gave up waiting after CANCEL_GRACE_S        *)

tickets  == <<chatOf, status>>
slots    == <<waiters, free>>
counters == <<pending, running, capacity, idle>>
control  == <<stopped, phase, final, stuck>>
vars     == <<batch, tickets, queue, worker, current, slots, counters, control>>

Keys    == Chats \union {NoChat}
Tickets == 1..MaxUpdates
Open    == {"queued", "running"}

(***************************************************************************)
(* The operators marked "Mutant" are bugs this code could have had: each   *)
(* replaces the definition it stands before, to show that a property       *)
(* notices.  Nothing else refers to them.                                  *)
(***************************************************************************)

\* With one handler at a time there is one queue for everybody.
Key(c) == IF Concurrency > 1 THEN c ELSE NoChat

\* DispatchLimits.resume_at: polling goes on once half of the backlog is gone.
ResumeAt == QueueLimit \div 2

\* Every other task may run: no synchronous stretch is under way.
Yielded == batch = <<>> /\ phase # "cleanup"

Live    == {k \in Keys : worker[k] # "none"}
Granted == {k \in Keys : worker[k] = "granted"}

TypeOK ==
    /\ batch \in Seq(Keys)
    /\ chatOf \in Seq(Keys)
    /\ Len(chatOf) <= MaxUpdates
    /\ status \in [Tickets -> {"absent", "queued", "running", "done", "dropped", "killed"}]
    /\ queue \in [Keys -> Seq(Tickets)]
    /\ worker \in [Keys -> {"none", "created", "waiting", "granted", "processing", "dead"}]
    /\ current \in [Keys -> Tickets \union {0}]
    /\ waiters \in Seq(Keys)
    /\ free \in 0..Concurrency
    /\ pending \in Nat
    /\ running \in Nat
    /\ capacity \in BOOLEAN
    /\ idle \in BOOLEAN
    /\ stopped \in BOOLEAN
    /\ phase \in {"receiving", "draining", "aborting", "cleanup", "drained", "closed"}
    /\ final \in BOOLEAN
    /\ stuck \in BOOLEAN

-----------------------------------------------------------------------------
\* __init__ of a dispatcher and the start of _poll_loop.
Init ==
    /\ batch = <<>>
    /\ queue = [k \in Keys |-> <<>>]
    /\ worker = [k \in Keys |-> "none"]
    /\ current = [k \in Keys |-> 0]
    /\ waiters = <<>>
    /\ free = Concurrency
    /\ pending = 0
    /\ running = 0
    /\ capacity = TRUE
    /\ idle = TRUE
    /\ stopped = FALSE
    /\ phase = "receiving"
    /\ final = FALSE
    /\ stuck = FALSE
    /\ chatOf = <<>>
    /\ status = [t \in Tickets |-> "absent"]

\* Mutant of Settle: the polling is never resumed.
SettleNoResume(n) ==
    /\ pending' = pending - n
    /\ idle' = (idle \/ pending - n = 0)
    /\ UNCHANGED capacity

\* _settle(n).
Settle(n) ==
    /\ pending' = pending - n
    /\ capacity' = (capacity \/ pending - n <= ResumeAt)
    /\ idle' = (idle \/ pending - n = 0)

\* Everything left in the queue of k is thrown away, apart from what `fate` says.
Drop(k, fate) ==
    status' = [t \in Tickets |->
                 IF t \in DOMAIN fate THEN fate[t]
                 ELSE IF status[t] = "queued" /\ Key(chatOf[t]) = k
                      THEN "dropped" ELSE status[t]]

-----------------------------------------------------------------------------
(***************************************************************************)
(* The poll loop, as far as the dispatcher sees it.                        *)
(***************************************************************************)

\* The loop polls only after wait_for_capacity(); nothing but submit() takes the
\* capacity away, so it is still there when the answer arrives.
Receive(cs) ==
    /\ Yielded
    /\ phase = "receiving"
    /\ capacity
    /\ Len(cs) <= MaxBatch
    /\ Len(chatOf) + Len(cs) <= MaxUpdates
    /\ batch' = cs
    /\ UNCHANGED <<tickets, queue, worker, current, slots, counters, control>>

Submit ==
    /\ batch # <<>>
    /\ ~stopped
    /\ LET t == Len(chatOf) + 1
           k == Key(Head(batch))
       IN  /\ chatOf' = Append(chatOf, Head(batch))
           /\ status' = [status EXCEPT ![t] = "queued"]
           /\ queue' = [queue EXCEPT ![k] = Append(@, t)]
           /\ worker' = [worker EXCEPT ![k] = IF @ = "none" THEN "created" ELSE @]
    /\ batch' = Tail(batch)
    /\ pending' = pending + 1
    /\ idle' = FALSE
    /\ capacity' = (capacity /\ pending + 1 < QueueLimit)
    /\ UNCHANGED <<current, slots, running, control>>

-----------------------------------------------------------------------------
(***************************************************************************)
(* The task of a chat: _run_chat.  The slots are an asyncio.Semaphore: a   *)
(* released slot is handed to the first task in line, and a newcomer does  *)
(* not overtake a task that was handed a slot and has not resumed yet.     *)
(***************************************************************************)

Locked == free = 0 \/ waiters # <<>> \/ Granted # {}

\* Mutant of StartNext: pop() for popleft().
StartNewest(k, fate) ==
    /\ queue' = [queue EXCEPT ![k] = SubSeq(@, 1, Len(@) - 1)]
    /\ current' = [current EXCEPT ![k] = queue[k][Len(queue[k])]]
    /\ status' = [t \in Tickets |->
                    IF t = queue[k][Len(queue[k])] THEN "running"
                    ELSE IF t \in DOMAIN fate THEN fate[t] ELSE status[t]]

\* popleft() with the slot in hand; `fate` says what became of the previous update.
StartNext(k, fate) ==
    /\ queue' = [queue EXCEPT ![k] = Tail(@)]
    /\ current' = [current EXCEPT ![k] = Head(queue[k])]
    /\ status' = [t \in Tickets |->
                    IF t = Head(queue[k]) THEN "running"
                    ELSE IF t \in DOMAIN fate THEN fate[t] ELSE status[t]]

NoFate == [t \in {} |-> "done"]

\* First step of a new task.
BeginChat(k) ==
    /\ Yielded
    /\ ~stopped
    /\ worker[k] = "created"
    /\ \/ /\ Locked
          /\ waiters' = Append(waiters, k)
          /\ worker' = [worker EXCEPT ![k] = "waiting"]
          /\ UNCHANGED <<free, running, queue, current, status>>
       \/ /\ ~Locked
          /\ free' = free - 1
          /\ running' = running + 1
          /\ worker' = [worker EXCEPT ![k] = "processing"]
          /\ StartNext(k, NoFate)
          /\ UNCHANGED waiters
    /\ UNCHANGED <<batch, chatOf, pending, capacity, idle, control>>

\* A task that was handed a slot resumes: it lets in as many of those behind it as
\* there are free slots, and starts its next update.
Resume(k) ==
    /\ Yielded
    /\ ~stopped
    /\ worker[k] = "granted"
    /\ LET m     == IF free < Len(waiters) THEN free ELSE Len(waiters)
           woken == {waiters[i] : i \in 1..m}
       IN  /\ free' = free - m
           /\ waiters' = SubSeq(waiters, m + 1, Len(waiters))
           /\ worker' = [j \in Keys |-> IF j = k THEN "processing"
                                        ELSE IF j \in woken THEN "granted" ELSE worker[j]]
    /\ running' = running + 1
    /\ StartNext(k, NoFate)
    /\ UNCHANGED <<batch, chatOf, pending, capacity, idle, control>>

\* Mutant of Release: the slot is handed over and counted as free, too.
ReleaseTwice(k, mine, behind) ==
    \/ /\ waiters # <<>>
       /\ waiters' = Tail(waiters) \o behind
       /\ worker' = [worker EXCEPT ![k] = mine, ![Head(waiters)] = "granted"]
       /\ free' = free + 1
    \/ /\ waiters = <<>>
       /\ waiters' = behind
       /\ worker' = [worker EXCEPT ![k] = mine]
       /\ free' = free + 1

\* Mutant of Release: nobody is told of the slot.
ReleaseSilently(k, mine, behind) ==
    /\ waiters' = waiters \o behind
    /\ worker' = [worker EXCEPT ![k] = mine]
    /\ free' = free + 1

\* Release of a slot: `mine` is where this task is once it did what it does next, and
\* `behind` is who it puts at the end of the line by then.
Release(k, mine, behind) ==
    \/ /\ waiters # <<>>
       /\ waiters' = Tail(waiters) \o behind
       /\ worker' = [worker EXCEPT ![k] = mine, ![Head(waiters)] = "granted"]
       /\ UNCHANGED free
    \/ /\ waiters = <<>>
       /\ waiters' = behind
       /\ worker' = [worker EXCEPT ![k] = mine]
       /\ free' = free + 1

\* Mutant of FinishLast: the chat goes away without a look at its queue.
FinishAnyway(k) ==
    /\ Yielded
    /\ ~stopped
    /\ worker[k] = "processing"
    /\ Release(k, "none", <<>>)
    /\ status' = [status EXCEPT ![current[k]] = "done"]
    /\ current' = [current EXCEPT ![k] = 0]
    /\ running' = running - 1
    /\ Settle(1)
    /\ UNCHANGED <<batch, chatOf, queue, control>>

\* The handler ended - normally, with an exception, or with a cancellation from
\* inside - and the queue of the chat is empty: the chat goes away.
FinishLast(k) ==
    /\ Yielded
    /\ ~stopped
    /\ worker[k] = "processing"
    /\ queue[k] = <<>>
    /\ Release(k, "none", <<>>)
    /\ status' = [status EXCEPT ![current[k]] = "done"]
    /\ current' = [current EXCEPT ![k] = 0]
    /\ running' = running - 1
    /\ Settle(1)
    /\ UNCHANGED <<batch, chatOf, queue, control>>

\* Mutant of FinishAndWait: a cancellation from inside is taken for that of abort().
FinishGivesUp(k) ==
    /\ Yielded
    /\ ~stopped
    /\ worker[k] = "processing"
    /\ queue[k] # <<>>
    /\ Release(k, "none", <<>>)
    /\ queue' = [queue EXCEPT ![k] = <<>>]
    /\ current' = [current EXCEPT ![k] = 0]
    /\ Drop(k, [t \in {current[k]} |-> "dropped"])
    /\ running' = running - 1
    /\ Settle(1 + Len(queue[k]))
    /\ UNCHANGED <<batch, chatOf, control>>

\* The same with work left while others stand in line: to the end of the line.
FinishAndWait(k) ==
    /\ Yielded
    /\ ~stopped
    /\ worker[k] = "processing"
    /\ queue[k] # <<>>
    /\ waiters # <<>> \/ Granted # {}
    /\ Release(k, "waiting", <<k>>)
    /\ status' = [status EXCEPT ![current[k]] = "done"]
    /\ current' = [current EXCEPT ![k] = 0]
    /\ running' = running - 1
    /\ Settle(1)
    /\ UNCHANGED <<batch, chatOf, queue, control>>

\* Mutant of FinishAndContinue: the loop does not look at _stopped.
FinishUnstopped(k) ==
    /\ Yielded
    /\ worker[k] = "processing"
    /\ queue[k] # <<>>
    /\ waiters = <<>>
    /\ Granted = {}
    /\ StartNext(k, [t \in {current[k]} |-> "done"])
    /\ Settle(1)
    /\ UNCHANGED <<batch, chatOf, worker, slots, running, control>>

\* The same with work left and nobody in line: the slot is taken back at once.
FinishAndContinue(k) ==
    /\ Yielded
    /\ ~stopped
    /\ worker[k] = "processing"
    /\ queue[k] # <<>>
    /\ waiters = <<>>
    /\ Granted = {}
    /\ StartNext(k, [t \in {current[k]} |-> "done"])
    /\ Settle(1)
    /\ UNCHANGED <<batch, chatOf, worker, slots, running, control>>

Finish(k) == FinishLast(k) \/ FinishAndWait(k) \/ FinishAndContinue(k)

-----------------------------------------------------------------------------
(***************************************************************************)
(* Stopping: drain(), abort() and the finally clause of _poll_loop.        *)
(***************************************************************************)

\* _receive() returned: drain() waits for _idle unless nothing is pending.
BeginDrain ==
    /\ Yielded
    /\ phase = "receiving"
    /\ phase' = IF pending = 0 THEN "drained" ELSE "draining"
    /\ UNCHANGED <<batch, tickets, queue, worker, current, slots, counters,
                   stopped, final, stuck>>

DrainDone ==
    /\ Yielded
    /\ phase = "draining"
    /\ idle
    /\ phase' = "drained"
    /\ UNCHANGED <<batch, tickets, queue, worker, current, slots, counters,
                   stopped, final, stuck>>

\* abort() up to its wait: the futures of the tasks in line are cancelled with them.
Abort(last) ==
    /\ stopped' = TRUE
    /\ final' = last
    /\ waiters' = <<>>
    /\ phase' = IF Live # {} THEN "aborting" ELSE IF last THEN "closed" ELSE "drained"
    /\ UNCHANGED <<batch, tickets, queue, worker, current, free, counters, stuck>>

DrainTimeout ==
    /\ Yielded
    /\ phase = "draining"
    /\ Abort(FALSE)

\* Ctrl+C or an exception in the runner: straight to the finally clause.
Interrupt ==
    /\ Yielded
    /\ ~final
    /\ phase \in {"receiving", "draining", "aborting"}
    /\ phase' = "drained"
    /\ UNCHANGED <<batch, tickets, queue, worker, current, slots, counters,
                   stopped, final, stuck>>

FinalAbort ==
    /\ Yielded
    /\ phase = "drained"
    /\ Abort(TRUE)

\* Cancelled before its first step: the finally clause of _run_chat never runs.
CancelUnborn(k) ==
    /\ Yielded
    /\ stopped
    /\ worker[k] = "created"
    /\ worker' = [worker EXCEPT ![k] = "dead"]
    /\ UNCHANGED <<batch, tickets, queue, current, slots, counters, control>>

\* Cancelled in line, or with a slot it has not used yet.
CancelWaiting(k) ==
    /\ Yielded
    /\ stopped
    /\ worker[k] \in {"waiting", "granted"}
    /\ free' = IF worker[k] = "granted" THEN free + 1 ELSE free
    /\ worker' = [worker EXCEPT ![k] = "none"]
    /\ queue' = [queue EXCEPT ![k] = <<>>]
    /\ Drop(k, NoFate)
    /\ Settle(Len(queue[k]))
    /\ UNCHANGED <<batch, chatOf, current, waiters, running, control>>

\* Cancelled in processing.  The handler may let the cancellation through or finish
\* all the same; either way the worker starts nothing more.
FinishStopped(k) ==
    /\ Yielded
    /\ stopped
    /\ worker[k] = "processing"
    /\ free' = free + 1
    /\ worker' = [worker EXCEPT ![k] = "none"]
    /\ queue' = [queue EXCEPT ![k] = <<>>]
    /\ current' = [current EXCEPT ![k] = 0]
    /\ \E fate \in {"done", "dropped"} : Drop(k, [t \in {current[k]} |-> fate])
    /\ running' = running - 1
    /\ Settle(1 + Len(queue[k]))
    /\ UNCHANGED <<batch, chatOf, waiters, control>>

\* Mutant of AbortWaited: abort() waits for the chats to be gone.
AbortWaitedForChats ==
    /\ Yielded
    /\ phase = "aborting"
    /\ Live = {}
    /\ phase' = "cleanup"
    /\ UNCHANGED <<batch, tickets, queue, worker, current, slots, counters,
                   stopped, final, stuck>>

\* The wait of abort() is over: every task ended, or the grace period did.  Only a
\* handler can outlast it - the other tasks end as soon as the loop runs them.
AbortWaited ==
    /\ Yielded
    /\ phase = "aborting"
    /\ \A k \in Keys : worker[k] \in {"none", "dead", "processing"}
    /\ phase' = "cleanup"
    /\ stuck' = (stuck \/ \E k \in Keys : worker[k] = "processing")
    /\ UNCHANGED <<batch, tickets, queue, worker, current, slots, counters,
                   stopped, final>>

\* Mutant of CleanUp: the tickets of the chat stay pending.
CleanUpUnsettled(k) ==
    /\ phase = "cleanup"
    /\ worker[k] = "dead"
    /\ worker' = [worker EXCEPT ![k] = "none"]
    /\ queue' = [queue EXCEPT ![k] = <<>>]
    /\ Drop(k, NoFate)
    /\ UNCHANGED <<batch, chatOf, current, slots, counters, control>>

\* One iteration of the loop over the chats whose task is done.
CleanUp(k) ==
    /\ phase = "cleanup"
    /\ worker[k] = "dead"
    /\ worker' = [worker EXCEPT ![k] = "none"]
    /\ queue' = [queue EXCEPT ![k] = <<>>]
    /\ Drop(k, NoFate)
    /\ Settle(Len(queue[k]))
    /\ UNCHANGED <<batch, chatOf, current, slots, running, control>>

AbortDone ==
    /\ phase = "cleanup"
    /\ \A k \in Keys : worker[k] # "dead"
    /\ phase' = IF final THEN "closed" ELSE "drained"
    /\ UNCHANGED <<batch, tickets, queue, worker, current, slots, counters,
                   stopped, final, stuck>>

\* The process dies at any moment, or ended, and is started again.
Restart ==
    /\ batch' = <<>>
    /\ queue' = [k \in Keys |-> <<>>]
    /\ worker' = [k \in Keys |-> "none"]
    /\ current' = [k \in Keys |-> 0]
    /\ waiters' = <<>>
    /\ free' = Concurrency
    /\ pending' = 0
    /\ running' = 0
    /\ capacity' = TRUE
    /\ idle' = TRUE
    /\ stopped' = FALSE
    /\ phase' = "receiving"
    /\ final' = FALSE
    /\ stuck' = FALSE
    /\ status' = [t \in Tickets |-> IF status[t] \in Open THEN "killed" ELSE status[t]]
    /\ UNCHANGED chatOf

-----------------------------------------------------------------------------
Worker(k) == BeginChat(k) \/ Resume(k) \/ Finish(k)
             \/ CancelUnborn(k) \/ CancelWaiting(k) \/ FinishStopped(k)

Batches == UNION {[1..n -> Keys] : n \in 1..MaxBatch}

Stopping == DrainDone \/ DrainTimeout \/ FinalAbort \/ AbortWaited \/ AbortDone
            \/ \E k \in Keys : CleanUp(k)

Next ==
    \/ \E cs \in Batches : Receive(cs)
    \/ Submit
    \/ \E k \in Keys : Worker(k)
    \/ BeginDrain
    \/ Interrupt
    \/ Stopping
    \/ Restart

Spec == Init /\ [][Next]_vars

\* The loop runs every task that can run; every handler ends, because each call it
\* makes has a deadline (config.py, llm/*); drain() and abort() have theirs.
FairSpec ==
    /\ Spec
    /\ WF_vars(Submit)
    /\ \A k \in Keys : WF_vars(Worker(k))
    /\ WF_vars(Stopping)
-----------------------------------------------------------------------------
(***************************************************************************)
(* Properties.                                                             *)
(***************************************************************************)

\* _pending and _running count exactly the updates accepted and not finished and the
\* updates in processing: drain() waits for, and reports, what is really there
\* (dispatch.py:75-76).
CountersExact ==
    /\ pending = Cardinality({t \in Tickets : status[t] \in Open})
    /\ running = Cardinality({t \in Tickets : status[t] = "running"})

\* The backlog never exceeds queue_limit plus one batch (dispatch.py:16-17), even in
\* the middle of submitting a batch.
BacklogBounded == pending + Len(batch) < QueueLimit + MaxBatch

\* Never more than `concurrency` handlers at once (dispatch.py:11), counting from the
\* updates themselves, and a slot is never lost or made up.
SlotsConserved ==
    /\ Cardinality({t \in Tickets : status[t] = "running"}) <= Concurrency
    /\ free + Cardinality({k \in Keys : worker[k] \in {"granted", "processing"}}) = Concurrency

\* One chat is handled one update at a time and in the order of arrival
\* (dispatch.py:8-9): once an update is started, every earlier one of its chat is over.
ChatOrder ==
    \A t, u \in 1..Len(chatOf) :
        /\ t < u
        /\ Key(chatOf[t]) = Key(chatOf[u])
        /\ status[u] \in {"running", "done"}
        => status[t] \notin Open

\* The events tell the truth: _idle exactly when nothing is pending; a pause of the
\* polling always has updates above resume_at whose end will lift it, and no pause
\* means room below the limit.
EventsTruthful ==
    /\ idle <=> pending = 0
    /\ ~capacity => pending > ResumeAt
    /\ capacity => pending < QueueLimit

\* No update waits in a queue that nobody reads (dispatch.py:190-191).
NoOrphanedQueue == \A k \in Keys : queue[k] # <<>> => worker[k] # "none"

\* A free slot with tasks in line is already on its way to one of them.
NoLostWakeup == waiters # <<>> /\ free > 0 => Granted # {}

\* The runner leaves nothing behind (dispatch.py:157-158): once the final abort() is
\* over, only a handler that outlasted the grace period is still there, with whatever
\* waits behind it in its chat.
NothingOutlivesRunner ==
    phase = "closed" =>
        /\ \A t \in 1..Len(chatOf) :
              status[t] \in Open => stuck /\ worker[Key(chatOf[t])] = "processing"
        /\ ~stuck => Live = {} /\ pending = 0

\* No handler is started once abort() has begun, even for the updates behind one that
\* swallowed its cancellation (dispatch.py:178).
NothingStartsAfterAbort ==
    [][\A t \in Tickets : stopped /\ status[t] = "queued" => status'[t] # "running"]_vars

\* An accepted update is given up only by abort() or with the process: a handler that
\* fails, or is cancelled from inside, costs nobody else's update (dispatch.py:204-209).
DropsOnlyOnAbort ==
    [][\A t \in Tickets : status[t] \in Open /\ status'[t] \notin Open \union {"done"}
                            => stopped \/ status'[t] = "killed"]_vars

\* Every accepted update is handled, or given up by a stop.
EveryUpdateEnds == \A t \in Tickets : status[t] \in Open ~> status[t] \notin Open

\* A pause of the polling ends.
PollingResumes == ~capacity ~> capacity

\* A stop comes to an end: drain() and both abort() calls return.
ShutdownEnds == phase # "receiving" ~> phase \in {"closed", "receiving"}

\* The dispatcher's books are right after every step, over cancellations and stops: its counters
\* count what is there, the backlog keeps its limit, no slot is lost or made up, no update waits
\* for a task that is gone and no free slot for a task that was not told (dispatch.py).
QueuesSound ==
    TypeOK /\ CountersExact /\ BacklogBounded /\ SlotsConserved /\ NoOrphanedQueue /\ NoLostWakeup

\* abort() is the end of what is accepted, and the only one there is besides the handlers: nothing
\* starts after it, nothing is given up without it (dispatch.py:156-174, 204-209).
AbortIsFinal == NothingStartsAfterAbort /\ DropsOnlyOnAbort

\* Neither a pause of the polling nor a stop lasts for ever: updates that end reopen the polling,
\* and drain() and both calls of abort() return.
LoopMovesOn == PollingResumes /\ ShutdownEnds
=============================================================================
