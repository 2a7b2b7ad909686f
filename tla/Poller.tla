------------------------------- MODULE Poller -------------------------------
(***************************************************************************)
(* The poll loop of bot/runner.py (_poll_loop, _receive) around the        *)
(* dispatcher: batches of updates from MAX, the marker in memory and in    *)
(* var/max_marker.txt, SIGTERM, crashes and restarts.                      *)
(*                                                                         *)
(* Updates are numbered as MAX stores them; the marker is the number of    *)
(* the last update received.  Every step of the dispatcher is a step of    *)
(* Dispatcher, so its properties hold here too (theorem PollerImplements   *)
(* of PollerProofs).                                                       *)
(***************************************************************************)
EXTENDS Dispatcher

CONSTANTS
    MaxArrived,  (* bound on the updates sent to the bot                   *)
    ChatAt       (* ChatAt[u]: chat of the update u                        *)

ASSUME FeedAssumption ==
    /\ MaxArrived \in Nat
    /\ ChatAt \in [1..MaxArrived -> Keys]

VARIABLES
    arrived,     (* updates MAX has got for the bot                        *)
    marker,      (* `marker` of _receive                                   *)
    disk,        (* the marker file                                        *)
    step,        (* where _receive stands                                  *)
    inbox,       (* updates of the batch not submitted yet                 *)
    origin,      (* origin[t]: the update behind ticket t                  *)
    stop,        (* the event set by SIGTERM                               *)
    base,        (* marker this process began to receive from              *)
    saveFailed,  (* history: an OSError kept a marker from being saved     *)
    torn         (* history: the process died while writing the file       *)

feed  == <<arrived, marker, disk, step, inbox, origin, stop, base, saveFailed, torn>>
pvars == <<vars, feed>>

\* No marker: the file is missing, or its text is not a number.
None == -1

Markers == {None} \union 0..MaxArrived

PTypeOK ==
    /\ arrived \in 0..MaxArrived
    /\ marker \in {None} \union 0..arrived
    /\ disk \in {None} \union 0..arrived
    /\ step \in {"wait", "poll", "pause", "saving", "submitting"}
    /\ inbox \in Seq(1..MaxArrived)
    /\ origin \in Seq(1..MaxArrived)
    /\ stop \in BOOLEAN
    /\ base \in Markers
    /\ saveFailed \in BOOLEAN
    /\ torn \in BOOLEAN

PInit ==
    /\ Init
    /\ arrived = 0
    /\ marker = None
    /\ disk = None
    /\ step = "wait"
    /\ inbox = <<>>
    /\ origin = <<>>
    /\ stop = FALSE
    /\ base = None
    /\ saveFailed = FALSE
    /\ torn = FALSE

-----------------------------------------------------------------------------
\* A user writes; MAX keeps the update.
Arrive ==
    /\ arrived < MaxArrived
    /\ arrived' = arrived + 1
    /\ UNCHANGED <<vars, marker, disk, step, inbox, origin, stop, base, saveFailed, torn>>

\* The handler of SIGTERM has the loop set the event, once it gets to run.
Sigterm ==
    /\ ~stop
    /\ step \notin {"saving", "submitting"}
    /\ stop' = TRUE
    /\ UNCHANGED <<vars, arrived, marker, disk, step, inbox, origin, base, saveFailed, torn>>

\* Mutant of WaitForCapacity: a poll whatever the backlog (see Dispatcher on mutants).
WaitForNothing ==
    /\ phase = "receiving"
    /\ step = "wait"
    /\ \/ stop /\ BeginDrain /\ UNCHANGED step
       \/ ~stop /\ step' = "poll" /\ UNCHANGED vars
    /\ UNCHANGED <<arrived, marker, disk, inbox, origin, stop, base, saveFailed, torn>>

\* Mutant of WaitForCapacity: the stop is not looked at.
WaitUnstopped ==
    /\ phase = "receiving"
    /\ step = "wait"
    /\ capacity
    /\ step' = "poll"
    /\ UNCHANGED vars
    /\ UNCHANGED <<arrived, marker, disk, inbox, origin, stop, base, saveFailed, torn>>

\* wait_for_capacity() returned, or the stop came; the stop is looked at first.
WaitForCapacity ==
    /\ phase = "receiving"
    /\ step = "wait"
    /\ \/ stop /\ BeginDrain /\ UNCHANGED step
       \/ ~stop /\ capacity /\ step' = "poll" /\ UNCHANGED vars
    /\ UNCHANGED <<arrived, marker, disk, inbox, origin, stop, base, saveFailed, torn>>

\* The stop cancels a request in flight: the marker has not moved.
PollStopped ==
    /\ phase = "receiving"
    /\ step = "poll"
    /\ stop
    /\ BeginDrain
    /\ UNCHANGED feed

PollFailed ==
    /\ phase = "receiving"
    /\ step = "poll"
    /\ step' = "pause"
    /\ UNCHANGED <<vars, arrived, marker, disk, inbox, origin, stop, base, saveFailed, torn>>

\* The pause after a failed request, cut short by the stop.
PauseOver ==
    /\ phase = "receiving"
    /\ step = "pause"
    /\ step' = "wait"
    /\ UNCHANGED <<vars, arrived, marker, disk, inbox, origin, stop, base, saveFailed, torn>>

\* Where MAX answers from.  Without a marker it is up to MAX: the whole backlog again,
\* or only what is new (runner.py:444-445).
From(m) == IF m = None THEN 0..arrived ELSE {m}

\* The marker that comes with a batch of n.
MarkerAfter(from, n) == from + n

\* An answer, also one that arrives together with the stop (runner.py:159): the oldest
\* updates after the marker, or nothing when the long poll ran out.
PollAnswer ==
    /\ phase = "receiving"
    /\ step = "poll"
    /\ \E from \in From(marker) :
         \E n \in 0..MaxBatch :
            /\ n <= arrived - from
            /\ n = 0 => from = arrived
            /\ Len(chatOf) + n <= MaxUpdates
            /\ inbox' = [i \in 1..n |-> from + i]
            /\ batch' = [i \in 1..n |-> ChatAt[from + i]]
            /\ marker' = MarkerAfter(from, n)
            /\ base' = IF base = None THEN from ELSE base
    /\ step' = "saving"
    /\ UNCHANGED <<tickets, queue, worker, current, slots, counters, control,
                   arrived, disk, origin, stop, saveFailed, torn>>

\* Mutant of SaveMarker: the marker is never written.
SaveNothing ==
    /\ step = "saving"
    /\ step' = IF batch = <<>> THEN "wait" ELSE "submitting"
    /\ UNCHANGED <<vars, arrived, marker, disk, inbox, origin, stop, base, saveFailed, torn>>

\* Mutant of SaveMarker: an OSError costs the batch.
SaveOrLose ==
    /\ step = "saving"
    /\ \/ /\ disk' = marker
          /\ step' = IF batch = <<>> THEN "wait" ELSE "submitting"
          /\ UNCHANGED <<batch, inbox, saveFailed>>
       \/ /\ disk' \in {disk, None}
          /\ step' = "wait"
          /\ batch' = <<>>
          /\ inbox' = <<>>
          /\ saveFailed' = TRUE
    /\ UNCHANGED <<tickets, queue, worker, current, slots, counters, control,
                   arrived, marker, origin, stop, base, torn>>

\* _save_marker: write_text() empties the file, then writes.  An OSError on opening
\* leaves the old text, one on writing an empty file; the batch is submitted anyway.
SaveMarker ==
    /\ step = "saving"
    /\ \/ disk' = marker /\ UNCHANGED saveFailed
       \/ disk' \in {disk, None} /\ saveFailed' = TRUE
    /\ step' = IF batch = <<>> THEN "wait" ELSE "submitting"
    /\ UNCHANGED <<vars, arrived, marker, inbox, origin, stop, base, torn>>

SubmitNext ==
    /\ step = "submitting"
    /\ Submit
    /\ origin' = Append(origin, Head(inbox))
    /\ inbox' = Tail(inbox)
    /\ step' = IF Len(batch) = 1 THEN "wait" ELSE "submitting"
    /\ UNCHANGED <<arrived, marker, disk, stop, base, saveFailed, torn>>

\* The tasks of the chats, drain() and abort(): steps of the dispatcher.
Dispatch ==
    /\ step \notin {"saving", "submitting"}
    /\ (\E k \in Keys : Worker(k)) \/ Interrupt \/ Stopping
    /\ UNCHANGED feed

\* The process dies, or ended, and starts again: the marker comes from the file, which
\* is empty if the process died between emptying and writing it.
Reboot ==
    /\ Restart
    /\ \/ disk' = disk /\ UNCHANGED torn
       \/ step = "saving" /\ disk' = None /\ torn' = TRUE
    /\ marker' = disk'
    /\ base' = disk'
    /\ step' = "wait"
    /\ inbox' = <<>>
    /\ stop' = FALSE
    /\ UNCHANGED <<arrived, origin, saveFailed>>

Receiving == WaitForCapacity \/ PollStopped \/ PollFailed \/ PauseOver
             \/ PollAnswer \/ SaveMarker \/ SubmitNext

PNext == Arrive \/ Sigterm \/ Receiving \/ Dispatch \/ Reboot

PSpec == PInit /\ [][PNext]_pvars

\* The event loop goes on as long as anything is ready: a request is answered, fails or times
\* out; a pause ends; handlers end (see FairSpec).  Which of what is ready it runs is open.
Turn == Receiving \/ (step \notin {"saving", "submitting"} /\ UNCHANGED feed
                       /\ ((\E k \in Keys : Worker(k)) \/ Stopping))

PFairSpec == PSpec /\ WF_pvars(Turn)

-----------------------------------------------------------------------------
(***************************************************************************)
(* Properties.                                                             *)
(***************************************************************************)

Received == {u \in 1..MaxArrived : base # None /\ base < u /\ u <= marker}

\* Delivery at most once, over any number of restarts (runner.py:184-189): as long as
\* every marker got to the disk, no update is handed out twice, and the chats see them
\* in the order in which MAX got them.
AtMostOnce ==
    ~saveFailed /\ ~torn =>
        \A i, j \in 1..Len(origin) : i < j => origin[i] < origin[j]

\* Nothing that was received is skipped: every update this process moved its marker
\* past has been submitted or is about to be (runner.py:229-234), also when the disk
\* refused the marker or the answer came together with the stop.
NothingSkipped ==
    \A u \in Received :
        \/ \E i \in 1..Len(inbox) : inbox[i] = u
        \/ \E i \in 1..Len(origin) : origin[i] = u

\* SIGTERM is honoured wherever the loop is - waiting for capacity, in a request, in the
\* pause after a failure: the runner closes, unless the process is gone first.
StopHonoured == stop ~> phase = "closed" \/ ~stop
=============================================================================
