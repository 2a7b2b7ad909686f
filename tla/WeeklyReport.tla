---------------------------- MODULE WeeklyReport ----------------------------
(***************************************************************************)
(* The weekly report to parents: the loop of bot/report_schedule.py, what  *)
(* bot/report.py makes of one report, and the marks of db/reports.py that  *)
(* keep a report from going out twice - over crashes, restarts, a second   *)
(* process of the bot, and a clock that moves on meanwhile.                *)
(*                                                                         *)
(* A process is one run of the bot; what it keeps in memory is `pc`,       *)
(* `rest`, `flight`, `stop` and `missed`.  The clock, the parents and the  *)
(* tables are shared.  A parent stands for a family with one child.        *)
(***************************************************************************)
EXTENDS Schedule, Sequences, FiniteSets

CONSTANTS
    Procs,       (* processes of the bot that may run                      *)
    Parents,     (* accounts of parents, in the order of due_parents()     *)
    Moments,     (* hours at which something happens                       *)
    Sched,       (* the schedule, see Schedule                             *)
    NoSlot,      (* no slot yet                                            *)
    MaxFailures, (* bound on crashes, stops and failures of the database  *)
    MaxHomework, (* bound on the homeworks checked                         *)
    MaxChanges   (* bound on what parents change in their settings         *)

ASSUME WeeklyAssumption ==
    /\ Parents \subseteq Nat \ {0}
    /\ Moments \subseteq Nat \ {0}
    /\ Sched \in Schedules
    /\ NoSlot \notin Int

VARIABLES
    now,       (* the clock                                                *)
    enabled,   (* parent_settings.weekly_report                            *)
    consent,   (* when the active consent was given, 0: there is none      *)
    homework,  (* hours of the homeworks of the child                      *)
    mark,      (* weekly_reports.status of a parent and a slot             *)
    pc,        (* where a process stands                                   *)
    rest,      (* parents left in the loop of _deliver                     *)
    flight,    (* the report a process is about                            *)
    stop,      (* the event set by SIGTERM                                 *)
    missed,    (* _missed_checked                                          *)
    inbox,     (* history: the reports that reached a parent               *)
    cut,       (* history: marks whose report or outcome a failure cut off *)
    alarms,    (* history: slots of weekly_slot_missed                     *)
    budget     (* failures, homeworks and changes so far, see the bounds   *)

family == <<enabled, consent, homework>>
loop   == <<pc, rest, flight, stop, missed>>
vars   == <<now, family, mark, loop, inbox, cut, alarms, budget>>

Slots  == {LastSlot(m, Sched) : m \in Moments}

Outcomes == {"sent", "failed", "skipped"}
Handling == {"collect", "send", "finish"}

Reports == [slot : Slots, content : SUBSET Moments]

\* What a process holds between two reports: the slot of its pass.
Ready(slot) == [who |-> 0, slot |-> slot, content |-> {}, outcome |-> "none"]

TypeOK ==
    /\ now \in Moments
    /\ enabled \in [Parents -> BOOLEAN]
    /\ consent \in [Parents -> Moments \union {0}]
    /\ homework \in [Parents -> SUBSET Moments]
    /\ mark \in [Parents -> [Slots -> Outcomes \union {"none", "sending"}]]
    /\ pc \in [Procs -> {"down", "idle", "select", "next", "claim"} \union Handling]
    /\ rest \in [Procs -> SUBSET Parents]
    /\ flight \in [Procs -> [who : Parents \union {0}, slot : Slots \union {NoSlot},
                             content : SUBSET Moments,
                             outcome : Outcomes \union {"none"}]]
    /\ stop \in [Procs -> BOOLEAN]
    /\ missed \in [Procs -> Slots \union {NoSlot}]
    /\ inbox \in [Parents -> Seq(Reports)]
    /\ cut \subseteq Parents \X Slots
    /\ alarms \subseteq Slots
    /\ budget \in [failures : Nat, homeworks : Nat, changes : Nat]

-----------------------------------------------------------------------------
\* No process is up yet, and every parent has given the consent.
Init ==
    /\ now \in Moments /\ \A m \in Moments : now <= m
    /\ enabled = [q \in Parents |-> TRUE]
    /\ consent = [q \in Parents |-> now]
    /\ homework = [q \in Parents |-> {}]
    /\ mark = [q \in Parents |-> [s \in Slots |-> "none"]]
    /\ pc = [p \in Procs |-> "down"]
    /\ rest = [p \in Procs |-> {}]
    /\ flight = [p \in Procs |-> Ready(NoSlot)]
    /\ stop = [p \in Procs |-> FALSE]
    /\ missed = [p \in Procs |-> NoSlot]
    /\ inbox = [q \in Parents |-> <<>>]
    /\ cut = {}
    /\ alarms = {}
    /\ budget = [failures |-> 0, homeworks |-> 0, changes |-> 0]

-----------------------------------------------------------------------------
(***************************************************************************)
(* The world around the loop.                                              *)
(***************************************************************************)
Advance ==
    /\ \E m \in Moments : now < m /\ now' = m
    /\ UNCHANGED <<family, mark, loop, inbox, cut, alarms, budget>>

\* A homework of the child is checked (add_homework): its row has the hour of its insert.
AddHomework(q) ==
    /\ budget.homeworks < MaxHomework
    /\ consent[q] # 0
    /\ now \notin homework[q]
    /\ homework' = [homework EXCEPT ![q] = @ \union {now}]
    /\ budget' = [budget EXCEPT !.homeworks = @ + 1]
    /\ UNCHANGED <<now, enabled, consent, mark, loop, inbox, cut, alarms>>

\* switch_weekly(): the button under a report.
SwitchWeekly(q) ==
    /\ budget.changes < MaxChanges
    /\ enabled' = [enabled EXCEPT ![q] = ~@]
    /\ budget' = [budget EXCEPT !.changes = @ + 1]
    /\ UNCHANGED <<now, consent, homework, mark, loop, inbox, cut, alarms>>

\* A consent is given or renewed (it counts from now), or revoked.
ChangeConsent(q) ==
    /\ budget.changes < MaxChanges
    /\ \E given \in {0, now} : consent' = [consent EXCEPT ![q] = given]
    /\ budget' = [budget EXCEPT !.changes = @ + 1]
    /\ UNCHANGED <<now, enabled, homework, mark, loop, inbox, cut, alarms>>

-----------------------------------------------------------------------------
(***************************************************************************)
(* One pass of the loop.                                                   *)
(***************************************************************************)
Goto(p, label) == pc' = [pc EXCEPT ![p] = label]

\* On to the next parent of the pass; out of the pass; out of the process.
GoOn(p) ==
    /\ flight' = [flight EXCEPT ![p] = Ready(@.slot)]
    /\ Goto(p, "next")

Leave(p, label) ==
    /\ rest' = [rest EXCEPT ![p] = {}]
    /\ flight' = [flight EXCEPT ![p] = Ready(NoSlot)]
    /\ Goto(p, label)

\* due_parents(slot).
Due(slot) == {q \in Parents : /\ enabled[q]
                              /\ consent[q] # 0
                              /\ consent[q] < slot
                              /\ mark[q][slot] = "none"}

\* _deliver: the slot is fixed for the whole pass.
Tick(p) ==
    /\ pc[p] = "idle"
    /\ ~stop[p]
    /\ LET slot == LastSlot(now, Sched)
       IN  /\ Deliverable(now, slot, Sched)
           /\ flight' = [flight EXCEPT ![p] = Ready(slot)]
    /\ Goto(p, "select")
    /\ UNCHANGED <<now, family, mark, rest, stop, missed, inbox, cut, alarms, budget>>

\* Mutant of NoteMissed (see Dispatcher on mutants): a night inside the window counts.
NoteMissedAtNight(p) ==
    /\ pc[p] = "idle"
    /\ ~stop[p]
    /\ LET slot == LastSlot(now, Sched)
       IN  /\ ~Deliverable(now, slot, Sched)
           /\ missed[p] # slot
           /\ missed' = [missed EXCEPT ![p] = slot]
           /\ alarms' = IF Due(slot) # {} THEN alarms \union {slot} ELSE alarms
    /\ UNCHANGED <<now, family, mark, pc, rest, flight, stop, inbox, cut, budget>>

\* _note_missed: the window is over, and some did not get their report.
NoteMissed(p) ==
    /\ pc[p] = "idle"
    /\ ~stop[p]
    /\ LET slot == LastSlot(now, Sched)
       IN  /\ now >= slot + Sched.catchup
           /\ missed[p] # slot
           /\ missed' = [missed EXCEPT ![p] = slot]
           /\ alarms' = IF Due(slot) # {} THEN alarms \union {slot} ELSE alarms
    /\ UNCHANGED <<now, family, mark, pc, rest, flight, stop, inbox, cut, budget>>

\* The parents of this pass are chosen once.
Select(p) ==
    /\ pc[p] = "select"
    /\ rest' = [rest EXCEPT ![p] = Due(flight[p].slot)]
    /\ Goto(p, "next")
    /\ UNCHANGED <<now, family, mark, flight, stop, missed, inbox, cut, alarms, budget>>

\* Before each parent: a stop, the end of the window or the night end the pass.
GoesOn(p) == ~stop[p] /\ Deliverable(now, flight[p].slot, Sched)

EndOfPass(p) ==
    /\ pc[p] = "next"
    /\ rest[p] = {} \/ ~GoesOn(p)
    /\ Leave(p, "idle")
    /\ UNCHANGED <<now, family, mark, stop, missed, inbox, cut, alarms, budget>>

NextParent(p) ==
    /\ pc[p] = "next"
    /\ GoesOn(p)
    /\ \E q \in rest[p] :
         /\ \A r \in rest[p] : q <= r
         /\ rest' = [rest EXCEPT ![p] = @ \ {q}]
         /\ flight' = [flight EXCEPT ![p].who = q]
    /\ Goto(p, "claim")
    /\ UNCHANGED <<now, family, mark, stop, missed, inbox, cut, alarms, budget>>

-----------------------------------------------------------------------------
(***************************************************************************)
(* One report: the mark, the report, the outcome.                          *)
(***************************************************************************)
Fail    == budget.failures < MaxFailures
Failed  == budget' = [budget EXCEPT !.failures = @ + 1]
Pair(p) == <<flight[p].who, flight[p].slot>>
MarkOf(p)          == mark[flight[p].who][flight[p].slot]
SetMark(p, status) == mark' = [mark EXCEPT ![flight[p].who][flight[p].slot] = status]

\* The mark goes first, and only the process that sets it goes on: INSERT ... ON CONFLICT
\* DO NOTHING.
ClaimSet(p) ==
    /\ SetMark(p, "sending")
    /\ Goto(p, "collect")
    /\ UNCHANGED flight

\* Mutant of Claim: the mark is set whether it is there or not.
ClaimAnyway(p) ==
    /\ pc[p] = "claim"
    /\ ClaimSet(p)
    /\ UNCHANGED <<now, family, rest, stop, missed, inbox, cut, alarms, budget>>

Claim(p) ==
    /\ pc[p] = "claim"
    /\ \/ MarkOf(p) = "none" /\ ClaimSet(p)
       \/ MarkOf(p) # "none" /\ GoOn(p) /\ UNCHANGED mark
    /\ UNCHANGED <<now, family, rest, stop, missed, inbox, cut, alarms, budget>>

\* Mutant of SelectFails: the exception ends the loop, not the pass.
SelectFailsForGood(p) ==
    /\ Fail
    /\ pc[p] = "select"
    /\ Leave(p, "crashed")
    /\ Failed
    /\ UNCHANGED <<now, family, mark, stop, missed, inbox, cut, alarms>>

\* A failure of the database ends the pass (_tick_failed): in choosing the parents, ...
SelectFails(p) ==
    /\ Fail
    /\ pc[p] = "select"
    /\ Leave(p, "idle")
    /\ Failed
    /\ UNCHANGED <<now, family, mark, stop, missed, inbox, cut, alarms>>

\* ... in setting the mark, which may be there all the same, ...
ClaimFails(p) ==
    /\ Fail
    /\ pc[p] = "claim"
    /\ \/ UNCHANGED <<mark, cut>>
       \/ MarkOf(p) = "none" /\ SetMark(p, "sending") /\ cut' = cut \union {Pair(p)}
    /\ Leave(p, "idle")
    /\ Failed
    /\ UNCHANGED <<now, family, stop, missed, inbox, alarms>>

Ends(p, outcome) ==
    /\ flight' = [flight EXCEPT ![p].outcome = outcome]
    /\ Goto(p, "finish")

\* The homeworks of the week, and of the week before it.
Week1(q, slot) == {h \in homework[q] : InPeriod(h, slot)}
Week0(q, slot) == {h \in homework[q] : InPreviousPeriod(h, slot)}

\* Mutant of Collect: an empty week is always worth a message.
CollectAlways(p) ==
    /\ pc[p] = "collect"
    /\ LET q == flight[p].who  slot == flight[p].slot
       IN  \/ /\ consent[q] # 0
              /\ flight' = [flight EXCEPT ![p].content = Week1(q, slot)]
              /\ Goto(p, "send")
           \/ consent[q] = 0 /\ Ends(p, "skipped")
    /\ UNCHANGED <<now, family, mark, rest, stop, missed, inbox, cut, alarms, budget>>

\* Mutant of Collect: the stop is looked at here instead of before the mark.
CollectUnlessStopped(p) ==
    /\ pc[p] = "collect"
    /\ \/ /\ ~stop[p]
          /\ flight' = [flight EXCEPT ![p].content = Week1(flight[p].who, flight[p].slot)]
          /\ Goto(p, "send")
       \/ stop[p] /\ GoOn(p)
    /\ UNCHANGED <<now, family, mark, rest, stop, missed, inbox, cut, alarms, budget>>

\* send_weekly: the consent is looked at again, and an empty week is worth a message only
\* after a week that was not.  The reads are of weeks that are over, or one row.
Collect(p) ==
    /\ pc[p] = "collect"
    /\ LET q    == flight[p].who
           slot == flight[p].slot
           talk == consent[q] # 0 /\ (Week1(q, slot) # {} \/ Week0(q, slot) # {})
       IN  \/ /\ talk
              /\ flight' = [flight EXCEPT ![p].content = Week1(q, slot)]
              /\ Goto(p, "send")
           \/ ~talk /\ Ends(p, "skipped")
    /\ UNCHANGED <<now, family, mark, rest, stop, missed, inbox, cut, alarms, budget>>

\* The database or the time limit of a report fails it before it is sent.
CollectFails(p) ==
    /\ pc[p] = "collect"
    /\ Ends(p, "failed")
    /\ UNCHANGED <<now, family, mark, rest, stop, missed, inbox, cut, alarms, budget>>

\* The request to MAX: answered; or timed out or refused, which tells nothing of whether
\* the parent got the report.
Send(p) ==
    /\ pc[p] = "send"
    /\ \E outcome \in {"sent", "failed"} :
         /\ Ends(p, outcome)
         /\ \/ inbox' = [inbox EXCEPT ![flight[p].who] = Append(@,
                            [slot |-> flight[p].slot, content |-> flight[p].content])]
            \/ outcome = "failed" /\ UNCHANGED inbox
    /\ UNCHANGED <<now, family, mark, rest, stop, missed, cut, alarms, budget>>

\* Mutant of Finish: a report that failed gives its mark back.
FinishOrForget(p) ==
    /\ pc[p] = "finish"
    /\ SetMark(p, IF flight[p].outcome = "failed" THEN "none" ELSE flight[p].outcome)
    /\ GoOn(p)
    /\ UNCHANGED <<now, family, rest, stop, missed, inbox, cut, alarms, budget>>

\* finish_weekly().
Finish(p) ==
    /\ pc[p] = "finish"
    /\ SetMark(p, flight[p].outcome)
    /\ GoOn(p)
    /\ UNCHANGED <<now, family, rest, stop, missed, inbox, cut, alarms, budget>>

\* ... or in recording the outcome, which may be there all the same.
FinishFails(p) ==
    /\ Fail
    /\ pc[p] = "finish"
    /\ \/ UNCHANGED mark /\ cut' = cut \union {Pair(p)}
       \/ SetMark(p, flight[p].outcome) /\ UNCHANGED cut
    /\ Leave(p, "idle")
    /\ Failed
    /\ UNCHANGED <<now, family, stop, missed, inbox, alarms>>

-----------------------------------------------------------------------------
(***************************************************************************)
(* Start and end of a process.                                             *)
(***************************************************************************)
Start(p) ==
    /\ pc[p] = "down"
    /\ stop' = [stop EXCEPT ![p] = FALSE]
    /\ missed' = [missed EXCEPT ![p] = NoSlot]
    /\ Goto(p, "idle")
    /\ UNCHANGED <<now, family, mark, rest, flight, inbox, cut, alarms, budget>>

Sigterm(p) ==
    /\ pc[p] # "down"
    /\ ~stop[p]
    /\ budget.failures < MaxFailures
    /\ Failed
    /\ stop' = [stop EXCEPT ![p] = TRUE]
    /\ UNCHANGED <<now, family, mark, pc, rest, flight, missed, inbox, cut, alarms>>

\* The loop ends between two passes (run); the pass under way is finished first.
Exit(p) ==
    /\ pc[p] = "idle"
    /\ stop[p]
    /\ Goto(p, "down")
    /\ UNCHANGED <<now, family, mark, rest, flight, stop, missed, inbox, cut, alarms, budget>>

\* The process dies, or the supervisor cancels the loop because it did not end in time
\* after the stop (_supervise_weekly, _stop_weekly).
Die(p) ==
    /\ pc[p] # "down"
    /\ Fail \/ stop[p]
    /\ IF stop[p] THEN UNCHANGED budget ELSE Failed
    /\ cut' = IF pc[p] \in Handling THEN cut \union {Pair(p)} ELSE cut
    /\ Leave(p, "down")
    /\ UNCHANGED <<now, family, mark, stop, missed, inbox, alarms>>

-----------------------------------------------------------------------------
Family(q) == AddHomework(q) \/ SwitchWeekly(q) \/ ChangeConsent(q)

Report(p) == Claim(p) \/ Collect(p) \/ CollectFails(p) \/ Send(p) \/ Finish(p)

Pass(p) == Tick(p) \/ NoteMissed(p) \/ Select(p) \/ EndOfPass(p) \/ NextParent(p)

Trouble(p) == SelectFails(p) \/ ClaimFails(p) \/ FinishFails(p) \/ Sigterm(p) \/ Die(p)

Next ==
    \/ Advance
    \/ \E q \in Parents : Family(q)
    \/ \E p \in Procs : Pass(p) \/ Report(p) \/ Start(p) \/ Exit(p) \/ Trouble(p)

Spec == Init /\ [][Next]_vars

\* A process that is up goes on, every request having its time limit; Docker starts it
\* again (restart: unless-stopped).  The clock is not made to advance.
FairSpec ==
    /\ Spec
    /\ \A p \in Procs : WF_vars(Pass(p) \/ Report(p) \/ Start(p) \/ Exit(p))

-----------------------------------------------------------------------------
(***************************************************************************)
(* Properties.                                                             *)
(***************************************************************************)

\* A parent gets the report of a week at most once (report_schedule.py:7-9,
\* db/reports.py:8-10): whatever crashes, restarts or runs beside, and however a request
\* to MAX ends.
AtMostOneReport ==
    \A q \in Parents : \A i, j \in 1..Len(inbox[q]) :
        inbox[q][i].slot = inbox[q][j].slot => i = j

\* The marks can be trusted (the table in docs/deploy.md): a report that went out has its
\* mark, `sent` says that it did, `skipped` that it did not.
MarksTruthful ==
    \A q \in Parents, s \in Slots :
        LET got == \E i \in 1..Len(inbox[q]) : inbox[q][i].slot = s
        IN  /\ got => mark[q][s] \in {"sending", "sent", "failed"}
            /\ mark[q][s] = "sent" => got

\* `sending` is a report under way, or the trace of a failure between the mark and the
\* outcome (docs/deploy.md): no other path of the loop leaves a mark behind - not a stop,
\* not the night, not a lost race.
NoMarkAbandoned ==
    \A q \in Parents, s \in Slots :
        mark[q][s] = "sending" =>
            \/ <<q, s>> \in cut
            \/ \E p \in Procs : pc[p] \in Handling /\ Pair(p) = <<q, s>>

\* Two processes never handle the same report.
OneHandler ==
    \A p, r \in Procs :
        p # r /\ pc[p] \in Handling /\ pc[r] \in Handling => Pair(p) # Pair(r)

\* Every homework is in exactly one report (report_schedule.py:4-5): a report that went
\* out stays complete - nothing is added to its week later - and no two share a homework.
ReportsPartitionHomework ==
    \A q \in Parents : \A i \in 1..Len(inbox[q]) :
        LET report == inbox[q][i]
        IN  /\ report.content = Week1(q, report.slot)
            /\ \A j \in 1..Len(inbox[q]) :
                  j # i => inbox[q][j].content \intersect report.content = {}

\* A family that stopped using the bot gets one empty report, not one a week
\* (report.py:10-13): between two of them there was a homework.
EmptyOnce ==
    \A q \in Parents : \A i, j \in 1..Len(inbox[q]) :
        LET a == inbox[q][i]  b == inbox[q][j]
        IN  a.content = {} /\ b.content = {} /\ a.slot < b.slot =>
                \E h \in homework[q] : a.slot <= h /\ h < b.slot

\* A week that was logged as missed stays missed (report_schedule.py:215-219): the event
\* is not written while the report may still go out, and no report follows it.  With one
\* process; a second one may have passed its check before.
MissedIsFinal ==
    [][\A s \in alarms, q \in Parents : mark'[q][s] = "none" <=> mark[q][s] = "none"]_vars

\* Whoever is due while the window is open gets his turn, unless the moment passes.
DueGetsTurn ==
    \A q \in Parents, s \in Slots :
        q \in Due(s) /\ Deliverable(now, s, Sched)
            ~> ~(q \in Due(s) /\ Deliverable(now, s, Sched))

\* The marks of a report agree with what MAX was sent, and none is left without an outcome except by
\* a failure between the two.
MarksSound == TypeOK /\ MarksTruthful /\ NoMarkAbandoned
=============================================================================
