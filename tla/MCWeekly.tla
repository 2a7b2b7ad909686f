------------------------------ MODULE MCWeekly ------------------------------
(***************************************************************************)
(* TLC instances of WeeklyReport and of its calendar.  `part` says which   *)
(* of three a behaviour is of: two processes around one slot, with a       *)
(* failure for each; one process over three slots, with two homeworks; or  *)
(* the calendar alone, hour by hour, under other schedules than the one    *)
(* the bot comes with.                                                     *)
(***************************************************************************)
EXTENDS WeeklyReport, TLC

CONSTANTS
    p1, p2,
    Tried,     \* schedules the calendar is looked at under
    Horizon    \* hours looked at

ASSUME CalendarAssumption == Tried \subseteq Schedules

VARIABLES
    part,
    sched,     \* the schedule of the calendar
    hour       \* and its hour

cvars == <<sched, hour>>
mvars == <<part, vars, cvars>>

MCProcs == {p1, p2}

\* Sunday 18:00, 27 hours, quiet from 22:00 to 09:00
MCSched == [weekday |-> 6, hour |-> 18, catchup |-> 27, quiet |-> <<22, 9>>]

\* Schedules on several weekdays, at the start, in the middle and at the end of the day.
MCTried == [weekday : {0, 3, 6}, hour : {0, 12, 18, 23}, catchup : {27}, quiet : {<<1, 6>>}]

At(week, day, h) == week * Week + day * Day + h

\* Sunday noon, the slot, the night after it, inside the window: a pass may be cut short; Monday noon,
\* still in the window, Tuesday noon, after it; and two more slots.
Night == At(1, 0, 2)
MCWeeks == {At(0, 6, 12), At(0, 6, 18), Night, At(1, 0, 12), At(1, 1, 12), At(1, 6, 18), At(2, 6, 18)}

-----------------------------------------------------------------------------
CalendarRests == sched = "none" /\ hour = 0

\* A machine that is not looked at stays in its initial state.
MInit ==
    /\ Init
    /\ \/ part \in {"processes", "weeks"} /\ CalendarRests
       \/ part = "calendar" /\ sched \in Tried /\ hour = 0

\* Two processes up to the night after the slot.
InOneSlot == now' <= Night /\ budget'.homeworks <= 1 /\ budget'.failures + budget'.changes <= 2
\* The first process alone, with two homeworks, failures or changes.
OverWeeks == pc'[p2] = "down" /\ stop'[p2] = stop[p2] /\ budget'.failures <= 1
            /\ budget'.failures + budget'.homeworks + budget'.changes <= 2

\* An hour passes.
TickHour == hour < Horizon /\ hour' = hour + 1 /\ UNCHANGED sched

MNext ==
    \/ part = "processes" /\ Next /\ InOneSlot /\ UNCHANGED <<part, cvars>>
    \/ part = "weeks" /\ Next /\ OverWeeks /\ UNCHANGED <<part, cvars>>
    \/ part = "calendar" /\ TickHour /\ UNCHANGED <<part, vars>>

MSpec == MInit /\ [][MNext]_mvars

\* Which processes run.
Runs(p) == part = "processes" \/ (part = "weeks" /\ p = p1)

\* FairSpec, for the processes that run.
MFairSpec ==
    /\ MSpec
    /\ \A p \in Procs : WF_mvars(/\ Runs(p)
                                 /\ Pass(p) \/ Report(p) \/ Start(p) \/ Exit(p)
                                 /\ UNCHANGED <<part, cvars>>)

-----------------------------------------------------------------------------
(* Properties, with those of WeeklyReport.                                 *)

\* The slot of a report is the latest one there was (last_slot), and every homework falls into
\* exactly one report (report_schedule.py:4-6), whatever the schedule.
EveryHourInOneReport ==
    part = "calendar" => SlotIsTheLatest(hour, sched) /\ InOneReport(hour, sched)
=============================================================================
