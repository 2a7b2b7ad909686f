------------------------------ MODULE Schedule ------------------------------
(***************************************************************************)
(* The calendar of the weekly report (bot/report_schedule.py).  Time is    *)
(* counted in hours of Moscow time from a Monday 00:00: the offset of      *)
(* Moscow is fixed, and every boundary of the schedule is a full hour.     *)
(***************************************************************************)
EXTENDS Integers

Day  == 24
Week == 7 * Day

WeekdayOf(h)  == (h \div Day) % 7
HourOf(h)     == h % Day
MidnightOf(h) == h - HourOf(h)

IsQuiet(hour, quiet) ==
    IF quiet[1] > quiet[2]
    THEN hour >= quiet[1] \/ hour < quiet[2]
    ELSE quiet[1] <= hour /\ hour < quiet[2]

\* What WeeklySchedule.__post_init__ accepts.
Schedules ==
    {s \in [weekday : 0..6, hour : 0..23, catchup : Nat \ {0}, quiet : (0..23) \X (0..23)] :
        ~IsQuiet(s.hour, s.quiet)}

\* Mutant of LastSlot: in the hour of the slot itself, the slot before it.
LastSlotBefore(now, s) ==
    LET daysBack == (WeekdayOf(now) - s.weekday) % 7
        slot     == MidnightOf(now) + s.hour - Day * daysBack
    IN  IF slot >= now THEN slot - Week ELSE slot

LastSlot(now, s) ==
    LET daysBack == (WeekdayOf(now) - s.weekday) % 7
        slot     == MidnightOf(now) + s.hour - Day * daysBack
    IN  IF slot > now THEN slot - Week ELSE slot

NextSlot(now, s) == LastSlot(now, s) + Week

Deliverable(now, slot, s) ==
    /\ slot <= now
    /\ now < slot + s.catchup
    /\ ~IsQuiet(HourOf(now), s.quiet)

\* Mutant of InPeriod: the end of the week belongs to it.
InPeriodClosed(h, slot) == slot - Week <= h /\ h <= slot

\* Whether hour h lies in the week of the report of `slot` (weekly_period).
InPeriod(h, slot) == slot - Week <= h /\ h < slot

\* previous_period.
InPreviousPeriod(h, slot) == InPeriod(h, slot - Week)

-----------------------------------------------------------------------------
(* Properties.                                                             *)

\* last_slot() by definition: the latest hour, not after now, that is the weekday and the
\* hour of the schedule (report_schedule.py:86-87).
SlotIsTheLatest(now, s) ==
    LET slots == {h \in (now - 2 * Week)..now : WeekdayOf(h) = s.weekday /\ HourOf(h) = s.hour}
    IN  /\ LastSlot(now, s) \in slots
        /\ \A h \in slots : h <= LastSlot(now, s)

\* Every homework falls into exactly one report (report_schedule.py:4-6), that of the next
\* slot: the weeks of the slots leave no gap and do not overlap.
InOneReport(h, s) ==
    \A i \in -2..2 : InPeriod(h, NextSlot(h, s) + i * Week) <=> i = 0
=============================================================================
