---------------------------- MODULE WeeklyProofs ----------------------------
(***************************************************************************)
(* Proofs about the calendar of the weekly report, for every schedule and  *)
(* hour, and about the report, for any number of processes, parents,       *)
(* moments, failures and restarts.  The inductive invariant WInv joins     *)
(* its safety properties - AtMostOneReport, OneHandler, MarksTruthful,     *)
(* NoMarkAbandoned - with what the argument turns on:                      *)
(*   Placed   a process knows the slot and the parent it is about;         *)
(*   Claimed  whoever handles a report has its mark on `sending`, so no    *)
(*            other process can claim it;                                  *)
(*   Unsent   until the request to MAX the parent has no report of the     *)
(*            slot;                                                        *)
(*   Known    an outcome tells the truth before it becomes the mark.       *)
(* WContent, further down, is about what the reports say, and rests on the *)
(* calendar: a homework of this moment falls in no week that is over.      *)
(* WMissed is about the slots a process passes over.                       *)
(***************************************************************************)
EXTENDS MCWeekly, SequenceTheorems, TLAPS

-----------------------------------------------------------------------------
(***************************************************************************)
(* The calendar: for every schedule the bot accepts and every hour, what   *)
(* last_slot() returns, that the weeks of its slots leave no gap and do    *)
(* not overlap, and that every hour belongs to exactly one report.         *)
(***************************************************************************)
LEMMA Lengths == Day = 24 /\ Week = 168
BY DEF Day, Week

\* An hour by its week, weekday and hour of the day.
LEMMA Parts ==
  ASSUME NEW h \in Int
  PROVE  \E w \in Int, d \in 0..6, k \in 0..23 :
            /\ h = Week * w + Day * d + k
            /\ d = WeekdayOf(h) /\ k = HourOf(h)
<1>1. WeekdayOf(h) \in 0..6 /\ HourOf(h) \in 0..23
  BY DEF HourOf, WeekdayOf, Day
<1>2. (h \div 24) \div 7 \in Int
  OBVIOUS
<1>3. h = 168 * ((h \div 24) \div 7) + 24 * WeekdayOf(h) + HourOf(h)
  BY DEF HourOf, WeekdayOf, Day
<1> QED BY <1>1, <1>2, <1>3, Lengths, SMTT(60)

LEMMA FromParts ==
  ASSUME NEW w \in Int, NEW d \in 0..6, NEW k \in 0..23, NEW h \in Int, h = 168 * w + 24 * d + k
  PROVE  WeekdayOf(h) = d /\ HourOf(h) = k
<1>1. h \div 24 = 7 * w + d /\ h % 24 = k
  OBVIOUS
<1>2. (7 * w + d) % 7 = d
  OBVIOUS
<1> QED BY <1>1, <1>2 DEF HourOf, WeekdayOf, Day

\* A week earlier it is the same weekday and hour.
LEMMA WeekBefore ==
  ASSUME NEW g \in Int, NEW h \in Int, g = h - Week
  PROVE  WeekdayOf(g) = WeekdayOf(h) /\ HourOf(g) = HourOf(h)
<1>1. PICK w \in Int, d \in 0..6, k \in 0..23 :
         h = 168 * w + 24 * d + k /\ d = WeekdayOf(h) /\ k = HourOf(h)
  BY Parts, Lengths
<1>2. PICK x \in Int : x = w - 1
  OBVIOUS
<1>3. g = 168 * x + 24 * d + k
  BY <1>1, <1>2, Lengths
<1> QED BY <1>1, <1>3, FromParts

\* Two hours with the same weekday and hour of the day are whole weeks apart.
LEMMA SamePhase ==
  ASSUME NEW g \in Int, NEW h \in Int, WeekdayOf(g) = WeekdayOf(h), HourOf(g) = HourOf(h), g < h
  PROVE  g + Week <= h
BY DEF HourOf, WeekdayOf, Day, Week

LEMMA ScheduleParts ==
  ASSUME NEW s \in Schedules
  PROVE  s.weekday \in 0..6 /\ s.hour \in 0..23
BY DEF Schedules

\* last_slot(): the hour of the schedule that is not after now and at most a week before it.
LEMMA LastSlotFacts ==
  ASSUME NEW m0 \in Int, NEW s \in Schedules
  PROVE  /\ LastSlot(m0, s) \in Int
         /\ WeekdayOf(LastSlot(m0, s)) = s.weekday /\ HourOf(LastSlot(m0, s)) = s.hour
         /\ LastSlot(m0, s) <= m0 /\ m0 < LastSlot(m0, s) + Week
<1>1. PICK d \in 0..6, k \in 0..23 : d = s.weekday /\ k = s.hour
  BY ScheduleParts
<1>2. PICK w \in Int, v \in 0..6, t \in 0..23 :
         m0 = Week * w + Day * v + t /\ v = WeekdayOf(m0) /\ t = HourOf(m0)
  BY Parts
<1>3. PICK j \in {0, 1} : (v - d) % 7 = v - d + 7 * j /\ v - d + 7 * j \in 0..6
  OBVIOUS
<1>4. PICK u \in Int : u = w - j
  OBVIOUS
<1>5. PICK slot \in Int : slot = 168 * u + 24 * d + k
  OBVIOUS
<1>6. MidnightOf(m0) + s.hour - Day * ((WeekdayOf(m0) - s.weekday) % 7) = slot
  <2>1. MidnightOf(m0) = 168 * w + 24 * v
    BY <1>2, Lengths DEF MidnightOf
  <2>2. (WeekdayOf(m0) - s.weekday) % 7 = v - d + 7 * j
    BY <1>1, <1>2, <1>3
  <2>3. 168 * w + 24 * v + k - 24 * (v - d + 7 * j) = slot
    BY <1>4, <1>5
  <2> QED BY <1>1, <2>1, <2>2, <2>3, Lengths
<1>7. WeekdayOf(slot) = d /\ HourOf(slot) = k
  BY <1>5, FromParts
<1>8. slot - Week \in Int /\ WeekdayOf(slot - Week) = d /\ HourOf(slot - Week) = k
  <2>1. PICK h \in Int : h = slot - Week
    BY Lengths
  <2> QED BY <1>7, <2>1, WeekBefore
<1>9. slot <= m0 + Week /\ m0 < slot + Week
  <2>1. m0 = 168 * w + 24 * v + t /\ m0 \in Int
    BY <1>2, Lengths
  <2>2. slot = 168 * w - 168 * j + 24 * d + k
    BY <1>4, <1>5
  <2>3. 24 * (v - d + 7 * j) \in 0..144
    BY <1>3
  <2>4. 24 * (v - d + 7 * j) = 24 * v - 24 * d + 168 * j
    OBVIOUS
  <2> QED BY <2>1, <2>2, <2>3, <2>4, Lengths
<1>10. LastSlot(m0, s) = IF slot > m0 THEN slot - Week ELSE slot
  BY <1>6 DEF LastSlot
<1>11. CASE slot > m0
  BY <1>1, <1>8, <1>9, <1>10, <1>11, Lengths
<1>12. CASE ~(slot > m0)
  BY <1>1, <1>7, <1>9, <1>10, <1>12, Lengths
<1> QED BY <1>11, <1>12

\* Two slots of a schedule are the same or a week apart at least.
LEMMA SlotsApart ==
  ASSUME NEW m \in Int, NEW n \in Int, NEW s \in Schedules, LastSlot(m, s) < LastSlot(n, s)
  PROVE  /\ LastSlot(m, s) + Week <= LastSlot(n, s)
         /\ LastSlot(m, s) = LastSlot(n, s) - Week \/ LastSlot(m, s) + 2 * Week <= LastSlot(n, s)
<1>1. PICK a \in Int, b \in Int :
         /\ a = LastSlot(m, s) /\ b = LastSlot(n, s) /\ a < b
         /\ WeekdayOf(a) = WeekdayOf(b) /\ HourOf(a) = HourOf(b)
  BY LastSlotFacts
<1>2. a + Week <= b
  BY <1>1, SamePhase
<1>3. PICK c \in Int : c = b - Week
  BY <1>1, Lengths
<1>4. a < c => a + Week <= c
  BY <1>1, <1>3, SamePhase, WeekBefore
<1> QED BY <1>1, <1>2, <1>3, <1>4, Lengths

\* last_slot() is what its docstring says, and every hour falls into exactly one report, that of
\* its next slot (report_schedule.py:4-6, 86-99) - for every schedule and hour, and whatever the
\* number of weeks between the hour and the report.
THEOREM ScheduleIsExact ==
  ASSUME NEW m0 \in Int, NEW s \in Schedules
  PROVE  /\ SlotIsTheLatest(m0, s)
         /\ InOneReport(m0, s)
         /\ \A i \in Int : InPeriod(m0, NextSlot(m0, s) + i * Week) <=> i = 0
<1> DEFINE last == LastSlot(m0, s)
<1>1. /\ last \in Int /\ WeekdayOf(last) = s.weekday /\ HourOf(last) = s.hour
      /\ last <= m0 /\ m0 < last + Week
  BY LastSlotFacts
<1> HIDE DEF last
<1>2. SlotIsTheLatest(m0, s)
  <2>1. last \in (m0 - 2 * Week)..m0
    BY <1>1 DEF Week, Day
  <2>2. ASSUME NEW h \in (m0 - 2 * Week)..m0, WeekdayOf(h) = s.weekday, HourOf(h) = s.hour
        PROVE  h <= last
    <3>1. h \in Int
      OBVIOUS
    <3>2. last < h => last + Week <= h
      BY <1>1, <2>2, <3>1, SamePhase
    <3> QED BY <1>1, <2>2, <3>1, <3>2 DEF Week, Day
  <2> QED BY <1>1, <2>1, <2>2 DEF SlotIsTheLatest, last
<1>3. ASSUME NEW i \in Int
      PROVE  InPeriod(m0, NextSlot(m0, s) + i * Week) <=> i = 0
  <2>1. NextSlot(m0, s) = last + Week
    BY DEF NextSlot, last
  <2> QED BY <1>1, <2>1 DEF InPeriod, Week, Day
<1> QED BY <1>2, <1>3 DEF InOneReport

\* The same of the calendar as it is run (MCWeekly): in every hour of every schedule tried.
THEOREM CalendarIsExact == MSpec => []EveryHourInOneReport
<1> DEFINE CalOK == part = "calendar" => sched \in Schedules /\ hour \in Nat
<1>1. MInit => CalOK
  BY CalendarAssumption DEF MInit
<1>2. CalOK /\ [MNext]_mvars => CalOK'
  BY DEF MNext, TickHour, mvars, cvars
<1>3. CalOK => EveryHourInOneReport
  BY ScheduleIsExact DEF EveryHourInOneReport
<1> QED BY <1>1, <1>2, <1>3, PTL DEF MSpec

-----------------------------------------------------------------------------
(***************************************************************************)
(* The loop, the marks and the reports.                                    *)
(***************************************************************************)

Labels   == {"down", "idle", "select", "next", "claim"} \union Handling
Statuses == Outcomes \union {"none", "sending"}
Flights  == [who : Parents \union {0}, slot : Slots \union {NoSlot},
             content : SUBSET Moments, outcome : Outcomes \union {"none"}]

\* Whether one of the reports is that of the slot; whether the parent has got it.
Has(reports, s) == \E i \in 1..Len(reports) : reports[i].slot = s
Got(q, s) == Has(inbox[q], s)

\* TypeOK by parts: the world, the loops, the flights, the marks, the parents.
WorldOK ==
    /\ now \in Moments
    /\ enabled \in [Parents -> BOOLEAN]
    /\ consent \in [Parents -> Moments \union {0}]
    /\ homework \in [Parents -> SUBSET Moments]
LoopOK ==
    /\ pc \in [Procs -> Labels]
    /\ rest \in [Procs -> SUBSET Parents]
    /\ stop \in [Procs -> BOOLEAN]
    /\ missed \in [Procs -> Slots \union {NoSlot}]
FlightOK == flight \in [Procs -> Flights]
MarkOK   == mark \in [Parents -> [Slots -> Statuses]]
InboxOK  == inbox \in [Parents -> Seq(Reports)]
CutOK    == cut \subseteq Parents \X Slots
AlarmsOK == alarms \subseteq Slots
BudgetOK == budget \in [failures : Nat, homeworks : Nat, changes : Nat]

Placed ==
    \A p \in Procs :
        /\ pc[p] \in {"select", "next", "claim"} \union Handling => flight[p].slot \in Slots
        /\ pc[p] \in {"claim"} \union Handling => flight[p].who \in Parents
        /\ pc[p] = "finish" => flight[p].outcome \in Outcomes

Claimed == \A p \in Procs : pc[p] \in Handling => MarkOf(p) = "sending"

Unsent == \A p \in Procs : pc[p] \in {"collect", "send"} => ~Got(flight[p].who, flight[p].slot)

Known ==
    \A p \in Procs :
        pc[p] = "finish" =>
            /\ flight[p].outcome = "sent" => Got(flight[p].who, flight[p].slot)
            /\ flight[p].outcome = "skipped" => ~Got(flight[p].who, flight[p].slot)

WInv == /\ TypeOK /\ Placed /\ Claimed /\ Unsent /\ Known
        /\ OneHandler /\ AtMostOneReport /\ MarksTruthful /\ NoMarkAbandoned

-----------------------------------------------------------------------------
(***************************************************************************)
(* Types.                                                                  *)
(***************************************************************************)

LEMMA TypeParts ==
    TypeOK <=> /\ WorldOK /\ LoopOK /\ FlightOK /\ MarkOK
               /\ InboxOK /\ CutOK /\ AlarmsOK /\ BudgetOK
BY DEF TypeOK, WorldOK, LoopOK, FlightOK, MarkOK, InboxOK, CutOK, AlarmsOK, BudgetOK,
       Labels, Statuses, Flights

LEMMA ReadyType ==
    ASSUME NEW s \in Slots \union {NoSlot}
    PROVE  Ready(s) \in Flights /\ Ready(s).slot = s
BY DEF Ready, Flights

\* What changing the flight of one process does.
LEMMA FlightChange ==
    ASSUME FlightOK, NEW p \in Procs, NEW f \in Flights, flight' = [flight EXCEPT ![p] = f]
    PROVE  FlightOK' /\ flight'[p] = f /\ \A r \in Procs : r # p => flight'[r] = flight[r]
BY DEF FlightOK

LEMMA FlightField ==
    ASSUME FlightOK, NEW p \in Procs
    PROVE  /\ flight[p] \in Flights
           /\ \A q \in Parents : [flight[p] EXCEPT !.who = q] \in Flights
           /\ \A c \in SUBSET Moments : [flight[p] EXCEPT !.content = c] \in Flights
           /\ \A o \in Outcomes : [flight[p] EXCEPT !.outcome = o] \in Flights
<1>1. flight[p] \in Flights
  BY DEF FlightOK
<1> QED
  BY <1>1 DEF Flights

LEMMA PcChange ==
    ASSUME LoopOK, NEW p \in Procs, NEW l \in Labels, Goto(p, l)
    PROVE  /\ pc' \in [Procs -> Labels] /\ pc'[p] = l
           /\ \A r \in Procs : r # p => pc'[r] = pc[r]
BY DEF LoopOK, Goto

\* What setting one mark does.
LEMMA MarkChange ==
    ASSUME MarkOK, NEW p \in Procs, NEW v \in Statuses, SetMark(p, v),
           flight[p].who \in Parents, flight[p].slot \in Slots
    PROVE  /\ MarkOK'
           /\ mark'[flight[p].who][flight[p].slot] = v
           /\ \A q \in Parents, s \in Slots :
                 <<q, s>> # Pair(p) => mark'[q][s] = mark[q][s]
BY DEF MarkOK, SetMark, Pair

LEMMA SlotNow == now \in Moments => LastSlot(now, Sched) \in Slots
BY DEF Slots

\* Where a process goes, and what it is about then.
Moves(p, l, f) == Goto(p, l) /\ flight' = [flight EXCEPT ![p] = f]

LEMMA MoveFacts ==
    ASSUME TypeOK, NEW p \in Procs, NEW l \in Labels, NEW f \in Flights, Moves(p, l, f)
    PROVE  /\ FlightOK' /\ pc' \in [Procs -> Labels]
           /\ pc'[p] = l /\ flight'[p] = f
           /\ \A r \in Procs : r # p => pc'[r] = pc[r] /\ flight'[r] = flight[r]
<1>1. LoopOK /\ FlightOK
  BY TypeParts
<1>2. Goto(p, l) /\ flight' = [flight EXCEPT ![p] = f]
  BY DEF Moves
<1>3. FlightOK' /\ flight'[p] = f /\ \A r \in Procs : r # p => flight'[r] = flight[r]
  BY <1>1, <1>2, FlightChange
<1>4. pc' \in [Procs -> Labels] /\ pc'[p] = l /\ \A r \in Procs : r # p => pc'[r] = pc[r]
  BY <1>1, <1>2, PcChange
<1> QED
  BY <1>3, <1>4

\* Where each action of a process goes.
LEMMA TickMove ==
    ASSUME TypeOK, NEW p \in Procs, Tick(p)
    PROVE  \E s \in Slots : Moves(p, "select", Ready(s))
<1>1. LastSlot(now, Sched) \in Slots
  BY TypeParts, SlotNow DEF WorldOK
<1>2. Goto(p, "select") /\ flight' = [flight EXCEPT ![p] = Ready(LastSlot(now, Sched))]
  BY DEF Tick
<1> QED
  BY <1>1, <1>2 DEF Moves

LEMMA LeaveMove ==
    ASSUME TypeOK, NEW p \in Procs, NEW l, Leave(p, l)
    PROVE  /\ Moves(p, l, Ready(NoSlot))
           /\ rest' \in [Procs -> SUBSET Parents]
<1>1. rest \in [Procs -> SUBSET Parents]
  BY TypeParts DEF LoopOK
<1>2. rest' \in [Procs -> SUBSET Parents]
  BY <1>1 DEF Leave
<1> QED
  BY <1>2 DEF Leave, Moves

LEMMA GoOnMove ==
    ASSUME NEW p \in Procs, TypeOK, GoOn(p)
    PROVE  Moves(p, "next", Ready(flight[p].slot))
<1>1. flight \in [Procs -> Flights]
  BY TypeParts DEF FlightOK
<1> QED
  BY <1>1 DEF GoOn, Moves

LEMMA NextMove ==
    ASSUME TypeOK, NEW p \in Procs, NextParent(p)
    PROVE  /\ \E q \in Parents : Moves(p, "claim", [flight[p] EXCEPT !.who = q])
           /\ rest' \in [Procs -> SUBSET Parents]
<1>1. rest \in [Procs -> SUBSET Parents] /\ flight \in [Procs -> Flights]
  BY TypeParts DEF LoopOK, FlightOK
<1>2. PICK q \in rest[p] : /\ rest' = [rest EXCEPT ![p] = @ \ {q}]
                           /\ flight' = [flight EXCEPT ![p].who = q]
  BY DEF NextParent
<1>3. q \in Parents
  BY <1>1, <1>2
<1>4. rest' \in [Procs -> SUBSET Parents]
  BY <1>1, <1>2
<1>5. Goto(p, "claim")
  BY DEF NextParent
<1> QED
  BY <1>1, <1>2, <1>3, <1>4, <1>5 DEF Moves

LEMMA ClaimMove ==
    ASSUME TypeOK, NEW p \in Procs, ClaimSet(p), flight[p].who \in Parents
    PROVE  Moves(p, "collect", flight[p])
<1>1. flight \in [Procs -> Flights]
  BY TypeParts DEF FlightOK
<1>2. flight' = flight /\ Goto(p, "collect")
  BY DEF ClaimSet
<1> QED
  BY <1>1, <1>2 DEF Moves

LEMMA EndsMove ==
    ASSUME TypeOK, NEW p \in Procs, NEW o, Ends(p, o)
    PROVE  Moves(p, "finish", [flight[p] EXCEPT !.outcome = o])
<1>1. flight \in [Procs -> Flights]
  BY TypeParts DEF FlightOK
<1> QED
  BY <1>1 DEF Ends, Moves

LEMMA CollectMove ==
    ASSUME TypeOK, NEW p \in Procs, Collect(p), flight[p].who \in Parents
    PROVE  \/ Moves(p, "finish", [flight[p] EXCEPT !.outcome = "skipped"])
           \/ \E c \in SUBSET Moments : Moves(p, "send", [flight[p] EXCEPT !.content = c])
<1>1. flight \in [Procs -> Flights] /\ homework \in [Parents -> SUBSET Moments]
  BY TypeParts DEF WorldOK, FlightOK
<1>2. CASE Ends(p, "skipped")
  BY <1>2, EndsMove
<1>3. CASE /\ flight' = [flight EXCEPT ![p].content = Week1(flight[p].who, flight[p].slot)]
           /\ Goto(p, "send")
  <2>1. Week1(flight[p].who, flight[p].slot) \in SUBSET Moments
    BY <1>1 DEF Week1
  <2> QED
    BY <1>1, <1>3, <2>1 DEF Moves
<1> QED
  BY <1>2, <1>3 DEF Collect

-----------------------------------------------------------------------------
(***************************************************************************)
(* The invariant beyond the types, by kinds of steps.                      *)
(***************************************************************************)
Rest == /\ Placed /\ Claimed /\ Unsent /\ Known
        /\ OneHandler /\ AtMostOneReport /\ MarksTruthful /\ NoMarkAbandoned

\* A process moves on without a report in its hands, before and after.
Calm(p) ==
    /\ mark' = mark /\ inbox' = inbox /\ cut \subseteq cut'
    /\ \A r \in Procs : r # p => pc'[r] = pc[r] /\ flight'[r] = flight[r]
    /\ pc'[p] \notin Handling
    /\ pc[p] \in Handling => Pair(p) \in cut'
    /\ pc'[p] \in {"select", "next", "claim"} => flight'[p].slot \in Slots
    /\ pc'[p] = "claim" => flight'[p].who \in Parents

LEMMA CalmStep ==
    ASSUME Rest, NEW p \in Procs, Calm(p)
    PROVE  Rest'
<1> USE DEF Rest
<1>1. Placed'
  BY DEF Placed, Calm, Handling
<1>2. Claimed'
  <2> SUFFICES ASSUME NEW r \in Procs, pc'[r] \in Handling
               PROVE  MarkOf(r)' = "sending"
    BY DEF Claimed
  <2>1. r # p /\ pc[r] \in Handling /\ flight'[r] = flight[r] /\ mark' = mark
    BY DEF Calm
  <2>2. MarkOf(r) = "sending"
    BY <2>1 DEF Claimed
  <2> QED BY <2>1, <2>2 DEF MarkOf
<1>3. ASSUME NEW r \in Procs, pc'[r] \in Handling
      PROVE  r # p /\ pc'[r] = pc[r] /\ flight'[r] = flight[r] /\ inbox' = inbox
  BY <1>3 DEF Calm
<1>31. Unsent'
  <2> SUFFICES ASSUME NEW r \in Procs, pc'[r] \in {"collect", "send"}
               PROVE  ~Got(flight[r].who, flight[r].slot)'
    BY DEF Unsent
  <2>1. pc'[r] \in Handling
    BY DEF Handling
  <2> QED BY <1>3, <2>1 DEF Unsent, Got
<1>32. Known'
  <2> SUFFICES ASSUME NEW r \in Procs, pc'[r] = "finish"
               PROVE  /\ flight'[r].outcome = "sent" => Got(flight[r].who, flight[r].slot)'
                      /\ flight'[r].outcome = "skipped" => ~Got(flight[r].who, flight[r].slot)'
    BY DEF Known
  <2>1. pc'[r] \in Handling
    BY DEF Handling
  <2> QED BY <1>3, <2>1 DEF Known, Got
<1>4. OneHandler'
  BY DEF OneHandler, Calm, Pair
<1>5. AtMostOneReport' /\ MarksTruthful'
  BY DEF AtMostOneReport, MarksTruthful, Calm
<1>6. NoMarkAbandoned'
  <2> SUFFICES ASSUME NEW q \in Parents, NEW s \in Slots, mark[q][s] = "sending",
                      <<q, s>> \notin cut'
               PROVE  \E r \in Procs : pc'[r] \in Handling /\ Pair(r)' = <<q, s>>
    BY DEF NoMarkAbandoned, Calm
  <2>1. PICK r \in Procs : pc[r] \in Handling /\ Pair(r) = <<q, s>>
    BY DEF NoMarkAbandoned, Calm
  <2>2. r # p
    BY <2>1 DEF Calm
  <2> QED
    BY <2>1, <2>2 DEF Calm, Pair
<1> QED
  BY <1>1, <1>2, <1>31, <1>32, <1>4, <1>5, <1>6

\* The world moves, and no process.
LEMMA StillStep ==
    ASSUME Rest, UNCHANGED <<mark, inbox, cut, pc, flight>>
    PROVE  Rest'
BY DEF Rest, Placed, Claimed, Unsent, Known, OneHandler, AtMostOneReport, MarksTruthful,
       NoMarkAbandoned, MarkOf, Pair, Got, Has

\* A report is put together, or is not.
Prepares(p) ==
    /\ mark' = mark /\ inbox' = inbox /\ cut' = cut
    /\ \A r \in Procs : r # p => pc'[r] = pc[r] /\ flight'[r] = flight[r]
    /\ pc[p] = "collect"
    /\ pc'[p] \in {"send", "finish"}
    /\ pc'[p] = "finish" => flight'[p].outcome \in {"skipped", "failed"}
    /\ flight'[p].who = flight[p].who /\ flight'[p].slot = flight[p].slot

LEMMA PrepareStep ==
    ASSUME Rest, NEW p \in Procs, Prepares(p)
    PROVE  Rest'
<1> USE DEF Rest
<1>0. pc[p] \in Handling /\ pc'[p] \in Handling
  BY DEF Prepares, Handling
<1>1. Placed'
  BY DEF Placed, Prepares, Handling, Outcomes
<1>2. Claimed'
  BY <1>0 DEF Claimed, Prepares, MarkOf
<1>3. Unsent' /\ Known'
  <2>1. ASSUME NEW q, NEW s PROVE Got(q, s)' <=> Got(q, s)
    BY DEF Got, Has, Prepares
  <2>2. Unsent'
    BY <2>1 DEF Unsent, Prepares, Handling
  <2>3. Known'
    BY <2>1 DEF Known, Unsent, Prepares, Handling
  <2> QED
    BY <2>2, <2>3
<1>4. OneHandler'
  BY <1>0 DEF OneHandler, Prepares, Pair
<1>5. AtMostOneReport' /\ MarksTruthful'
  BY DEF AtMostOneReport, MarksTruthful, Prepares
<1>6. NoMarkAbandoned'
  <2>1. \A r \in Procs : pc[r] \in Handling => pc'[r] \in Handling /\ Pair(r)' = Pair(r)
    BY <1>0 DEF Prepares, Pair
  <2> QED
    BY <2>1 DEF NoMarkAbandoned, Prepares
<1> QED
  BY <1>1, <1>2, <1>3, <1>4, <1>5, <1>6

\* A mark that was not there is set: by the process that goes on, or by one that does not
\* learn of it.
Marks(p) ==
    /\ \A q \in Parents, s \in Slots : <<q, s>> # Pair(p) => mark'[q][s] = mark[q][s]
    /\ pc[p] = "claim"
    /\ MarkOf(p) = "none" /\ mark'[flight[p].who][flight[p].slot] = "sending"
    /\ inbox' = inbox
    /\ \A r \in Procs : r # p => pc'[r] = pc[r] /\ flight'[r] = flight[r]
    /\ \/ /\ pc'[p] = "collect" /\ cut' = cut
          /\ flight'[p].who = flight[p].who /\ flight'[p].slot = flight[p].slot
       \/ pc'[p] = "idle" /\ cut' = cut \union {Pair(p)}

LEMMA MarkStep ==
    ASSUME Rest, NEW p \in Procs, Marks(p)
    PROVE  Rest'
<1> USE DEF Rest
<1>0. /\ flight[p].who \in Parents /\ flight[p].slot \in Slots
      /\ ~Got(flight[p].who, flight[p].slot)
      /\ mark[flight[p].who][flight[p].slot] = "none"
  BY DEF Placed, Marks, MarksTruthful, MarkOf, Got, Has
<1>1. Placed'
  BY DEF Placed, Marks, Handling
<1>a. \A r \in Procs : r # p /\ pc[r] \in Handling => Pair(r) # Pair(p)
  BY <1>0 DEF Claimed, MarkOf, Pair
<1>2. Claimed'
  <2> SUFFICES ASSUME NEW r \in Procs, pc'[r] \in Handling
               PROVE  MarkOf(r)' = "sending"
    BY DEF Claimed
  <2>1. CASE r = p
    BY <2>1 DEF Marks, MarkOf, Handling
  <2>2. CASE r # p
    <3>1. pc[r] \in Handling /\ Pair(r) # Pair(p) /\ flight'[r] = flight[r]
      BY <1>a, <2>2 DEF Marks
    <3>2. flight[r].who \in Parents /\ flight[r].slot \in Slots
      BY <3>1 DEF Placed
    <3>3. MarkOf(r) = "sending"
      BY <3>1 DEF Claimed
    <3> QED
      BY <3>1, <3>2, <3>3 DEF Marks, MarkOf, Pair
  <2> QED
    BY <2>1, <2>2
<1>3. Unsent' /\ Known'
  BY <1>0, SMTT(60) DEF Unsent, Known, Marks, Got, Has, Handling
<1>4. OneHandler'
  BY <1>a DEF OneHandler, Marks, Pair, Handling
<1>5. AtMostOneReport'
  BY DEF AtMostOneReport, Marks
<1>6. MarksTruthful'
  <2> SUFFICES ASSUME NEW q \in Parents, NEW s \in Slots
               PROVE  /\ Got(q, s) => mark'[q][s] \in {"sending", "sent", "failed"}
                      /\ mark'[q][s] = "sent" => Got(q, s)
    BY DEF MarksTruthful, Marks, Got, Has
  <2>1. CASE <<q, s>> = Pair(p)
    BY <1>0, <2>1 DEF Marks, Pair
  <2>2. CASE <<q, s>> # Pair(p)
    BY <2>2 DEF Marks, MarksTruthful, Got, Has
  <2> QED
    BY <2>1, <2>2
<1>7. NoMarkAbandoned'
  <2> SUFFICES ASSUME NEW q \in Parents, NEW s \in Slots, mark'[q][s] = "sending",
                      <<q, s>> \notin cut'
               PROVE  \E r \in Procs : pc'[r] \in Handling /\ Pair(r)' = <<q, s>>
    BY DEF NoMarkAbandoned
  <2>1. CASE <<q, s>> = Pair(p)
    BY <2>1 DEF Marks, Pair, Handling
  <2>2. CASE <<q, s>> # Pair(p)
    <3>1. mark[q][s] = "sending" /\ <<q, s>> \notin cut
      BY <2>2 DEF Marks
    <3>2. PICK r \in Procs : pc[r] \in Handling /\ Pair(r) = <<q, s>>
      BY <3>1 DEF NoMarkAbandoned
    <3> QED
      BY <2>2, <3>2 DEF Marks, Pair
  <2> QED
    BY <2>1, <2>2
<1> QED
  BY <1>1, <1>2, <1>3, <1>4, <1>5, <1>6, <1>7

\* The outcome becomes the mark.
Closes(p) ==
    /\ \A q \in Parents, s \in Slots : <<q, s>> # Pair(p) => mark'[q][s] = mark[q][s]
    /\ mark'[flight[p].who][flight[p].slot] = flight[p].outcome
    /\ pc[p] = "finish"
    /\ inbox' = inbox /\ cut' = cut
    /\ \A r \in Procs : r # p => pc'[r] = pc[r] /\ flight'[r] = flight[r]
    /\ pc'[p] \in {"idle", "next"}
    /\ pc'[p] = "next" => flight'[p].slot \in Slots

LEMMA CloseStep ==
    ASSUME Rest, NEW p \in Procs, Closes(p)
    PROVE  Rest'
<1> USE DEF Rest
<1>0. /\ flight[p].who \in Parents /\ flight[p].slot \in Slots
      /\ flight[p].outcome \in Outcomes
      /\ mark[flight[p].who][flight[p].slot] = "sending"
      /\ pc[p] \in Handling /\ pc'[p] \notin Handling
  BY DEF Placed, Closes, Claimed, MarkOf, Handling
<1>1. Placed'
  BY DEF Placed, Closes, Handling
<1>a. \A r \in Procs : r # p /\ pc[r] \in Handling => Pair(r) # Pair(p)
  BY <1>0 DEF OneHandler
<1>2. Claimed'
  <2> SUFFICES ASSUME NEW r \in Procs, pc'[r] \in Handling
               PROVE  MarkOf(r)' = "sending"
    BY DEF Claimed
  <2>2. r # p
    BY <1>0
  <2>3. pc[r] \in Handling /\ Pair(r) # Pair(p) /\ flight'[r] = flight[r]
    BY <1>a, <2>2 DEF Closes
  <2>4. flight[r].who \in Parents /\ flight[r].slot \in Slots
    BY <2>3 DEF Placed
  <2>5. MarkOf(r) = "sending"
    BY <2>3 DEF Claimed
  <2> QED
    BY <2>3, <2>4, <2>5 DEF Closes, MarkOf, Pair
<1>3. Unsent' /\ Known'
  <2>1. ASSUME NEW q, NEW s PROVE Got(q, s)' <=> Got(q, s)
    BY DEF Got, Has, Closes
  <2>2. Unsent'
    BY <1>0, <2>1 DEF Unsent, Closes, Handling
  <2>3. Known'
    BY <1>0, <2>1 DEF Known, Closes, Handling
  <2> QED
    BY <2>2, <2>3
<1>4. OneHandler'
  BY <1>0 DEF OneHandler, Closes, Pair
<1>5. AtMostOneReport'
  BY DEF AtMostOneReport, Closes
<1>6. MarksTruthful'
  <2> SUFFICES ASSUME NEW q \in Parents, NEW s \in Slots
               PROVE  /\ Got(q, s) => mark'[q][s] \in {"sending", "sent", "failed"}
                      /\ mark'[q][s] = "sent" => Got(q, s)
    BY DEF MarksTruthful, Closes, Got, Has
  <2>1. CASE <<q, s>> = Pair(p)
    BY <1>0, <2>1 DEF Closes, Pair, Known, Outcomes
  <2>2. CASE <<q, s>> # Pair(p)
    BY <2>2 DEF Closes, MarksTruthful, Got, Has
  <2> QED
    BY <2>1, <2>2
<1>7. NoMarkAbandoned'
  <2> SUFFICES ASSUME NEW q \in Parents, NEW s \in Slots, mark'[q][s] = "sending",
                      <<q, s>> \notin cut'
               PROVE  \E r \in Procs : pc'[r] \in Handling /\ Pair(r)' = <<q, s>>
    BY DEF NoMarkAbandoned
  <2>1. <<q, s>> # Pair(p)
    BY <1>0 DEF Closes, Pair, Outcomes
  <2>2. mark[q][s] = "sending" /\ <<q, s>> \notin cut
    BY <2>1 DEF Closes
  <2>3. PICK r \in Procs : pc[r] \in Handling /\ Pair(r) = <<q, s>>
    BY <2>2 DEF NoMarkAbandoned
  <2> QED
    BY <2>1, <2>3 DEF Closes, Pair
<1> QED
  BY <1>1, <1>2, <1>3, <1>4, <1>5, <1>6, <1>7

\* A report reaches a parent.
Arrives(w, report) == inbox' = [inbox EXCEPT ![w] = Append(@, report)]

\* The request to MAX: the parent gets the report, or does not and the outcome is `failed`.
Sends(p) ==
    /\ mark' = mark /\ cut' = cut
    /\ \A r \in Procs : r # p => pc'[r] = pc[r] /\ flight'[r] = flight[r]
    /\ pc[p] = "send" /\ pc'[p] = "finish"
    /\ flight'[p].outcome \in {"sent", "failed"}
    /\ flight'[p].who = flight[p].who /\ flight'[p].slot = flight[p].slot
    /\ \/ inbox' = inbox /\ flight'[p].outcome = "failed"
       \/ \E report \in Reports :
             /\ report.slot = flight[p].slot
             /\ Arrives(flight[p].who, report)

\* What one more report in the inbox of a parent does.
LEMMA InboxGrows ==
    ASSUME InboxOK, NEW w \in Parents, NEW report \in Reports, Arrives(w, report)
    PROVE  /\ InboxOK'
           /\ Len(inbox[w]) \in Nat
           /\ Len(inbox'[w]) = Len(inbox[w]) + 1
           /\ inbox'[w][Len(inbox[w]) + 1] = report
           /\ \A i \in 1..Len(inbox[w]) : inbox'[w][i] = inbox[w][i]
           /\ \A q \in Parents : q # w => inbox'[q] = inbox[q]
           /\ Has(inbox'[w], report.slot)
           /\ \A q \in Parents : \A s \in Slots :
                 q # w \/ s # report.slot => (Has(inbox'[q], s) <=> Has(inbox[q], s))
<1>1. inbox[w] \in Seq(Reports)
  BY DEF InboxOK
<1>2. /\ inbox'[w] = Append(inbox[w], report)
      /\ \A q \in Parents : q # w => inbox'[q] = inbox[q]
      /\ inbox' \in [Parents -> Seq(Reports)]
  BY <1>1 DEF InboxOK, Arrives
<1>3. /\ Len(inbox[w]) \in Nat
      /\ Len(inbox'[w]) = Len(inbox[w]) + 1
      /\ inbox'[w][Len(inbox[w]) + 1] = report
      /\ \A i \in 1..Len(inbox[w]) : inbox'[w][i] = inbox[w][i]
  BY <1>1, <1>2, AppendProperties
<1>4. Has(inbox'[w], report.slot)
  <2>1. Len(inbox[w]) + 1 \in 1..Len(inbox'[w])
    BY <1>3
  <2> QED
    BY <1>3, <2>1 DEF Has
<1>5. ASSUME NEW q \in Parents, NEW s \in Slots, q # w \/ s # report.slot
      PROVE  Has(inbox'[q], s) <=> Has(inbox[q], s)
  <2>1. CASE q # w
    BY <1>2, <2>1 DEF Has
  <2>2. CASE q = w /\ s # report.slot
    <3>1. ASSUME Has(inbox[q], s) PROVE Has(inbox'[q], s)
      <4>1. PICK i \in 1..Len(inbox[w]) : inbox[w][i].slot = s
        BY <2>2, <3>1 DEF Has
      <4>2. i \in 1..Len(inbox'[w]) /\ inbox'[w][i].slot = s
        BY <1>3, <4>1
      <4> QED
        BY <2>2, <4>2 DEF Has
    <3>2. ASSUME Has(inbox'[q], s) PROVE Has(inbox[q], s)
      <4>1. PICK i \in 1..Len(inbox'[w]) : inbox'[w][i].slot = s
        BY <2>2, <3>2 DEF Has
      <4>2. i # Len(inbox[w]) + 1
        BY <1>3, <2>2, <4>1
      <4>3. i \in 1..Len(inbox[w])
        BY <1>3, <4>1, <4>2
      <4>4. inbox[w][i].slot = s
        BY <1>3, <4>1, <4>3
      <4> QED
        BY <2>2, <4>3, <4>4 DEF Has
    <3> QED
      BY <3>1, <3>2
  <2> QED
    BY <1>5, <2>1, <2>2
<1> QED
  BY <1>2, <1>3, <1>4, <1>5 DEF InboxOK

LEMMA SendStep ==
    ASSUME Rest, InboxOK, NEW p \in Procs, Sends(p)
    PROVE  Rest'
<1> USE DEF Rest
<1>0. /\ flight[p].who \in Parents /\ flight[p].slot \in Slots
      /\ pc[p] \in Handling /\ pc'[p] \in Handling
      /\ ~Got(flight[p].who, flight[p].slot)
      /\ mark[flight[p].who][flight[p].slot] = "sending"
  BY DEF Sends, Placed, Handling, Unsent, Claimed, MarkOf
<1>1. Placed'
  BY DEF Placed, Sends, Handling, Outcomes
<1>2. Claimed'
  BY <1>0 DEF Claimed, Sends, MarkOf
<1>3. OneHandler'
  BY <1>0 DEF OneHandler, Sends, Pair
<1>4. NoMarkAbandoned'
  <2>1. \A r \in Procs : pc[r] \in Handling => pc'[r] \in Handling /\ Pair(r)' = Pair(r)
    BY <1>0 DEF Sends, Pair
  <2> QED
    BY <2>1 DEF NoMarkAbandoned, Sends
<1>a. \A r \in Procs : r # p /\ pc[r] \in Handling =>
          flight[r].who # flight[p].who \/ flight[r].slot # flight[p].slot
  BY <1>0 DEF OneHandler, Pair
<1>5. CASE inbox' = inbox /\ flight'[p].outcome = "failed"
  <2>1. ASSUME NEW q, NEW s PROVE Got(q, s)' <=> Got(q, s)
    BY <1>5 DEF Got, Has
  <2>2. Unsent'
    BY <2>1 DEF Unsent, Sends
  <2>3. Known'
    BY <1>5, <2>1 DEF Known, Sends
  <2>4. AtMostOneReport' /\ MarksTruthful'
    BY <1>5 DEF AtMostOneReport, MarksTruthful, Sends
  <2> QED
    BY <1>1, <1>2, <1>3, <1>4, <2>2, <2>3, <2>4
<1>6. ASSUME NEW report \in Reports, NEW w \in Parents, NEW t \in Slots,
             w = flight[p].who, t = flight[p].slot, report.slot = t, Arrives(w, report)
      PROVE  Rest'
  <2>0. ~Got(w, t) /\ mark[w][t] = "sending"
    BY <1>0, <1>6
  <2>1. /\ Len(inbox[w]) \in Nat
        /\ Len(inbox'[w]) = Len(inbox[w]) + 1
        /\ inbox'[w][Len(inbox[w]) + 1] = report
        /\ \A i \in 1..Len(inbox[w]) : inbox'[w][i] = inbox[w][i]
        /\ \A q \in Parents : q # w => inbox'[q] = inbox[q]
        /\ Has(inbox'[w], t)
        /\ \A q \in Parents : \A s \in Slots :
              q # w \/ s # t => (Has(inbox'[q], s) <=> Has(inbox[q], s))
    <3>1. /\ Len(inbox[w]) \in Nat
          /\ Len(inbox'[w]) = Len(inbox[w]) + 1
          /\ inbox'[w][Len(inbox[w]) + 1] = report
          /\ \A i \in 1..Len(inbox[w]) : inbox'[w][i] = inbox[w][i]
          /\ \A q \in Parents : q # w => inbox'[q] = inbox[q]
          /\ Has(inbox'[w], report.slot)
          /\ \A q \in Parents : \A s \in Slots :
                q # w \/ s # report.slot => (Has(inbox'[q], s) <=> Has(inbox[q], s))
      BY <1>6, InboxGrows
    <3> QED
      BY <1>6, <3>1
  <2>2. ASSUME NEW r \in Procs, r # p, pc[r] \in Handling,
               NEW q, NEW s, q = flight[r].who, s = flight[r].slot
        PROVE  Got(q, s)' <=> Got(q, s)
    <3>1. q \in Parents /\ s \in Slots
      BY <2>2 DEF Placed
    <3>2. q # w \/ s # t
      BY <1>a, <1>6, <2>2
    <3> QED
      BY <2>1, <3>1, <3>2 DEF Got
  <2>3. Unsent'
    <3> SUFFICES ASSUME NEW r \in Procs, pc'[r] \in {"collect", "send"},
                        NEW q, NEW s, q = flight'[r].who, s = flight'[r].slot
                 PROVE  ~Got(q, s)'
      BY DEF Unsent, Got, Has
    <3>1. r # p /\ pc[r] \in {"collect", "send"} /\ q = flight[r].who /\ s = flight[r].slot
      BY DEF Sends
    <3>2. ~Got(q, s)
      BY <3>1 DEF Unsent
    <3> QED
      BY <2>2, <3>1, <3>2 DEF Handling
  <2>4. Known'
    <3> SUFFICES ASSUME NEW r \in Procs, pc'[r] = "finish",
                        NEW q, NEW s, q = flight'[r].who, s = flight'[r].slot
                 PROVE  /\ flight'[r].outcome = "sent" => Got(q, s)'
                        /\ flight'[r].outcome = "skipped" => ~Got(q, s)'
      BY DEF Known, Got, Has
    <3>1. CASE r = p
      <4>1. q = w /\ s = t /\ flight'[r].outcome # "skipped"
        BY <1>6, <3>1 DEF Sends
      <4> QED
        BY <2>1, <4>1 DEF Got
    <3>2. CASE r # p
      <4>1. pc[r] = "finish" /\ flight'[r] = flight[r] /\ q = flight[r].who /\ s = flight[r].slot
        BY <3>2 DEF Sends
      <4>2. /\ flight[r].outcome = "sent" => Got(q, s)
            /\ flight[r].outcome = "skipped" => ~Got(q, s)
        BY <4>1 DEF Known
      <4>3. Got(q, s)' <=> Got(q, s)
        BY <2>2, <3>2, <4>1 DEF Handling
      <4> QED
        BY <4>1, <4>2, <4>3
    <3> QED
      BY <3>1, <3>2
  <2>5. AtMostOneReport'
    <3> SUFFICES ASSUME NEW q \in Parents, NEW i \in 1..Len(inbox'[q]), NEW j \in 1..Len(inbox'[q]),
                        inbox'[q][i].slot = inbox'[q][j].slot
                 PROVE  i = j
      BY DEF AtMostOneReport
    <3>1. CASE q # w
      BY <2>1, <3>1 DEF AtMostOneReport
    <3>2. CASE q = w
      <4>1. \A k \in 1..Len(inbox[w]) : inbox'[w][k].slot # t
        BY <2>0, <2>1 DEF Got, Has
      <4>2. CASE i \in 1..Len(inbox[w]) /\ j \in 1..Len(inbox[w])
        BY <2>1, <3>2, <4>2 DEF AtMostOneReport
      <4>3. CASE i = Len(inbox[w]) + 1
        <5>1. inbox'[w][i].slot = t /\ inbox'[w][j].slot = t
          BY <1>6, <2>1, <3>2, <4>3
        <5>2. j \notin 1..Len(inbox[w]) /\ j \in 1..(Len(inbox[w]) + 1)
          BY <2>1, <3>2, <4>1, <5>1
        <5> QED
          BY <2>1, <4>3, <5>2
      <4>4. CASE j = Len(inbox[w]) + 1
        <5>1. inbox'[w][j].slot = t /\ inbox'[w][i].slot = t
          BY <1>6, <2>1, <3>2, <4>4
        <5>2. i \notin 1..Len(inbox[w]) /\ i \in 1..(Len(inbox[w]) + 1)
          BY <2>1, <3>2, <4>1, <5>1
        <5> QED
          BY <2>1, <4>4, <5>2
      <4> QED
        BY <2>1, <3>2, <4>2, <4>3, <4>4
    <3> QED
      BY <3>1, <3>2
  <2>6. MarksTruthful'
    <3> SUFFICES ASSUME NEW q \in Parents, NEW s \in Slots
                 PROVE  /\ Got(q, s)' => mark[q][s] \in {"sending", "sent", "failed"}
                        /\ mark[q][s] = "sent" => Got(q, s)'
      BY DEF MarksTruthful, Sends, Got, Has
    <3>1. CASE q = w /\ s = t
      BY <2>0, <2>1, <3>1 DEF Got
    <3>2. CASE q # w \/ s # t
      <4>1. Got(q, s)' <=> Got(q, s)
        BY <2>1, <3>2 DEF Got
      <4> QED
        BY <4>1 DEF MarksTruthful, Got, Has
    <3> QED
      BY <3>1, <3>2
  <2> QED
    BY <1>1, <1>2, <1>3, <1>4, <2>3, <2>4, <2>5, <2>6
<1>7. CASE \E report \in Reports :
             /\ report.slot = flight[p].slot
             /\ Arrives(flight[p].who, report)
  BY <1>0, <1>6, <1>7
<1> QED
  BY <1>5, <1>7 DEF Sends

-----------------------------------------------------------------------------
(***************************************************************************)
(* Every step keeps the types.                                             *)
(***************************************************************************)
LEMMA InitHolds == Init => WInv
<1> SUFFICES ASSUME Init PROVE WInv
  OBVIOUS
<1> USE DEF Init
<1>1. WorldOK
  BY DEF WorldOK
<1>2. FlightOK
  BY ReadyType DEF FlightOK
<1>3. LoopOK
  BY DEF LoopOK, Labels
<1>4. MarkOK /\ AlarmsOK /\ BudgetOK /\ CutOK
  BY DEF MarkOK, AlarmsOK, BudgetOK, CutOK, Statuses
<1>5. InboxOK
  <2>1. <<>> \in Seq(Reports)
    OBVIOUS
  <2> QED
    BY <2>1 DEF InboxOK
<1>6. Placed /\ Claimed /\ Unsent /\ Known /\ OneHandler
  BY DEF Placed, Claimed, Unsent, Known, OneHandler, Handling
<1>7. AtMostOneReport
  BY DEF AtMostOneReport
<1>8. MarksTruthful /\ NoMarkAbandoned
  BY DEF MarksTruthful, NoMarkAbandoned
<1> QED
  BY <1>1, <1>2, <1>3, <1>4, <1>5, <1>6, <1>7, <1>8, TypeParts DEF WInv

LEMMA WorldSteps ==
    ASSUME WInv, Advance \/ (\E q \in Parents : Family(q)) \/ (\E p \in Procs : Sigterm(p))
    PROVE  WInv'
<1>0. /\ WorldOK /\ LoopOK /\ FlightOK /\ MarkOK
      /\ InboxOK /\ CutOK /\ AlarmsOK /\ BudgetOK /\ Rest
  BY TypeParts DEF WInv, Rest
<1>a. ASSUME UNCHANGED <<mark, inbox, cut, pc, flight>>, WorldOK', LoopOK', BudgetOK',
             UNCHANGED alarms
      PROVE  WInv'
  <2>1. FlightOK' /\ MarkOK' /\ InboxOK' /\ CutOK' /\ AlarmsOK'
    BY <1>0, <1>a DEF FlightOK, MarkOK, InboxOK, CutOK, AlarmsOK
  <2>2. Rest'
    BY <1>0, <1>a, StillStep
  <2>3. TypeOK'
    BY <1>a, <2>1, TypeParts DEF TypeOK, WorldOK, LoopOK, FlightOK, MarkOK, InboxOK, CutOK,
       AlarmsOK, BudgetOK, Labels, Statuses, Flights
  <2> QED
    BY <2>2, <2>3 DEF WInv, Rest
<1>1. CASE Advance
  <2>1. WorldOK'
    BY <1>0, <1>1 DEF WorldOK, Advance, family
  <2>2. LoopOK' /\ BudgetOK'
    BY <1>0, <1>1 DEF LoopOK, BudgetOK, Advance, loop
  <2> QED
    BY <1>a, <1>1, <2>1, <2>2 DEF Advance, loop
<1>2. ASSUME NEW q \in Parents, Family(q)
      PROVE  WInv'
  <2>1. CASE AddHomework(q)
    <3>1. WorldOK'
      BY <1>0, <2>1 DEF WorldOK, AddHomework
    <3>2. LoopOK' /\ BudgetOK'
      BY <1>0, <2>1 DEF LoopOK, BudgetOK, AddHomework, loop
    <3> QED
      BY <1>a, <2>1, <3>1, <3>2 DEF AddHomework, loop
  <2>2. CASE SwitchWeekly(q)
    <3>1. WorldOK'
      BY <1>0, <2>2 DEF WorldOK, SwitchWeekly
    <3>2. LoopOK' /\ BudgetOK'
      BY <1>0, <2>2 DEF LoopOK, BudgetOK, SwitchWeekly, loop
    <3> QED
      BY <1>a, <2>2, <3>1, <3>2 DEF SwitchWeekly, loop
  <2>3. CASE ChangeConsent(q)
    <3>1. WorldOK'
      BY <1>0, <2>3 DEF WorldOK, ChangeConsent
    <3>2. LoopOK' /\ BudgetOK'
      BY <1>0, <2>3 DEF LoopOK, BudgetOK, ChangeConsent, loop
    <3> QED
      BY <1>a, <2>3, <3>1, <3>2 DEF ChangeConsent, loop
  <2> QED
    BY <1>2, <2>1, <2>2, <2>3 DEF Family
<1>3. ASSUME NEW p \in Procs, Sigterm(p)
      PROVE  WInv'
  <2>1. WorldOK'
    BY <1>0, <1>3 DEF WorldOK, Sigterm, family
  <2>2. LoopOK' /\ BudgetOK'
    BY <1>0, <1>3 DEF LoopOK, BudgetOK, Sigterm, Failed
  <2> QED
    BY <1>a, <1>3, <2>1, <2>2 DEF Sigterm
<1> QED
  BY <1>1, <1>2, <1>3

LEMMA TypePartsNext ==
    ASSUME WorldOK', LoopOK', FlightOK', MarkOK', InboxOK', CutOK', AlarmsOK', BudgetOK'
    PROVE  TypeOK'
BY DEF TypeOK, WorldOK, LoopOK, FlightOK, MarkOK, InboxOK, CutOK, AlarmsOK, BudgetOK,
       Labels, Statuses, Flights

\* What most steps of a process leave alone.
LEMMA RestKept ==
    ASSUME TypeOK, UNCHANGED <<now, family, stop, missed, alarms>>,
           pc' \in [Procs -> Labels], rest' \in [Procs -> SUBSET Parents], BudgetOK',
           FlightOK', MarkOK', InboxOK', CutOK'
    PROVE  TypeOK'
<1>0. WorldOK /\ LoopOK /\ AlarmsOK
  BY TypeParts
<1>1. WorldOK'
  BY <1>0 DEF WorldOK, family
<1>2. LoopOK'
  BY <1>0 DEF LoopOK
<1>3. AlarmsOK'
  BY <1>0 DEF AlarmsOK
<1> QED
  BY <1>1, <1>2, <1>3, TypePartsNext

\* A calm step that leaves the rest alone.
LEMMA CalmKeeps ==
    ASSUME WInv, NEW p \in Procs, NEW l \in Labels, NEW f \in Flights, Moves(p, l, f),
           UNCHANGED <<now, family, stop, missed, alarms, mark, inbox>>,
           rest' \in [Procs -> SUBSET Parents], BudgetOK',
           cut \subseteq cut', CutOK',
           l \notin Handling,
           pc[p] \in Handling => Pair(p) \in cut',
           l \in {"select", "next", "claim"} => f.slot \in Slots,
           l = "claim" => f.who \in Parents
    PROVE  WInv'
<1>0. /\ WorldOK /\ LoopOK /\ FlightOK /\ MarkOK
      /\ InboxOK /\ CutOK /\ AlarmsOK /\ BudgetOK /\ Rest /\ Placed /\ TypeOK
  BY TypeParts DEF WInv, Rest
<1>1. /\ FlightOK' /\ pc' \in [Procs -> Labels]
      /\ pc'[p] = l /\ flight'[p] = f
      /\ \A r \in Procs : r # p => pc'[r] = pc[r] /\ flight'[r] = flight[r]
  BY <1>0, MoveFacts
<1>2. MarkOK' /\ InboxOK'
  BY <1>0 DEF MarkOK, InboxOK
<1>3. TypeOK'
  BY <1>0, <1>1, <1>2, RestKept
<1>4. Calm(p)
  BY <1>1 DEF Calm
<1>5. Rest'
  BY <1>0, <1>4, CalmStep
<1> QED
  BY <1>3, <1>5 DEF WInv, Rest

LEMMA PassSteps ==
    ASSUME WInv, NEW p \in Procs,
           Pass(p) \/ Start(p) \/ Exit(p) \/ SelectFails(p) \/ Die(p)
    PROVE  WInv'
<1>0. /\ WorldOK /\ LoopOK /\ FlightOK /\ MarkOK
      /\ InboxOK /\ CutOK /\ AlarmsOK /\ BudgetOK /\ Rest /\ Placed /\ TypeOK
  BY TypeParts DEF WInv, Rest
<1>a. rest \in [Procs -> SUBSET Parents] /\ flight[p] \in Flights /\ flight \in [Procs -> Flights]
  BY <1>0 DEF LoopOK, FlightOK
<1>b. Ready(NoSlot) \in Flights
  BY ReadyType
<1>1. CASE Tick(p)
  <2>1. PICK s \in Slots : Moves(p, "select", Ready(s))
    BY <1>0, <1>1, TickMove
  <2>2. /\ UNCHANGED <<now, family, stop, missed, alarms, mark, inbox>>
        /\ UNCHANGED <<rest, cut, budget>> /\ pc[p] = "idle"
    BY <1>1 DEF Tick
  <2>3. Ready(s) \in Flights /\ Ready(s).slot \in Slots /\ "select" \in Labels
    BY ReadyType DEF Labels
  <2>4. BudgetOK' /\ CutOK' /\ cut \subseteq cut'
    BY <1>0, <2>2 DEF BudgetOK, CutOK
  <2>5. "select" \notin Handling /\ pc[p] \notin Handling
    BY <2>2 DEF Handling
  <2> QED
    BY <1>a, <2>1, <2>2, <2>3, <2>4, <2>5, CalmKeeps
<1>2. CASE NoteMissed(p)
  <2>1. /\ UNCHANGED <<now, family, mark, pc, rest, flight, stop, inbox, cut, budget>>
        /\ missed' = [missed EXCEPT ![p] = LastSlot(now, Sched)]
        /\ alarms' = IF Due(LastSlot(now, Sched)) # {} THEN alarms \union {LastSlot(now, Sched)}
                     ELSE alarms
    BY <1>2 DEF NoteMissed
  <2>2. LastSlot(now, Sched) \in Slots
    BY <1>0, SlotNow DEF WorldOK
  <2>3. LoopOK' /\ AlarmsOK'
    BY <1>0, <2>1, <2>2 DEF LoopOK, AlarmsOK
  <2>4. WorldOK'
    BY <1>0, <2>1 DEF WorldOK, family
  <2>5. FlightOK' /\ MarkOK' /\ InboxOK' /\ CutOK' /\ BudgetOK'
    BY <1>0, <2>1 DEF FlightOK, MarkOK, InboxOK, CutOK, BudgetOK
  <2>6. Rest'
    BY <1>0, <2>1, StillStep
  <2> QED
    BY <2>3, <2>4, <2>5, <2>6, TypePartsNext DEF WInv, Rest
<1>3. CASE Select(p)
  <2>1. /\ UNCHANGED <<now, family, stop, missed, alarms, mark, inbox>>
        /\ UNCHANGED <<flight, cut, budget>> /\ pc[p] = "select"
        /\ rest' = [rest EXCEPT ![p] = Due(flight[p].slot)] /\ Goto(p, "next")
    BY <1>3 DEF Select
  <2>2. rest' \in [Procs -> SUBSET Parents]
    BY <1>a, <2>1 DEF Due
  <2>3. Moves(p, "next", flight[p])
    BY <1>a, <2>1 DEF Moves
  <2>4. BudgetOK' /\ CutOK' /\ cut \subseteq cut'
    BY <1>0, <2>1 DEF BudgetOK, CutOK
  <2>5. /\ "next" \notin Handling /\ pc[p] \notin Handling /\ "next" \in Labels
        /\ flight[p].slot \in Slots
    BY <1>0, <2>1 DEF Handling, Labels, Placed
  <2> QED
    BY <1>a, <2>1, <2>2, <2>3, <2>4, <2>5, CalmKeeps
<1>4. CASE EndOfPass(p)
  <2>1. /\ UNCHANGED <<now, family, stop, missed, alarms, mark, inbox>>
        /\ UNCHANGED <<cut, budget>> /\ pc[p] = "next" /\ Leave(p, "idle")
    BY <1>4 DEF EndOfPass
  <2>2. Moves(p, "idle", Ready(NoSlot)) /\ rest' \in [Procs -> SUBSET Parents]
    BY <1>0, <2>1, LeaveMove
  <2>4. BudgetOK' /\ CutOK' /\ cut \subseteq cut'
    BY <1>0, <2>1 DEF BudgetOK, CutOK
  <2>5. "idle" \notin Handling /\ pc[p] \notin Handling /\ "idle" \in Labels
    BY <2>1 DEF Handling, Labels
  <2> QED
    BY <1>b, <2>1, <2>2, <2>4, <2>5, CalmKeeps
<1>5. CASE NextParent(p)
  <2>1. /\ UNCHANGED <<now, family, stop, missed, alarms, mark, inbox>>
        /\ UNCHANGED <<cut, budget>> /\ pc[p] = "next"
    BY <1>5 DEF NextParent
  <2>2. rest' \in [Procs -> SUBSET Parents]
    BY <1>0, <1>5, NextMove
  <2>3. PICK q \in Parents : Moves(p, "claim", [flight[p] EXCEPT !.who = q])
    BY <1>0, <1>5, NextMove
  <2>4. BudgetOK' /\ CutOK' /\ cut \subseteq cut'
    BY <1>0, <2>1 DEF BudgetOK, CutOK
  <2>5. [flight[p] EXCEPT !.who = q] \in Flights
    BY <1>0, FlightField
  <2>6. [flight[p] EXCEPT !.who = q].who = q
        /\ [flight[p] EXCEPT !.who = q].slot = flight[p].slot
    BY <1>a DEF Flights
  <2>7. /\ "claim" \notin Handling /\ pc[p] \notin Handling /\ "claim" \in Labels
        /\ flight[p].slot \in Slots
    BY <1>0, <2>1 DEF Handling, Labels, Placed
  <2> QED
    BY <2>1, <2>2, <2>3, <2>4, <2>5, <2>6, <2>7, CalmKeeps
<1>6. CASE Start(p)
  <2>1. /\ UNCHANGED <<now, family, mark, rest, flight, inbox, cut, alarms, budget>>
        /\ stop' = [stop EXCEPT ![p] = FALSE]
        /\ missed' = [missed EXCEPT ![p] = NoSlot]
        /\ Goto(p, "idle") /\ pc[p] = "down"
    BY <1>6 DEF Start
  <2>2. /\ pc' \in [Procs -> Labels] /\ pc'[p] = "idle"
        /\ \A r \in Procs : r # p => pc'[r] = pc[r]
    BY <1>0, <2>1, PcChange DEF Labels
  <2>3. LoopOK'
    BY <1>0, <2>1, <2>2 DEF LoopOK
  <2>4. WorldOK'
    BY <1>0, <2>1 DEF WorldOK, family
  <2>5. FlightOK' /\ MarkOK' /\ InboxOK' /\ CutOK' /\ BudgetOK' /\ AlarmsOK'
    BY <1>0, <2>1 DEF FlightOK, MarkOK, InboxOK, CutOK, BudgetOK, AlarmsOK
  <2>6. Calm(p)
    BY <2>1, <2>2 DEF Calm, Handling
  <2>7. Rest'
    BY <1>0, <2>6, CalmStep
  <2> QED
    BY <2>3, <2>4, <2>5, <2>7, TypePartsNext DEF WInv, Rest
<1>7. CASE Exit(p)
  <2>1. /\ UNCHANGED <<now, family, stop, missed, alarms, mark, inbox>>
        /\ UNCHANGED <<rest, flight, cut, budget>> /\ pc[p] = "idle" /\ Goto(p, "down")
    BY <1>7 DEF Exit
  <2>3. Moves(p, "down", flight[p])
    BY <1>a, <2>1 DEF Moves
  <2>4. BudgetOK' /\ CutOK' /\ cut \subseteq cut'
    BY <1>0, <2>1 DEF BudgetOK, CutOK
  <2>5. "down" \notin Handling /\ pc[p] \notin Handling /\ "down" \in Labels
    BY <2>1 DEF Handling, Labels
  <2> QED
    BY <1>a, <2>1, <2>3, <2>4, <2>5, CalmKeeps
<1>8. CASE SelectFails(p)
  <2>1. /\ UNCHANGED <<now, family, stop, missed, alarms, mark, inbox>>
        /\ UNCHANGED cut /\ pc[p] = "select" /\ Leave(p, "idle") /\ Failed
    BY <1>8 DEF SelectFails
  <2>2. Moves(p, "idle", Ready(NoSlot)) /\ rest' \in [Procs -> SUBSET Parents]
    BY <1>0, <2>1, LeaveMove
  <2>4. BudgetOK' /\ CutOK' /\ cut \subseteq cut'
    BY <1>0, <2>1 DEF BudgetOK, CutOK, Failed
  <2>5. "idle" \notin Handling /\ pc[p] \notin Handling /\ "idle" \in Labels
    BY <2>1 DEF Handling, Labels
  <2> QED
    BY <1>b, <2>1, <2>2, <2>4, <2>5, CalmKeeps
<1>9. CASE Die(p)
  <2>1. /\ UNCHANGED <<now, family, stop, missed, alarms, mark, inbox>>
        /\ Leave(p, "down") /\ (UNCHANGED budget \/ Failed)
        /\ cut' = IF pc[p] \in Handling THEN cut \union {Pair(p)} ELSE cut
    BY <1>9 DEF Die
  <2>2. Moves(p, "down", Ready(NoSlot)) /\ rest' \in [Procs -> SUBSET Parents]
    BY <1>0, <2>1, LeaveMove
  <2>3. pc[p] \in Handling => Pair(p) \in Parents \X Slots
    BY <1>0 DEF Placed, Pair
  <2>4. BudgetOK'
    BY <1>0, <2>1 DEF BudgetOK, Failed
  <2>5. CutOK' /\ cut \subseteq cut' /\ (pc[p] \in Handling => Pair(p) \in cut')
    BY <1>0, <2>1, <2>3 DEF CutOK
  <2>6. "down" \notin Handling /\ "down" \in Labels
    BY DEF Handling, Labels
  <2> QED
    BY <1>b, <2>1, <2>2, <2>4, <2>5, <2>6, CalmKeeps
<1> QED
  BY <1>1, <1>2, <1>3, <1>4, <1>5, <1>6, <1>7, <1>8, <1>9 DEF Pass

LEMMA ClaimSteps ==
    ASSUME WInv, NEW p \in Procs, Claim(p) \/ ClaimFails(p)
    PROVE  WInv'
<1>0. /\ WorldOK /\ LoopOK /\ FlightOK /\ MarkOK
      /\ InboxOK /\ CutOK /\ AlarmsOK /\ BudgetOK /\ Rest /\ Placed /\ TypeOK
  BY TypeParts DEF WInv, Rest
<1>a. rest \in [Procs -> SUBSET Parents] /\ flight[p] \in Flights
  BY <1>0 DEF LoopOK, FlightOK
<1>b. /\ pc[p] = "claim" /\ pc[p] \notin Handling
      /\ flight[p].who \in Parents /\ flight[p].slot \in Slots
      /\ UNCHANGED <<now, family, stop, missed, alarms, inbox>>
  BY <1>0 DEF Claim, ClaimFails, Placed, Handling
<1>c. Pair(p) \in Parents \X Slots
  BY <1>b DEF Pair
<1>1. CASE Claim(p) /\ MarkOf(p) = "none" /\ ClaimSet(p)
  <2>1. Moves(p, "collect", flight[p])
    BY <1>0, <1>1, <1>b, ClaimMove
  <2>2. flight[p] \in Flights
    BY <1>a
  <2>3. "collect" \in Labels
    BY DEF Labels, Handling
  <2>4. /\ FlightOK' /\ pc' \in [Procs -> Labels]
        /\ pc'[p] = "collect" /\ flight'[p] = flight[p]
        /\ \A r \in Procs : r # p => pc'[r] = pc[r] /\ flight'[r] = flight[r]
    BY <1>0, <2>1, <2>2, <2>3, MoveFacts
  <2>5. UNCHANGED <<rest, cut, budget>>
    BY <1>1 DEF Claim
  <2>6. SetMark(p, "sending") /\ "sending" \in Statuses
    BY <1>1 DEF ClaimSet, Statuses
  <2>7. /\ MarkOK'
        /\ mark'[flight[p].who][flight[p].slot] = "sending"
        /\ \A q \in Parents, s \in Slots : <<q, s>> # Pair(p) => mark'[q][s] = mark[q][s]
    BY <1>0, <1>b, <2>6, MarkChange
  <2>8. Marks(p)
    BY <1>1, <1>b, <2>2, <2>4, <2>5, <2>7 DEF Marks
  <2>9. InboxOK' /\ CutOK' /\ BudgetOK'
    BY <1>0, <1>b, <2>5 DEF InboxOK, CutOK, BudgetOK
  <2>10. TypeOK'
    BY <1>0, <1>a, <1>b, <2>4, <2>5, <2>7, <2>9, RestKept
  <2>11. Rest'
    BY <1>0, <2>8, MarkStep
  <2> QED
    BY <2>10, <2>11 DEF WInv, Rest
<1>2. CASE Claim(p) /\ GoOn(p) /\ UNCHANGED mark
  <2>1. UNCHANGED <<rest, cut, budget>>
    BY <1>2 DEF Claim
  <2>2. Moves(p, "next", Ready(flight[p].slot))
    BY <1>0, <1>2, GoOnMove
  <2>3. Ready(flight[p].slot) \in Flights /\ Ready(flight[p].slot).slot \in Slots
    BY <1>b, ReadyType
  <2>4. BudgetOK' /\ CutOK' /\ cut \subseteq cut'
    BY <1>0, <2>1 DEF BudgetOK, CutOK
  <2>5. "next" \notin Handling /\ "next" \in Labels
    BY DEF Handling, Labels
  <2> QED
    BY <1>2, <1>a, <1>b, <2>1, <2>2, <2>3, <2>4, <2>5, CalmKeeps
<1>3. CASE ClaimFails(p)
  <2>1. Leave(p, "idle") /\ Failed
    BY <1>3 DEF ClaimFails
  <2>2. Moves(p, "idle", Ready(NoSlot)) /\ rest' \in [Procs -> SUBSET Parents]
    BY <1>0, <2>1, LeaveMove
  <2>3. BudgetOK'
    BY <1>0, <2>1 DEF BudgetOK, Failed
  <2>4. "idle" \notin Handling /\ "idle" \in Labels /\ Ready(NoSlot) \in Flights
    BY ReadyType DEF Handling, Labels
  <2>5. CASE UNCHANGED <<mark, cut>>
    <3>1. CutOK' /\ cut \subseteq cut'
      BY <1>0, <2>5 DEF CutOK
    <3> QED
      BY <1>b, <2>2, <2>3, <2>4, <2>5, <3>1, CalmKeeps
  <2>6. CASE MarkOf(p) = "none" /\ SetMark(p, "sending") /\ cut' = cut \union {Pair(p)}
    <3>1. /\ FlightOK' /\ pc' \in [Procs -> Labels]
          /\ pc'[p] = "idle"
          /\ \A r \in Procs : r # p => pc'[r] = pc[r] /\ flight'[r] = flight[r]
      BY <1>0, <2>2, <2>4, MoveFacts
    <3>2. "sending" \in Statuses
      BY DEF Statuses
    <3>3. /\ MarkOK'
          /\ mark'[flight[p].who][flight[p].slot] = "sending"
          /\ \A q \in Parents, s \in Slots : <<q, s>> # Pair(p) => mark'[q][s] = mark[q][s]
      BY <1>0, <1>b, <2>6, <3>2, MarkChange
    <3>4. Marks(p)
      BY <1>b, <2>6, <3>1, <3>3 DEF Marks
    <3>5. InboxOK' /\ CutOK'
      BY <1>0, <1>b, <1>c, <2>6 DEF InboxOK, CutOK
    <3>6. TypeOK'
      BY <1>0, <1>b, <2>2, <2>3, <3>1, <3>3, <3>5, RestKept
    <3>7. Rest'
      BY <1>0, <3>4, MarkStep
    <3> QED
      BY <3>6, <3>7 DEF WInv, Rest
  <2> QED
    BY <1>3, <2>5, <2>6 DEF ClaimFails
<1> QED
  BY <1>1, <1>2, <1>3 DEF Claim

LEMMA CollectSteps ==
    ASSUME WInv, NEW p \in Procs, Collect(p) \/ CollectFails(p)
    PROVE  WInv'
<1>0. /\ WorldOK /\ LoopOK /\ FlightOK /\ MarkOK
      /\ InboxOK /\ CutOK /\ AlarmsOK /\ BudgetOK /\ Rest /\ Placed /\ TypeOK
  BY TypeParts DEF WInv, Rest
<1>a. rest \in [Procs -> SUBSET Parents] /\ flight[p] \in Flights
  BY <1>0 DEF LoopOK, FlightOK
<1>b. /\ pc[p] = "collect"
      /\ flight[p].who \in Parents /\ flight[p].slot \in Slots
      /\ UNCHANGED <<now, family, stop, missed, alarms>>
      /\ UNCHANGED <<rest, cut, budget, mark, inbox>>
  BY <1>0 DEF Collect, CollectFails, Placed, Handling
<1>1. ASSUME NEW l \in {"send", "finish"}, NEW f \in Flights, Moves(p, l, f),
             f.who = flight[p].who, f.slot = flight[p].slot,
             l = "finish" => f.outcome \in {"skipped", "failed"}
      PROVE  WInv'
  <2>1. l \in Labels
    BY DEF Labels, Handling
  <2>2. /\ FlightOK' /\ pc' \in [Procs -> Labels]
        /\ pc'[p] = l /\ flight'[p] = f
        /\ \A r \in Procs : r # p => pc'[r] = pc[r] /\ flight'[r] = flight[r]
    BY <1>0, <1>1, <2>1, MoveFacts
  <2>3. Prepares(p)
    BY <1>1, <1>b, <2>2 DEF Prepares
  <2>4. Rest'
    BY <1>0, <2>3, PrepareStep
  <2>5. MarkOK' /\ InboxOK' /\ CutOK' /\ BudgetOK'
    BY <1>0, <1>b DEF MarkOK, InboxOK, CutOK, BudgetOK
  <2>6. TypeOK'
    BY <1>0, <1>a, <1>b, <2>2, <2>5, RestKept
  <2> QED
    BY <2>4, <2>6 DEF WInv, Rest
<1>2. ASSUME NEW o \in {"skipped", "failed"}, Moves(p, "finish", [flight[p] EXCEPT !.outcome = o])
      PROVE  WInv'
  <2>1. o \in Outcomes
    BY DEF Outcomes
  <2>2. /\ [flight[p] EXCEPT !.outcome = o] \in Flights
        /\ [flight[p] EXCEPT !.outcome = o].who = flight[p].who
        /\ [flight[p] EXCEPT !.outcome = o].slot = flight[p].slot
        /\ [flight[p] EXCEPT !.outcome = o].outcome = o
    BY <1>0, <1>a, <2>1, FlightField DEF Flights
  <2> QED
    BY <1>1, <1>2, <2>2
<1>3. ASSUME NEW c \in SUBSET Moments, Moves(p, "send", [flight[p] EXCEPT !.content = c])
      PROVE  WInv'
  <2>2. /\ [flight[p] EXCEPT !.content = c] \in Flights
        /\ [flight[p] EXCEPT !.content = c].who = flight[p].who
        /\ [flight[p] EXCEPT !.content = c].slot = flight[p].slot
    BY <1>0, <1>a, FlightField DEF Flights
  <2> QED
    BY <1>1, <1>3, <2>2
<1>4. CASE CollectFails(p)
  <2>1. Moves(p, "finish", [flight[p] EXCEPT !.outcome = "failed"])
    BY <1>0, <1>4, EndsMove DEF CollectFails
  <2> QED
    BY <1>2, <2>1
<1>5. CASE Collect(p)
  BY <1>0, <1>2, <1>3, <1>5, <1>b, CollectMove
<1> QED
  BY <1>4, <1>5

LEMMA SendSteps ==
    ASSUME WInv, NEW p \in Procs, Send(p)
    PROVE  WInv'
<1>0. /\ WorldOK /\ LoopOK /\ FlightOK /\ MarkOK
      /\ InboxOK /\ CutOK /\ AlarmsOK /\ BudgetOK /\ Rest /\ Placed /\ TypeOK
  BY TypeParts DEF WInv, Rest
<1>a. rest \in [Procs -> SUBSET Parents] /\ flight[p] \in Flights
  BY <1>0 DEF LoopOK, FlightOK
<1>b. /\ pc[p] = "send"
      /\ flight[p].who \in Parents /\ flight[p].slot \in Slots
      /\ UNCHANGED <<now, family, stop, missed, alarms>>
      /\ UNCHANGED <<rest, cut, budget, mark>>
  BY <1>0 DEF Send, Placed, Handling
<1>1. PICK o \in {"sent", "failed"} :
         /\ Ends(p, o)
         /\ \/ inbox' = [inbox EXCEPT ![flight[p].who] = Append(@,
                            [slot |-> flight[p].slot, content |-> flight[p].content])]
            \/ o = "failed" /\ UNCHANGED inbox
  BY DEF Send
<1>2. o \in Outcomes /\ "finish" \in Labels
  BY DEF Outcomes, Labels, Handling
<1>3. /\ [flight[p] EXCEPT !.outcome = o] \in Flights
      /\ [flight[p] EXCEPT !.outcome = o].who = flight[p].who
      /\ [flight[p] EXCEPT !.outcome = o].slot = flight[p].slot
      /\ [flight[p] EXCEPT !.outcome = o].outcome = o
  BY <1>0, <1>a, <1>2, FlightField DEF Flights
<1>4. Moves(p, "finish", [flight[p] EXCEPT !.outcome = o])
  BY <1>0, <1>1, EndsMove
<1>5. /\ FlightOK' /\ pc' \in [Procs -> Labels]
      /\ pc'[p] = "finish" /\ flight'[p] = [flight[p] EXCEPT !.outcome = o]
      /\ \A r \in Procs : r # p => pc'[r] = pc[r] /\ flight'[r] = flight[r]
  BY <1>0, <1>2, <1>3, <1>4, MoveFacts
<1>6. MarkOK' /\ CutOK' /\ BudgetOK'
  BY <1>0, <1>b DEF MarkOK, CutOK, BudgetOK
<1>7. CASE o = "failed" /\ UNCHANGED inbox
  <2>1. Sends(p)
    BY <1>b, <1>3, <1>5, <1>7 DEF Sends
  <2>2. InboxOK'
    BY <1>0, <1>7 DEF InboxOK
  <2>3. TypeOK'
    BY <1>0, <1>a, <1>b, <1>5, <1>6, <2>2, RestKept
  <2> QED
    BY <1>0, <2>1, <2>3, SendStep DEF WInv, Rest
<1>8. CASE inbox' = [inbox EXCEPT ![flight[p].who] = Append(@,
                       [slot |-> flight[p].slot, content |-> flight[p].content])]
  <2> DEFINE report == [slot |-> flight[p].slot, content |-> flight[p].content]
  <2>1. report \in Reports /\ report.slot = flight[p].slot
    BY <1>a, <1>b DEF Flights, Reports
  <2>2. Arrives(flight[p].who, report)
    BY <1>8 DEF Arrives
  <2> HIDE DEF report
  <2>3. InboxOK'
    BY <1>0, <1>b, <2>1, <2>2, InboxGrows
  <2>4. Sends(p)
    BY <1>b, <1>3, <1>5, <2>1, <2>2 DEF Sends
  <2>5. TypeOK'
    BY <1>0, <1>a, <1>b, <1>5, <1>6, <2>3, RestKept
  <2> QED
    BY <1>0, <2>4, <2>5, SendStep DEF WInv, Rest
<1> QED
  BY <1>1, <1>7, <1>8

LEMMA FinishSteps ==
    ASSUME WInv, NEW p \in Procs, Finish(p) \/ FinishFails(p)
    PROVE  WInv'
<1>0. /\ WorldOK /\ LoopOK /\ FlightOK /\ MarkOK
      /\ InboxOK /\ CutOK /\ AlarmsOK /\ BudgetOK /\ Rest /\ Placed /\ TypeOK
  BY TypeParts DEF WInv, Rest
<1>a. rest \in [Procs -> SUBSET Parents] /\ flight[p] \in Flights
  BY <1>0 DEF LoopOK, FlightOK
<1>b. /\ pc[p] = "finish" /\ pc[p] \in Handling
      /\ flight[p].who \in Parents /\ flight[p].slot \in Slots /\ flight[p].outcome \in Outcomes
      /\ UNCHANGED <<now, family, stop, missed, alarms, inbox>>
  BY <1>0 DEF Finish, FinishFails, Placed, Handling
<1>c. Pair(p) \in Parents \X Slots
  BY <1>b DEF Pair
<1>1. ASSUME NEW l \in {"idle", "next"}, NEW f \in Flights, Moves(p, l, f),
             SetMark(p, flight[p].outcome), l = "next" => f.slot \in Slots,
             UNCHANGED cut, rest' \in [Procs -> SUBSET Parents], BudgetOK'
      PROVE  WInv'
  <2>1. l \in Labels
    BY DEF Labels
  <2>2. /\ FlightOK' /\ pc' \in [Procs -> Labels]
        /\ pc'[p] = l /\ flight'[p] = f
        /\ \A r \in Procs : r # p => pc'[r] = pc[r] /\ flight'[r] = flight[r]
    BY <1>0, <1>1, <2>1, MoveFacts
  <2>3. flight[p].outcome \in Statuses
    BY <1>b DEF Statuses
  <2>4. /\ MarkOK'
        /\ mark'[flight[p].who][flight[p].slot] = flight[p].outcome
        /\ \A q \in Parents, s \in Slots : <<q, s>> # Pair(p) => mark'[q][s] = mark[q][s]
    BY <1>0, <1>1, <1>b, <2>3, MarkChange
  <2>5. Closes(p)
    BY <1>1, <1>b, <2>2, <2>4 DEF Closes
  <2>6. InboxOK' /\ CutOK'
    BY <1>0, <1>1, <1>b DEF InboxOK, CutOK
  <2>7. TypeOK'
    BY <1>0, <1>1, <1>b, <2>2, <2>4, <2>6, RestKept
  <2> QED
    BY <1>0, <2>5, <2>7, CloseStep DEF WInv, Rest
<1>2. CASE Finish(p)
  <2>1. UNCHANGED <<rest, cut, budget>> /\ GoOn(p) /\ SetMark(p, flight[p].outcome)
    BY <1>2 DEF Finish
  <2>2. Moves(p, "next", Ready(flight[p].slot))
    BY <1>0, <2>1, GoOnMove
  <2>3. Ready(flight[p].slot) \in Flights /\ Ready(flight[p].slot).slot \in Slots
    BY <1>b, ReadyType
  <2>4. BudgetOK'
    BY <1>0, <2>1 DEF BudgetOK
  <2> QED
    BY <1>1, <1>a, <2>1, <2>2, <2>3, <2>4
<1>3. CASE FinishFails(p)
  <2>1. Leave(p, "idle") /\ Failed
    BY <1>3 DEF FinishFails
  <2>2. Moves(p, "idle", Ready(NoSlot)) /\ rest' \in [Procs -> SUBSET Parents]
    BY <1>0, <2>1, LeaveMove
  <2>3. BudgetOK'
    BY <1>0, <2>1 DEF BudgetOK, Failed
  <2>4. "idle" \notin Handling /\ "idle" \in Labels /\ Ready(NoSlot) \in Flights
    BY ReadyType DEF Handling, Labels
  <2>5. CASE UNCHANGED mark /\ cut' = cut \union {Pair(p)}
    <3>1. CutOK' /\ cut \subseteq cut' /\ Pair(p) \in cut'
      BY <1>0, <1>c, <2>5 DEF CutOK
    <3> QED
      BY <1>b, <2>2, <2>3, <2>4, <2>5, <3>1, CalmKeeps
  <2>6. CASE SetMark(p, flight[p].outcome) /\ UNCHANGED cut
    BY <1>1, <2>2, <2>3, <2>4, <2>6
  <2> QED
    BY <1>3, <2>5, <2>6 DEF FinishFails
<1> QED
  BY <1>2, <1>3

LEMMA StepHolds == WInv /\ [Next]_vars => WInv'
<1> SUFFICES ASSUME WInv, [Next]_vars PROVE WInv'
  OBVIOUS
<1>1. CASE Advance \/ (\E q \in Parents : Family(q)) \/ (\E p \in Procs : Sigterm(p))
  BY <1>1, WorldSteps
<1>2. ASSUME NEW p \in Procs, Pass(p) \/ Start(p) \/ Exit(p) \/ SelectFails(p) \/ Die(p)
      PROVE  WInv'
  BY <1>2, PassSteps
<1>3. ASSUME NEW p \in Procs, Report(p) \/ ClaimFails(p) \/ FinishFails(p)
      PROVE  WInv'
  BY <1>3, ClaimSteps, CollectSteps, SendSteps, FinishSteps DEF Report
<1>4. CASE UNCHANGED vars
  BY <1>4 DEF vars, loop, family, WInv, TypeOK, Placed, Claimed, Unsent, Known, OneHandler,
     AtMostOneReport, MarksTruthful, NoMarkAbandoned, MarkOf, Pair, Got
<1>5. CASE Next
  BY <1>1, <1>2, <1>3, <1>5 DEF Next, Trouble
<1> QED
  BY <1>4, <1>5

-----------------------------------------------------------------------------
(***************************************************************************)
(* Theorems.                                                               *)
(***************************************************************************)

\* What the other theorems follow from: the marks of db/reports.py, the processes and
\* what the parents got fit together in every state.
THEOREM ReportInvariance == Spec => []WInv
<1>1. Init => WInv
  BY InitHolds
<1>2. WInv /\ [Next]_vars => WInv'
  BY StepHolds
<1> QED
  BY <1>1, <1>2, PTL DEF Spec

\* The variables keep their types (db/reports.py:30: what a mark becomes).
THEOREM ReportTypeCorrect == Spec => []TypeOK
<1>1. WInv => TypeOK
  BY DEF WInv
<1> QED
  BY <1>1, ReportInvariance, PTL

\* A parent gets the report of a week at most once, whatever crashes, restarts or runs
\* beside (report_schedule.py:7-9, db/reports.py:8-10).
THEOREM ReportsAreUnique == Spec => []AtMostOneReport
<1>1. WInv => AtMostOneReport
  BY DEF WInv
<1> QED
  BY <1>1, ReportInvariance, PTL

\* Two processes never handle the same report: claim_weekly() lets one of them through.
THEOREM HandlersAreAlone == Spec => []OneHandler
<1>1. WInv => OneHandler
  BY DEF WInv
<1> QED
  BY <1>1, ReportInvariance, PTL

\* What went out has its mark, `sent` says that it did, `skipped` that it did not
\* (the table in docs/deploy.md).
THEOREM MarksAreTruthful == Spec => []MarksTruthful
<1>1. WInv => MarksTruthful
  BY DEF WInv
<1> QED
  BY <1>1, ReportInvariance, PTL

\* A mark stays on `sending` only where a failure fell between the mark and the outcome.
THEOREM MarksAreClosed == Spec => []NoMarkAbandoned
<1>1. WInv => NoMarkAbandoned
  BY DEF WInv
<1> QED
  BY <1>1, ReportInvariance, PTL

\* The marks keep their types, tell the truth and are closed by whoever made them
\* (report_schedule.py:192-234).
THEOREM MarksAreSound == Spec => []MarksSound
<1>1. TypeOK /\ MarksTruthful /\ NoMarkAbandoned => MarksSound
  BY DEF MarksSound
<1> QED
  BY <1>1, ReportTypeCorrect, MarksAreTruthful, MarksAreClosed, PTL
-----------------------------------------------------------------------------
(***************************************************************************)
(* What is in the reports.  A report is read when its week is over, so     *)
(* that nothing can be added to it: WContent says that the slots processes *)
(* and parents hold are past, that a report on its way and the reports     *)
(* that went out are those of their weeks, and that each of them, or the   *)
(* one of the week before, has a homework.                                 *)
(***************************************************************************)
Busy == {"select", "next", "claim"} \union Handling

\* A week is worth a message: it has a homework, or the week before it has.
Worth(q, s) == Week1(q, s) # {} \/ Week0(q, s) # {}

Past ==
    /\ \A p \in Procs : pc[p] \in Busy => flight[p].slot <= now
    /\ \A q \in Parents : \A i \in 1..Len(inbox[q]) : inbox[q][i].slot <= now

Gathered ==
    \A p \in Procs :
        pc[p] = "send" => /\ flight[p].content = Week1(flight[p].who, flight[p].slot)
                          /\ Worth(flight[p].who, flight[p].slot)

Reported ==
    \A q \in Parents : \A i \in 1..Len(inbox[q]) :
        /\ inbox[q][i].content = Week1(q, inbox[q][i].slot)
        /\ Worth(q, inbox[q][i].slot)

WContent == Past /\ Gathered /\ Reported

LEMMA Instants ==
    ASSUME TypeOK
    PROVE  /\ now \in Int /\ LastSlot(now, Sched) \in Slots /\ LastSlot(now, Sched) <= now
           /\ \A s \in Slots : s \in Int
<1>1. Moments \subseteq Int /\ Sched \in Schedules
  BY WeeklyAssumption
<1>2. now \in Moments
  BY TypeParts DEF WorldOK
<1>3. \A m \in Int : LastSlot(m, Sched) \in Int /\ LastSlot(m, Sched) <= m
  BY <1>1, LastSlotFacts
<1> QED
  BY <1>1, <1>2, <1>3 DEF Slots

\* A process moves on to a place where it holds no slot, takes up the slot of the last Sunday,
\* keeps its slot, stays where it is, or has put its report together.
Follows(p) ==
    \/ pc'[p] \notin Busy
    \/ /\ pc'[p] = "select" /\ flight'[p].slot = LastSlot(now, Sched)
       /\ Deliverable(now, flight'[p].slot, Sched)
    \/ /\ pc[p] \in Busy /\ pc'[p] \in Busy \ {"send"}
       /\ flight'[p].slot = flight[p].slot
    \/ pc'[p] = pc[p] /\ flight'[p] = flight[p]
    \/ /\ pc[p] = "collect" /\ pc'[p] = "send"
       /\ flight'[p].who = flight[p].who /\ flight'[p].slot = flight[p].slot
       /\ flight'[p].content = Week1(flight[p].who, flight[p].slot)
       /\ Worth(flight[p].who, flight[p].slot)

\* One process moves, and no time passes meanwhile.
OneMoves(p) ==
    /\ UNCHANGED <<now, homework>>
    /\ \A r \in Procs : r # p => pc'[r] = pc[r] /\ flight'[r] = flight[r]
    /\ Follows(p)

\* A report reaches its parent.
Lands(p) ==
    /\ pc[p] = "send"
    /\ inbox' = [inbox EXCEPT ![flight[p].who] =
                    Append(@, [slot |-> flight[p].slot, content |-> flight[p].content])]

\* What Moves says of a step between places that hold a slot.
LEMMA KeepsSlot ==
    ASSUME TypeOK, NEW p \in Procs, NEW l \in Labels, NEW f \in Flights, Moves(p, l, f),
           UNCHANGED <<now, homework>>,
           \/ l \notin Busy
           \/ /\ l = "select" /\ f.slot = LastSlot(now, Sched)
              /\ Deliverable(now, f.slot, Sched)
           \/ pc[p] \in Busy /\ l \in Busy \ {"send"} /\ f.slot = flight[p].slot
           \/ /\ pc[p] = "collect" /\ l = "send" /\ f.who = flight[p].who
              /\ f.slot = flight[p].slot /\ f.content = Week1(flight[p].who, flight[p].slot)
              /\ Worth(flight[p].who, flight[p].slot)
    PROVE  OneMoves(p)
<1>1. /\ pc'[p] = l /\ flight'[p] = f
      /\ \A r \in Procs : r # p => pc'[r] = pc[r] /\ flight'[r] = flight[r]
  BY MoveFacts
<1> QED
  BY <1>1 DEF OneMoves, Follows

\* Records of flights: what the updates of the model keep.
LEMMA FlightUpdates ==
    ASSUME NEW f \in Flights
    PROVE  /\ \A q \in Parents : /\ [f EXCEPT !.who = q] \in Flights
                                 /\ [f EXCEPT !.who = q].slot = f.slot
           /\ \A o \in Outcomes : /\ [f EXCEPT !.outcome = o] \in Flights
                                  /\ [f EXCEPT !.outcome = o].slot = f.slot
           /\ \A c \in SUBSET Moments : /\ [f EXCEPT !.content = c] \in Flights
                                        /\ [f EXCEPT !.content = c].slot = f.slot
                                        /\ [f EXCEPT !.content = c].who = f.who
                                        /\ [f EXCEPT !.content = c].content = c
           /\ Ready(f.slot) \in Flights /\ Ready(f.slot).slot = f.slot
           /\ Ready(NoSlot) \in Flights
BY DEF Flights, Ready

LEMMA PassMoves ==
    ASSUME WInv, NEW p \in Procs,
           Pass(p) \/ Start(p) \/ Exit(p) \/ SelectFails(p) \/ Die(p)
    PROVE  OneMoves(p) /\ UNCHANGED <<inbox, mark>>
<1>0. TypeOK /\ LoopOK /\ FlightOK /\ Placed
  BY TypeParts DEF WInv
<1>a. flight[p] \in Flights /\ flight \in [Procs -> Flights]
  BY <1>0 DEF FlightOK
<1>b. {"idle", "down", "select", "next", "claim"} \subseteq Labels /\ Labels \ {"idle", "down"} = Busy
  BY DEF Labels, Busy, Handling
<1>c. "idle" \notin Busy /\ "down" \notin Busy /\ "send" \in Busy /\ {"select", "next", "claim"} \subseteq Busy
  BY DEF Busy, Handling
<1>d. UNCHANGED <<now, homework>> /\ UNCHANGED <<inbox, mark>>
  BY DEF Pass, Tick, NoteMissed, Select, EndOfPass, NextParent, Start, Exit, SelectFails, Die,
         family
<1>1. CASE Tick(p)
  <2>1. LastSlot(now, Sched) \in Slots
    BY <1>0, Instants
  <2>2. Moves(p, "select", Ready(LastSlot(now, Sched)))
    BY <1>1 DEF Tick, Moves
  <2>3. Ready(LastSlot(now, Sched)) \in Flights
        /\ Ready(LastSlot(now, Sched)).slot = LastSlot(now, Sched)
    BY <2>1, ReadyType
  <2>4. Deliverable(now, LastSlot(now, Sched), Sched)
    BY <1>1 DEF Tick
  <2> QED
    BY <1>0, <1>b, <1>d, <2>2, <2>3, <2>4, KeepsSlot
<1>2. CASE NoteMissed(p)
  BY <1>2, <1>d DEF NoteMissed, OneMoves, Follows
<1>3. CASE Select(p)
  <2>1. Moves(p, "next", flight[p]) /\ pc[p] = "select"
    BY <1>3, <1>a DEF Select, Moves
  <2> QED
    BY <1>0, <1>a, <1>b, <1>c, <1>d, <2>1, KeepsSlot
<1>4. CASE EndOfPass(p)
  <2>1. Moves(p, "idle", Ready(NoSlot))
    BY <1>0, <1>4, LeaveMove DEF EndOfPass
  <2> QED
    BY <1>0, <1>a, <1>b, <1>c, <1>d, <2>1, FlightUpdates, KeepsSlot
<1>5. CASE NextParent(p)
  <2>1. PICK q \in Parents : Moves(p, "claim", [flight[p] EXCEPT !.who = q])
    BY <1>0, <1>5, NextMove
  <2>2. PICK f \in Flights : f = [flight[p] EXCEPT !.who = q] /\ f.slot = flight[p].slot
    BY <1>a, FlightUpdates
  <2>3. Moves(p, "claim", f)
    BY <2>1, <2>2
  <2>4. pc[p] = "next"
    BY <1>5 DEF NextParent
  <2> QED
    BY <1>0, <1>b, <1>c, <1>d, <2>2, <2>3, <2>4, KeepsSlot
<1>6. CASE Start(p)
  <2>1. Moves(p, "idle", flight[p])
    BY <1>6, <1>a DEF Start, Moves
  <2> QED
    BY <1>0, <1>a, <1>b, <1>c, <1>d, <2>1, KeepsSlot
<1>7. CASE Exit(p)
  <2>1. Moves(p, "down", flight[p])
    BY <1>7, <1>a DEF Exit, Moves
  <2> QED
    BY <1>0, <1>a, <1>b, <1>c, <1>d, <2>1, KeepsSlot
<1>8. CASE SelectFails(p)
  <2>1. Moves(p, "idle", Ready(NoSlot))
    BY <1>0, <1>8, LeaveMove DEF SelectFails
  <2> QED
    BY <1>0, <1>a, <1>b, <1>c, <1>d, <2>1, FlightUpdates, KeepsSlot
<1>9. CASE Die(p)
  <2>1. Moves(p, "down", Ready(NoSlot))
    BY <1>0, <1>9, LeaveMove DEF Die
  <2> QED
    BY <1>0, <1>a, <1>b, <1>c, <1>d, <2>1, FlightUpdates, KeepsSlot
<1> QED
  BY <1>1, <1>2, <1>3, <1>4, <1>5, <1>6, <1>7, <1>8, <1>9 DEF Pass

LEMMA ReportMoves ==
    ASSUME WInv, NEW p \in Procs, Report(p) \/ ClaimFails(p) \/ FinishFails(p) \/ Sigterm(p)
    PROVE  OneMoves(p) /\ (UNCHANGED inbox \/ Lands(p))
<1>0. TypeOK /\ FlightOK /\ Placed
  BY TypeParts DEF WInv
<1>a. flight[p] \in Flights /\ flight \in [Procs -> Flights]
  BY <1>0 DEF FlightOK
<1>b. {"idle", "next", "collect", "send", "finish"} \subseteq Labels
  BY DEF Labels, Handling
<1>c. /\ "idle" \notin Busy
      /\ {"next", "claim", "collect", "send", "finish"} \subseteq Busy
  BY DEF Busy, Handling
<1>d. UNCHANGED <<now, homework>>
  BY DEF Report, Claim, Collect, CollectFails, Send, Finish, ClaimFails, FinishFails, Sigterm,
         family
<1>1. ASSUME GoOn(p), pc[p] \in Busy
      PROVE  OneMoves(p)
  <2>1. Moves(p, "next", Ready(flight[p].slot))
    BY <1>0, <1>1, GoOnMove
  <2> QED
    BY <1>0, <1>1, <1>a, <1>b, <1>c, <1>d, <2>1, FlightUpdates, KeepsSlot
<1>2. ASSUME Leave(p, "idle")
      PROVE  OneMoves(p)
  <2>1. Moves(p, "idle", Ready(NoSlot))
    BY <1>0, <1>2, LeaveMove
  <2> QED
    BY <1>0, <1>a, <1>b, <1>c, <1>d, <2>1, FlightUpdates, KeepsSlot
<1>3. ASSUME NEW o \in Outcomes, Ends(p, o), pc[p] \in Busy
      PROVE  OneMoves(p)
  <2>1. Moves(p, "finish", [flight[p] EXCEPT !.outcome = o])
    BY <1>0, <1>3, EndsMove
  <2>2. PICK f \in Flights : f = [flight[p] EXCEPT !.outcome = o] /\ f.slot = flight[p].slot
    BY <1>a, FlightUpdates
  <2>3. Moves(p, "finish", f)
    BY <2>1, <2>2
  <2> QED
    BY <1>0, <1>3, <1>b, <1>c, <1>d, <2>2, <2>3, KeepsSlot
<1>4. {"sent", "failed", "skipped"} = Outcomes
  BY DEF Outcomes
<1>5. CASE Claim(p)
  <2>1. pc[p] = "claim" /\ UNCHANGED inbox
    BY <1>5 DEF Claim
  <2>2. CASE GoOn(p)
    BY <1>1, <1>c, <2>1, <2>2
  <2>3. CASE ClaimSet(p)
    <3>1. Moves(p, "collect", flight[p])
      BY <1>0, <2>1, <2>3, ClaimMove DEF Placed
    <3>2. "collect" \in Busy \ {"send"} /\ pc[p] \in Busy
      BY <1>c, <2>1
    <3> QED
      BY <1>0, <1>a, <1>b, <1>d, <2>1, <3>1, <3>2, KeepsSlot
  <2> QED
    BY <1>5, <2>1, <2>2, <2>3 DEF Claim
<1>6. CASE Collect(p)
  <2>1. pc[p] = "collect" /\ UNCHANGED inbox
    BY <1>6 DEF Collect
  <2>2. CASE Ends(p, "skipped")
    BY <1>3, <1>4, <1>c, <2>1, <2>2
  <2>3. CASE /\ Week1(flight[p].who, flight[p].slot) # {} \/ Week0(flight[p].who, flight[p].slot) # {}
             /\ flight' = [flight EXCEPT ![p].content = Week1(flight[p].who, flight[p].slot)]
             /\ Goto(p, "send")
    <3>1. Week1(flight[p].who, flight[p].slot) \in SUBSET Moments
      <4>1. homework \in [Parents -> SUBSET Moments]
        BY <1>0, TypeParts DEF WorldOK
      <4> QED
        BY <1>0, <2>1, <4>1 DEF Week1, Placed, Handling
    <3>2. PICK c \in SUBSET Moments : c = Week1(flight[p].who, flight[p].slot)
      BY <3>1
    <3>3. PICK f \in Flights : /\ f = [flight[p] EXCEPT !.content = c]
                               /\ f.slot = flight[p].slot /\ f.who = flight[p].who
                               /\ f.content = c
      BY <1>a, FlightUpdates
    <3>4. Moves(p, "send", f)
      BY <1>a, <2>3, <3>2, <3>3 DEF Moves
    <3> QED
      BY <1>0, <1>b, <1>c, <1>d, <2>1, <2>3, <3>2, <3>3, <3>4, KeepsSlot DEF Worth
  <2> QED
    BY <1>6, <2>1, <2>2, <2>3 DEF Collect
<1>7. CASE CollectFails(p)
  <2>1. pc[p] = "collect" /\ UNCHANGED inbox /\ Ends(p, "failed")
    BY <1>7 DEF CollectFails
  <2> QED
    BY <1>3, <1>4, <1>c, <2>1
<1>8. CASE Send(p)
  <2>1. PICK o \in {"sent", "failed"} :
           Ends(p, o) /\ (UNCHANGED inbox \/ Lands(p))
    BY <1>8 DEF Send, Lands
  <2>2. pc[p] = "send"
    BY <1>8 DEF Send
  <2> QED
    BY <1>3, <1>4, <1>c, <2>1, <2>2
<1>9. CASE Finish(p)
  BY <1>1, <1>9, <1>c DEF Finish
<1>10. CASE ClaimFails(p) \/ FinishFails(p)
  BY <1>2, <1>10 DEF ClaimFails, FinishFails
<1>11. CASE Sigterm(p)
  BY <1>11, <1>d DEF Sigterm, OneMoves, Follows
<1> QED
  BY <1>5, <1>6, <1>7, <1>8, <1>9, <1>10, <1>11 DEF Report

\* A week that is over is not added to: what is checked now falls into a later week.
LEMMA WeeksStand ==
    ASSUME TypeOK, NEW q \in Parents, NEW s \in Slots, s <= now,
           UNCHANGED homework \/ \E r \in Parents : AddHomework(r)
    PROVE  Week1(q, s)' = Week1(q, s) /\ Week0(q, s)' = Week0(q, s)
<1>1. now \in Int /\ s \in Int /\ homework \in [Parents -> SUBSET Moments] /\ Moments \subseteq Int
  BY Instants, TypeParts, WeeklyAssumption DEF WorldOK
<1>2. ~InPeriod(now, s) /\ ~InPreviousPeriod(now, s)
  BY <1>1, Lengths DEF InPeriod, InPreviousPeriod
<1>3. homework'[q] = homework[q] \/ homework'[q] = homework[q] \union {now}
  BY <1>1 DEF AddHomework
<1> QED
  BY <1>2, <1>3 DEF Week1, Week0

\* What a step that keeps the weeks leaves of WContent: nothing reaches a parent and no report
\* is put together, but in the ways of Follows and Lands.
LEMMA ContentKept ==
    ASSUME WInv, WContent, NEW p \in Procs, OneMoves(p), UNCHANGED inbox \/ Lands(p)
    PROVE  WContent'
<1>0. TypeOK /\ Placed /\ InboxOK
  BY TypeParts DEF WInv
<1>1. /\ now \in Int /\ LastSlot(now, Sched) \in Slots /\ LastSlot(now, Sched) <= now
      /\ \A s \in Slots : s \in Int
  BY <1>0, Instants
<1>2. now' = now /\ \A q, s : Week1(q, s)' = Week1(q, s) /\ Week0(q, s)' = Week0(q, s)
  BY DEF OneMoves, Week1, Week0
<1>3. \A r \in Procs : r # p => pc'[r] = pc[r] /\ flight'[r] = flight[r]
  BY DEF OneMoves
<1>4. \A q, s : Worth(q, s)' <=> Worth(q, s)
  BY <1>2 DEF Worth
<1>5. ASSUME NEW r \in Procs, pc'[r] \in Busy
      PROVE  flight'[r].slot <= now
  <2>1. CASE r # p
    BY <1>3, <1>5, <2>1 DEF WContent, Past
  <2>2. CASE r = p
    BY <1>1, <1>5, <2>2 DEF WContent, Past, OneMoves, Follows, Busy, Handling
  <2> QED
    BY <2>1, <2>2
<1>6. ASSUME NEW r \in Procs, pc'[r] = "send"
      PROVE  /\ flight'[r].content = Week1(flight'[r].who, flight'[r].slot)
             /\ Worth(flight'[r].who, flight'[r].slot)
  <2>1. CASE r # p
    BY <1>3, <1>6, <2>1 DEF WContent, Gathered
  <2>2. CASE r = p
    BY <1>6, <2>2 DEF WContent, Gathered, OneMoves, Follows, Busy, Handling
  <2> QED
    BY <2>1, <2>2
<1>7. ASSUME NEW q \in Parents, NEW i \in 1..Len(inbox'[q])
      PROVE  /\ inbox'[q][i].slot <= now
             /\ inbox'[q][i].content = Week1(q, inbox'[q][i].slot)
             /\ Worth(q, inbox'[q][i].slot)
  <2>1. inbox[q] \in Seq(Reports)
    BY <1>0 DEF InboxOK
  <2>2. CASE inbox'[q] = inbox[q]
    BY <1>7, <2>2 DEF WContent, Past, Reported
  <2>3. CASE Lands(p) /\ q = flight[p].who
    <3> DEFINE new == [slot |-> flight[p].slot, content |-> flight[p].content]
    <3>1. inbox'[q] = Append(inbox[q], new)
      BY <1>0, <2>3 DEF Lands, InboxOK
    <3>2. /\ new.slot <= now /\ new.content = Week1(q, new.slot) /\ Worth(q, new.slot)
      BY <2>3 DEF Lands, WContent, Past, Gathered, Busy, Handling
    <3> HIDE DEF new
    <3>3. \/ i \in 1..Len(inbox[q]) /\ inbox'[q][i] = inbox[q][i]
          \/ inbox'[q][i] = new
      BY <1>7, <2>1, <3>1
    <3> QED
      BY <3>2, <3>3 DEF WContent, Past, Reported
  <2>4. CASE Lands(p) /\ q # flight[p].who
    BY <1>0, <2>2, <2>4 DEF Lands, InboxOK
  <2> QED
    BY <2>2, <2>3, <2>4
<1>8. Past'
  BY <1>2, <1>5, <1>7 DEF Past
<1>9. Gathered'
  <2>1. ASSUME NEW r \in Procs, pc'[r] = "send"
        PROVE  /\ flight'[r].content = Week1(flight[r].who, flight[r].slot)'
               /\ Worth(flight[r].who, flight[r].slot)'
    BY <1>2, <1>6, <2>1 DEF Worth, Week1, Week0, OneMoves
  <2> QED
    BY <2>1 DEF Gathered
<1>10. Reported'
  <2>1. ASSUME NEW q \in Parents, NEW i \in 1..Len(inbox'[q])
        PROVE  /\ inbox'[q][i].content = Week1(q, inbox[q][i].slot)'
               /\ Worth(q, inbox[q][i].slot)'
    BY <1>2, <1>7, <2>1 DEF Worth, Week1, Week0, OneMoves
  <2> QED
    BY <2>1 DEF Reported
<1> QED
  BY <1>8, <1>9, <1>10 DEF WContent

LEMMA ReportSlots ==
    ASSUME TypeOK, NEW q \in Parents, NEW i \in 1..Len(inbox[q])
    PROVE  inbox[q][i].slot \in Slots
<1>1. inbox[q] \in Seq(Reports)
  BY TypeParts DEF InboxOK
<1>2. inbox[q][i] \in Reports
  BY <1>1
<1> QED
  BY <1>2 DEF Reports

\* The clock and the family: what they change is of weeks that are not over.
LEMMA ContentStands ==
    ASSUME WInv, WContent, now' \in Moments, now <= now',
           UNCHANGED <<pc, flight, inbox>>,
           UNCHANGED homework \/ \E r \in Parents : AddHomework(r)
    PROVE  WContent'
<1>0. TypeOK /\ Placed /\ InboxOK
  BY TypeParts DEF WInv
<1>1. now \in Int /\ now' \in Int /\ \A s \in Slots : s \in Int
  BY <1>0, Instants, WeeklyAssumption
<1>2. \A q \in Parents, s \in Slots : s <= now => Week1(q, s)' = Week1(q, s) /\ Week0(q, s)' = Week0(q, s)
  BY <1>0, WeeksStand
<1>3. \A q \in Parents : \A i \in 1..Len(inbox[q]) : inbox[q][i].slot \in Slots
  BY <1>0, ReportSlots
<1>4. \A p \in Procs : /\ pc[p] \in Busy => flight[p].slot \in Slots
                       /\ pc[p] = "send" => flight[p].who \in Parents /\ pc[p] \in Busy
  BY <1>0 DEF Placed, Busy, Handling
<1>5. Past'
  <2>1. ASSUME NEW x \in Int, x <= now
        PROVE  x <= now'
    BY <1>1, <2>1
  <2> QED
    BY <1>1, <1>3, <1>4, <2>1 DEF Past, WContent
<1>6. Gathered'
  <2>1. ASSUME NEW p \in Procs, pc[p] = "send"
        PROVE  /\ flight[p].content = Week1(flight[p].who, flight[p].slot)'
               /\ Worth(flight[p].who, flight[p].slot)'
    <3>1. PICK q \in Parents, s \in Slots : q = flight[p].who /\ s = flight[p].slot /\ s <= now
      BY <1>4, <2>1 DEF WContent, Past
    <3>2. flight[p].content = Week1(q, s) /\ Worth(q, s)
      BY <2>1, <3>1 DEF WContent, Gathered
    <3>3. Week1(q, s)' = Week1(q, s) /\ Week0(q, s)' = Week0(q, s)
      BY <1>2, <3>1
    <3>4. flight[p].content = Week1(q, s)' /\ Worth(q, s)'
      BY <3>2, <3>3 DEF Worth
    <3> QED
      BY <3>1, <3>4 DEF Worth, Week1, Week0
  <2> QED
    BY <2>1 DEF Gathered
<1>7. Reported'
  <2>1. ASSUME NEW q \in Parents, NEW i \in 1..Len(inbox[q])
        PROVE  /\ inbox[q][i].content = Week1(q, inbox[q][i].slot)'
               /\ Worth(q, inbox[q][i].slot)'
    <3>1. PICK s \in Slots : s = inbox[q][i].slot /\ s <= now
      BY <1>3 DEF WContent, Past
    <3>2. inbox[q][i].content = Week1(q, s) /\ Worth(q, s)
      BY <3>1 DEF WContent, Reported
    <3>3. Week1(q, s)' = Week1(q, s) /\ Week0(q, s)' = Week0(q, s)
      BY <1>2, <3>1
    <3>4. inbox[q][i].content = Week1(q, s)' /\ Worth(q, s)'
      BY <3>2, <3>3 DEF Worth
    <3> QED
      BY <3>1, <3>4 DEF Worth, Week1, Week0
  <2> QED
    BY <2>1 DEF Reported
<1> QED
  BY <1>5, <1>6, <1>7 DEF WContent

LEMMA ContentHolds == WInv /\ WContent /\ [Next]_vars => WContent'
<1> SUFFICES ASSUME WInv, WContent, [Next]_vars PROVE WContent'
  OBVIOUS
<1>0. /\ now \in Moments /\ now \in Int /\ now <= now
  BY Instants, TypeParts DEF WInv, WorldOK
<1>1. CASE Advance
  <2>1. now' \in Moments /\ now <= now' /\ UNCHANGED <<pc, flight, inbox, homework>>
    BY <1>1, <1>0, WeeklyAssumption DEF Advance, loop, family
  <2> QED
    BY <2>1, ContentStands
<1>2. ASSUME NEW q \in Parents, Family(q)
      PROVE  WContent'
  <2>1. /\ now' = now /\ UNCHANGED <<pc, flight, inbox>>
        /\ UNCHANGED homework \/ AddHomework(q)
    BY <1>2 DEF Family, AddHomework, SwitchWeekly, ChangeConsent, loop
  <2> QED
    BY <1>0, <2>1, ContentStands
<1>3. ASSUME NEW p \in Procs, Pass(p) \/ Start(p) \/ Exit(p) \/ SelectFails(p) \/ Die(p)
      PROVE  WContent'
  BY <1>3, PassMoves, ContentKept
<1>4. ASSUME NEW p \in Procs, Report(p) \/ ClaimFails(p) \/ FinishFails(p) \/ Sigterm(p)
      PROVE  WContent'
  BY <1>4, ReportMoves, ContentKept
<1>5. CASE UNCHANGED vars
  <2>1. now' = now /\ UNCHANGED <<pc, flight, inbox, homework>>
    BY <1>5 DEF vars, loop, family
  <2> QED
    BY <1>0, <2>1, ContentStands
<1> QED
  BY <1>1, <1>2, <1>3, <1>4, <1>5 DEF Next, Trouble

LEMMA ContentAtFirst == Init => WContent
BY DEF Init, WContent, Past, Gathered, Reported, Busy, Handling

-----------------------------------------------------------------------------
(***************************************************************************)
(* Weeks that were missed.  With one process of the bot, a week that was   *)
(* logged as missed is over for it: its window is closed, and no pass that *)
(* began inside it is still under way.                                     *)
(***************************************************************************)
OneProcess == \A p, r \in Procs : p = r

WMissed ==
    /\ \A s \in alarms : now >= s + Sched.catchup
    /\ \A p \in Procs : pc[p] \in Busy => flight[p].slot \notin alarms

\* Only the mark a process is about changes, and only while it is about one.
OneMark(p) ==
    \A q \in Parents, s \in Slots :
        <<q, s>> # Pair(p) \/ pc[p] \notin Busy => mark'[q][s] = mark[q][s]

LEMMA ReportMarks ==
    ASSUME WInv, NEW p \in Procs, Report(p) \/ ClaimFails(p) \/ FinishFails(p) \/ Sigterm(p)
    PROVE  OneMark(p) /\ UNCHANGED alarms
<1>0. MarkOK /\ Placed
  BY TypeParts DEF WInv
<1>1. UNCHANGED alarms
  BY DEF Report, Claim, Collect, CollectFails, Send, Finish, ClaimFails, FinishFails, Sigterm
<1>2. CASE UNCHANGED mark
  BY <1>1, <1>2 DEF OneMark
<1>3. ASSUME NEW v \in Statuses, SetMark(p, v), pc[p] \in {"claim", "finish"}
      PROVE  OneMark(p)
  <2>1. flight[p].who \in Parents /\ flight[p].slot \in Slots /\ pc[p] \in Busy
    BY <1>0, <1>3 DEF Placed, Busy, Handling
  <2> QED
    BY <1>0, <1>3, <2>1, MarkChange DEF OneMark
<1>4. "sending" \in Statuses /\ (pc[p] = "finish" => flight[p].outcome \in Statuses)
  BY <1>0 DEF Statuses, Placed
<1>5. \/ UNCHANGED mark
      \/ SetMark(p, "sending") /\ pc[p] = "claim"
      \/ SetMark(p, flight[p].outcome) /\ pc[p] = "finish"
  BY DEF Report, Claim, ClaimSet, Collect, CollectFails, Send, Finish, ClaimFails, FinishFails,
         Sigterm
<1> QED
  BY <1>1, <1>2, <1>3, <1>4, <1>5

LEMMA PassAlarms ==
    ASSUME NEW p \in Procs, Pass(p) \/ Start(p) \/ Exit(p) \/ SelectFails(p) \/ Die(p)
    PROVE  \/ UNCHANGED alarms
           \/ /\ UNCHANGED <<now, pc, flight>> /\ pc[p] = "idle"
              /\ now >= LastSlot(now, Sched) + Sched.catchup
              /\ alarms' = alarms \union {LastSlot(now, Sched)}
BY DEF Pass, Tick, NoteMissed, Select, EndOfPass, NextParent, Start, Exit, SelectFails, Die

\* A process moves, and no week is logged as missed.
LEMMA MissedKept ==
    ASSUME WInv, WMissed, OneProcess, NEW p \in Procs, OneMoves(p), UNCHANGED alarms
    PROVE  WMissed'
<1>0. TypeOK /\ Placed /\ AlarmsOK
  BY TypeParts DEF WInv
<1>1. /\ now \in Int /\ \A s \in Slots : s \in Int /\ s + Sched.catchup \in Int
  <2>1. Sched.catchup \in Int
    BY WeeklyAssumption DEF Schedules
  <2> QED
    BY <1>0, <2>1, Instants
<1>2. now' = now
  BY DEF OneMoves
<1>3. ASSUME pc'[p] \in Busy
      PROVE  flight'[p].slot \notin alarms
  <2>1. CASE Deliverable(now, flight'[p].slot, Sched)
    <3>1. \A s \in alarms : s \in Slots /\ now >= s + Sched.catchup
      BY <1>0 DEF WMissed, AlarmsOK
    <3>2. flight'[p].slot \in alarms => now < flight'[p].slot + Sched.catchup
      BY <2>1 DEF Deliverable
    <3> QED
      BY <1>1, <3>1, <3>2
  <2>2. CASE ~Deliverable(now, flight'[p].slot, Sched)
    BY <1>3, <2>2 DEF OneMoves, Follows, WMissed, Busy, Handling
  <2> QED
    BY <2>1, <2>2
<1> QED
  BY <1>2, <1>3 DEF WMissed, OneProcess

LEMMA MissedHolds ==
    ASSUME WInv, WMissed, OneProcess, [Next]_vars
    PROVE  WMissed' /\ \A s \in alarms, q \in Parents : mark'[q][s] = mark[q][s]
<1>0. /\ TypeOK /\ AlarmsOK /\ now \in Int /\ \A s \in Slots : s \in Int
      /\ Sched.catchup \in Int
  BY Instants, TypeParts, WeeklyAssumption DEF WInv, Schedules
<1>1. CASE Advance
  <2>1. now' \in Int /\ now <= now' /\ UNCHANGED <<pc, flight, alarms, mark>>
    BY <1>0, <1>1, WeeklyAssumption DEF Advance, loop, family
  <2>2. \A s \in alarms : s + Sched.catchup \in Int
    BY <1>0 DEF AlarmsOK
  <2> QED
    BY <1>0, <2>1, <2>2 DEF WMissed
<1>2. ASSUME UNCHANGED <<now, pc, flight, alarms, mark>>
      PROVE  WMissed' /\ \A s \in alarms, q \in Parents : mark'[q][s] = mark[q][s]
  BY <1>2 DEF WMissed
<1>3. ASSUME NEW q \in Parents, Family(q)
      PROVE  UNCHANGED <<now, pc, flight, alarms, mark>>
  BY <1>3 DEF Family, AddHomework, SwitchWeekly, ChangeConsent, loop
<1>4. ASSUME NEW p \in Procs, Pass(p) \/ Start(p) \/ Exit(p) \/ SelectFails(p) \/ Die(p)
      PROVE  WMissed' /\ UNCHANGED mark
  <2>1. OneMoves(p) /\ UNCHANGED mark
    BY <1>4, PassMoves
  <2>2. CASE UNCHANGED alarms
    BY <2>1, <2>2, MissedKept
  <2>3. CASE /\ UNCHANGED <<now, pc, flight>> /\ pc[p] = "idle"
             /\ now >= LastSlot(now, Sched) + Sched.catchup
             /\ alarms' = alarms \union {LastSlot(now, Sched)}
    <3>1. \A r \in Procs : pc[r] \notin Busy
      BY <2>3 DEF OneProcess, Busy, Handling
    <3> QED
      BY <2>1, <2>3, <3>1 DEF WMissed
  <2> QED
    BY <1>4, <2>1, <2>2, <2>3, PassAlarms
<1>5. ASSUME NEW p \in Procs, Report(p) \/ ClaimFails(p) \/ FinishFails(p) \/ Sigterm(p)
      PROVE  WMissed' /\ \A s \in alarms, q \in Parents : mark'[q][s] = mark[q][s]
  <2>1. OneMoves(p) /\ OneMark(p) /\ UNCHANGED alarms
    BY <1>5, ReportMoves, ReportMarks
  <2>2. WMissed'
    BY <2>1, MissedKept
  <2>3. ASSUME NEW s \in alarms, NEW q \in Parents
        PROVE  mark'[q][s] = mark[q][s]
    <3>1. s \in Slots
      BY <1>0 DEF AlarmsOK
    <3>2. Pair(p) = <<q, s>> => pc[p] \notin Busy
      BY DEF WMissed, Pair
    <3> QED
      BY <2>1, <3>1, <3>2 DEF OneMark
  <2> QED
    BY <2>2, <2>3
<1>6. CASE UNCHANGED vars
  BY <1>2, <1>6 DEF vars, loop
<1> QED
  BY <1>1, <1>2, <1>3, <1>4, <1>5, <1>6 DEF Next, Trouble

\* Two slots are the same or a week apart at least.
LEMMA SlotsOfReports ==
    ASSUME NEW s \in Slots, NEW t \in Slots, s < t
    PROVE  s + Week <= t /\ (s = t - Week \/ s + 2 * Week <= t)
<1>1. Sched \in Schedules /\ Moments \subseteq Int
  BY WeeklyAssumption
<1>2. PICK m \in Int, n \in Int : s = LastSlot(m, Sched) /\ t = LastSlot(n, Sched)
  BY <1>1 DEF Slots
<1> QED
  BY <1>1, <1>2, SlotsApart

LEMMA WeeksDisjoint ==
    ASSUME TypeOK, NEW q \in Parents, NEW s \in Slots, NEW t \in Slots, s # t
    PROVE  Week1(q, s) \intersect Week1(q, t) = {}
<1>1. s \in Int /\ t \in Int /\ homework \in [Parents -> SUBSET Moments] /\ Moments \subseteq Int
  BY Instants, TypeParts, WeeklyAssumption DEF WorldOK
<1>2. s + Week <= t \/ t + Week <= s
  BY <1>1, SlotsOfReports
<1>3. ASSUME NEW h \in homework[q], InPeriod(h, s), InPeriod(h, t)
      PROVE  FALSE
  <2>1. h \in Int
    BY <1>1
  <2> QED
    BY <1>1, <1>2, <1>3, <2>1, Lengths DEF InPeriod
<1> QED
  BY <1>3 DEF Week1

\* A report that went out stays complete and shares no homework with another one: what the
\* header of report_schedule.py promises, over crashes, two processes, nights and late reports.
THEOREM ReportsAreOfTheirWeeks == Spec => []ReportsPartitionHomework
<1>1. WInv /\ WContent => ReportsPartitionHomework
  <2> SUFFICES ASSUME WInv, WContent, NEW q \in Parents, NEW i \in 1..Len(inbox[q])
               PROVE  /\ inbox[q][i].content = Week1(q, inbox[q][i].slot)
                      /\ \A j \in 1..Len(inbox[q]) :
                            j # i => inbox[q][j].content \intersect inbox[q][i].content = {}
    BY DEF ReportsPartitionHomework
  <2>1. TypeOK /\ InboxOK
    BY TypeParts DEF WInv
  <2>2. \A j \in 1..Len(inbox[q]) : inbox[q][j].slot \in Slots
    BY <2>1, ReportSlots
  <2>3. \A j \in 1..Len(inbox[q]) : inbox[q][j].content = Week1(q, inbox[q][j].slot)
    BY DEF WContent, Reported
  <2>4. \A j \in 1..Len(inbox[q]) : j # i => inbox[q][j].slot # inbox[q][i].slot
    BY DEF WInv, AtMostOneReport
  <2> QED
    BY <2>1, <2>2, <2>3, <2>4, WeeksDisjoint
<1>2. Init => WInv /\ WContent
  BY InitHolds, ContentAtFirst
<1>3. WInv /\ WContent /\ [Next]_vars => WInv' /\ WContent'
  BY StepHolds, ContentHolds
<1> QED
  BY <1>1, <1>2, <1>3, PTL DEF Spec

\* Between two empty reports there was a homework: send_weekly writes to a silent family once
\* (report.py:10-13), whatever reports were lost or skipped between the two.
THEOREM SilenceIsReportedOnce == Spec => []EmptyOnce
<1>1. WInv /\ WContent => EmptyOnce
  <2> SUFFICES ASSUME WInv, WContent, NEW q \in Parents,
                      NEW i \in 1..Len(inbox[q]), NEW j \in 1..Len(inbox[q]),
                      inbox[q][i].content = {}, inbox[q][j].content = {},
                      inbox[q][i].slot < inbox[q][j].slot
               PROVE  \E h \in homework[q] : inbox[q][i].slot <= h /\ h < inbox[q][j].slot
    BY DEF EmptyOnce
  <2>1. TypeOK /\ InboxOK /\ homework \in [Parents -> SUBSET Moments] /\ Moments \subseteq Int
    BY TypeParts, WeeklyAssumption DEF WInv, WorldOK
  <2>2. PICK s \in Slots, t \in Slots : s = inbox[q][i].slot /\ t = inbox[q][j].slot
    BY <2>1, ReportSlots
  <2>3. s \in Int /\ t \in Int /\ (s = t - Week \/ s + 2 * Week <= t)
    BY <2>1, <2>2, Instants, SlotsOfReports
  <2>4. Week1(q, s) = {} /\ Week1(q, t) = {} /\ Worth(q, t)
    BY <2>2 DEF WContent, Reported
  <2>5. PICK h \in homework[q] : InPeriod(h, t - Week)
    BY <2>4 DEF Worth, Week0, InPreviousPeriod
  <2>6. h \in Int /\ h < t
    BY <2>1, <2>3, <2>5, Lengths DEF InPeriod
  <2>7. s <= h
    <3>1. CASE s = t - Week
      BY <2>4, <2>5, <3>1 DEF Week1
    <3>2. CASE s + 2 * Week <= t
      BY <2>3, <2>5, <2>6, <3>2, Lengths DEF InPeriod
    <3> QED
      BY <2>3, <3>1, <3>2
  <2> QED
    BY <2>2, <2>6, <2>7
<1>2. Init => WInv /\ WContent
  BY InitHolds, ContentAtFirst
<1>3. WInv /\ WContent /\ [Next]_vars => WInv' /\ WContent'
  BY StepHolds, ContentHolds
<1> QED
  BY <1>1, <1>2, <1>3, PTL DEF Spec

\* A week that was logged as missed stays missed: no report of it is begun or given up after the
\* event (report_schedule.py:215-219).  For the one process the bot is run as; a second one may
\* be inside its pass when the first looks at the clock.
THEOREM MissedWeeksStayMissed ==
    ASSUME OneProcess
    PROVE  Spec => MissedIsFinal
<1>1. Init => WInv /\ WMissed
  <2>1. Init => WMissed
    BY DEF Init, WMissed, Busy, Handling
  <2> QED
    BY <2>1, InitHolds
<1>2. WInv /\ WMissed /\ [Next]_vars =>
        /\ WInv' /\ WMissed'
        /\ [\A s \in alarms, q \in Parents : mark'[q][s] = "none" <=> mark[q][s] = "none"]_vars
  BY StepHolds, MissedHolds
<1> QED
  BY <1>1, <1>2, PTL DEF Spec, MissedIsFinal
=============================================================================
