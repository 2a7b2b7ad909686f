---------------------------- MODULE PollerProofs ----------------------------
(***************************************************************************)
(* Proofs about the poll loop.  The invariant PIInv has three parts:       *)
(*   Aligned  the batch in the dispatcher's hands is the one _receive      *)
(*            took apart, and a request is under way only with capacity;   *)
(*   Covered  what this process moved its marker past is in `inbox` or     *)
(*            was submitted;                                               *)
(*   Ordered  as long as every marker got to the disk, what was submitted  *)
(*            lies before what the file will make MAX send next.           *)
(***************************************************************************)
EXTENDS Poller, SequenceTheorems, TLAPS

Aligned ==
    /\ batch \in Seq(Keys)
    /\ Len(inbox) = Len(batch)
    /\ step \notin {"saving", "submitting"} => batch = <<>>
    /\ step = "poll" => capacity

Covered ==
    /\ base = None <=> marker = None
    /\ NothingSkipped

Ordered ==
    ~saveFailed /\ ~torn =>
        /\ \A i, j \in 1..Len(origin) : i < j => origin[i] < origin[j]
        /\ \A i, j \in 1..Len(inbox) : i < j => inbox[i] < inbox[j]
        /\ \A i \in 1..Len(origin), j \in 1..Len(inbox) : origin[i] < inbox[j]
        /\ \A i \in 1..Len(origin) : origin[i] <= disk /\ origin[i] <= marker
        /\ \A j \in 1..Len(inbox) : inbox[j] <= marker
        /\ step # "saving" => disk = marker

PIInv == PTypeOK /\ Aligned /\ Covered /\ Ordered

-----------------------------------------------------------------------------
(***************************************************************************)
(* Lemmas.                                                                 *)
(***************************************************************************)

\* The tasks, drain() and abort() leave the batch alone and never take the capacity away.
LEMMA DispatchKeeps ==
    ASSUME Dispatch
    PROVE  batch' = batch /\ (capacity => capacity') /\ UNCHANGED feed
<1>1. ASSUME NEW k \in Keys, Worker(k)
      PROVE  batch' = batch /\ (capacity => capacity')
  <2>1. CASE BeginChat(k)
    BY <2>1 DEF BeginChat
  <2>2. CASE Resume(k)
    BY <2>2 DEF Resume
  <2>3. CASE FinishLast(k)
    BY <2>3 DEF FinishLast, Settle
  <2>4. CASE FinishAndWait(k)
    BY <2>4 DEF FinishAndWait, Settle
  <2>5. CASE FinishAndContinue(k)
    BY <2>5 DEF FinishAndContinue, Settle
  <2>6. CASE CancelUnborn(k)
    BY <2>6 DEF CancelUnborn, counters
  <2>7. CASE CancelWaiting(k)
    BY <2>7 DEF CancelWaiting, Settle
  <2>8. CASE FinishStopped(k)
    BY <2>8 DEF FinishStopped, Settle
  <2> QED
    BY <1>1, <2>1, <2>2, <2>3, <2>4, <2>5, <2>6, <2>7, <2>8 DEF Worker, Finish
<1>2. ASSUME Interrupt
      PROVE  batch' = batch /\ (capacity => capacity')
  BY <1>2 DEF Interrupt, counters
<1>3. ASSUME Stopping
      PROVE  batch' = batch /\ (capacity => capacity')
  <2>1. ASSUME NEW k \in Keys, CleanUp(k)
        PROVE  batch' = batch /\ (capacity => capacity')
    BY <2>1 DEF CleanUp, Settle
  <2>2. CASE DrainDone
    BY <2>2 DEF DrainDone, counters
  <2>3. CASE DrainTimeout
    BY <2>3 DEF DrainTimeout, Abort, counters
  <2>4. CASE FinalAbort
    BY <2>4 DEF FinalAbort, Abort, counters
  <2>5. CASE AbortWaited
    BY <2>5 DEF AbortWaited, counters
  <2>6. CASE AbortDone
    BY <2>6 DEF AbortDone, counters
  <2> QED
    BY <1>3, <2>1, <2>2, <2>3, <2>4, <2>5, <2>6 DEF Stopping
<1> QED
  BY <1>1, <1>2, <1>3 DEF Dispatch

LEMMA BeginDrainKeeps ==
    ASSUME BeginDrain
    PROVE  batch' = batch /\ capacity' = capacity
BY DEF BeginDrain, counters

\* What an answer brings: the updates after `from`, in order.
LEMMA AnswerFacts ==
    ASSUME PTypeOK, Aligned, PollAnswer
    PROVE  \E from \in Nat : \E n \in 0..MaxBatch :
              /\ from + n <= arrived
              /\ marker # None => from = marker
              /\ inbox' = [i \in 1..n |-> from + i]
              /\ inbox' \in Seq(1..MaxArrived)
              /\ Len(inbox') = n
              /\ batch' = [i \in 1..n |-> ChatAt[from + i]]
              /\ batch' \in [1..n -> Keys]
              /\ Len(chatOf) + n <= MaxUpdates
              /\ marker' = from + n
              /\ base' = IF base = None THEN from ELSE base
<1>1. PICK from \in From(marker), n \in 0..MaxBatch :
          /\ n <= arrived - from
          /\ Len(chatOf) + n <= MaxUpdates
          /\ inbox' = [i \in 1..n |-> from + i]
          /\ batch' = [i \in 1..n |-> ChatAt[from + i]]
          /\ marker' = MarkerAfter(from, n)
          /\ base' = IF base = None THEN from ELSE base
  BY DEF PollAnswer
<1>2. from \in Nat /\ n \in Nat /\ arrived \in Nat /\ MaxArrived \in Nat /\ arrived <= MaxArrived
      /\ (marker # None => from = marker)
  BY FeedAssumption, LimitsAssumption DEF From, PTypeOK, None
<1>3. from + n <= arrived
  BY <1>1, <1>2
<1>4. \A i \in 1..n : from + i \in 1..MaxArrived
  BY <1>2, <1>3
<1>5. inbox' \in Seq(1..MaxArrived) /\ Len(inbox') = n
  BY <1>1, <1>2, <1>4
<1>6. batch' \in [1..n -> Keys]
  BY <1>1, <1>4, FeedAssumption
<1> QED
  BY <1>1, <1>2, <1>3, <1>5, <1>6 DEF MarkerAfter

-----------------------------------------------------------------------------
(***************************************************************************)
(* The invariant, part by part.                                            *)
(***************************************************************************)

LEMMA InitHolds == PInit => PIInv
<1> SUFFICES ASSUME PInit PROVE PIInv
  OBVIOUS
<1> USE DEF PInit, Init
<1>1. PTypeOK
  <2>1. <<>> \in Seq(1..MaxArrived)
    OBVIOUS
  <2>2. arrived \in 0..MaxArrived /\ marker = None /\ disk = None /\ base \in Markers
    BY FeedAssumption DEF Markers
  <2>3. /\ inbox = <<>> /\ origin = <<>> /\ step = "wait"
        /\ stop \in BOOLEAN /\ saveFailed \in BOOLEAN /\ torn \in BOOLEAN
    BY DEF PInit
  <2> QED
    BY <2>1, <2>2, <2>3 DEF PTypeOK
<1>2. Aligned
  BY DEF Aligned
<1>3. Covered
  BY DEF Covered, NothingSkipped, Received, None
<1>4. Ordered
  BY DEF Ordered
<1> QED
  BY <1>1, <1>2, <1>3, <1>4 DEF PIInv

\* Steps that leave everything the invariant speaks of alone, but where the loop stands.
Idle ==
    /\ arrived' \in arrived..MaxArrived
    /\ marker' = marker /\ disk' = disk /\ base' = base
    /\ inbox' = inbox /\ origin' = origin /\ batch' = batch
    /\ saveFailed' = saveFailed /\ torn' = torn
    /\ \/ step' = step
       \/ step \notin {"saving", "submitting"} /\ step' \in {"wait", "poll", "pause"}
    /\ stop' \in BOOLEAN
    /\ step' = "poll" => capacity'

LEMMA IdleStep ==
    ASSUME PIInv, Idle
    PROVE  PIInv'
<1> USE DEF PIInv
<1>1. PTypeOK'
  BY FeedAssumption DEF Idle, PTypeOK, None, Markers
<1>2. Aligned'
  BY DEF Idle, Aligned
<1>3. Covered'
  BY DEF Idle, Covered, NothingSkipped, Received
<1>4. Ordered'
  BY DEF Idle, Ordered
<1> QED
  BY <1>1, <1>2, <1>3, <1>4

LEMMA AnswerStep ==
    ASSUME PIInv, PollAnswer
    PROVE  PIInv'
<1> USE DEF PIInv
<1>1. PICK from \in Nat, n \in 0..MaxBatch :
          /\ from + n <= arrived
          /\ marker # None => from = marker
          /\ inbox' = [i \in 1..n |-> from + i]
          /\ inbox' \in Seq(1..MaxArrived)
          /\ Len(inbox') = n
          /\ batch' = [i \in 1..n |-> ChatAt[from + i]]
          /\ batch' \in [1..n -> Keys]
          /\ marker' = from + n
          /\ base' = IF base = None THEN from ELSE base
  BY AnswerFacts
<1>2. /\ n \in Nat /\ arrived \in Nat /\ MaxArrived \in Nat /\ arrived <= MaxArrived
      /\ step = "poll" /\ step' = "saving"
      /\ inbox = <<>> /\ batch = <<>>
      /\ UNCHANGED <<arrived, disk, origin, stop, saveFailed, torn>>
  <2>1. n \in Nat /\ arrived \in Nat /\ MaxArrived \in Nat /\ arrived <= MaxArrived
    BY LimitsAssumption, FeedAssumption DEF PTypeOK
  <2>2. /\ step = "poll" /\ step' = "saving"
        /\ UNCHANGED <<arrived, disk, origin, stop, saveFailed, torn>>
    BY DEF PollAnswer
  <2>3. batch = <<>> /\ Len(inbox) = Len(batch) /\ inbox \in Seq(1..MaxArrived)
    BY <2>2 DEF Aligned, PTypeOK
  <2>4. inbox = <<>>
    BY <2>3
  <2> QED
    BY <2>1, <2>2, <2>3, <2>4
<1>3. PTypeOK'
  BY <1>1, <1>2 DEF PTypeOK, None, Markers
<1>4. Aligned'
  <2>1. batch' \in Seq(Keys) /\ Len(batch') = n
    BY <1>1, <1>2
  <2> QED
    BY <1>1, <1>2, <2>1 DEF Aligned
<1>5. Covered'
  <2>1. base' # None /\ marker' # None
    BY <1>1, <1>2 DEF None
  <2>2. ASSUME NEW u \in 1..MaxArrived, base' < u, u <= marker'
        PROVE  \/ \E i \in 1..Len(inbox') : inbox'[i] = u
               \/ \E i \in 1..Len(origin') : origin'[i] = u
    <3>1. CASE u > from
      <4>1. u - from \in 1..n
        BY <1>1, <1>2, <2>2, <3>1
      <4>2. inbox'[u - from] = u
        BY <1>1, <1>2, <4>1
      <4> QED
        BY <1>1, <4>1, <4>2
    <3>2. CASE u <= from
      <4>1. marker # None /\ base # None /\ base < u /\ u <= marker
        BY <1>1, <2>2, <3>2 DEF Covered
      <4>2. \E i \in 1..Len(origin) : origin[i] = u
        BY <4>1, <1>2 DEF Covered, NothingSkipped, Received
      <4> QED
        BY <4>2, <1>2
    <3> QED
      BY <1>1, <3>1, <3>2
  <2> QED
    BY <2>1, <2>2 DEF Covered, NothingSkipped, Received
<1>6. Ordered'
  <2> SUFFICES ASSUME ~saveFailed, ~torn
               PROVE  /\ \A i, j \in 1..Len(origin') : i < j => origin'[i] < origin'[j]
                      /\ \A i, j \in 1..Len(inbox') : i < j => inbox'[i] < inbox'[j]
                      /\ \A i \in 1..Len(origin'), j \in 1..Len(inbox') : origin'[i] < inbox'[j]
                      /\ \A i \in 1..Len(origin') : origin'[i] <= disk' /\ origin'[i] <= marker'
                      /\ \A j \in 1..Len(inbox') : inbox'[j] <= marker'
    BY <1>2 DEF Ordered
  <2>1. \A i \in 1..Len(origin) : origin[i] \in Nat /\ origin[i] >= 1 /\ origin[i] <= disk
    <3>1. origin \in Seq(1..MaxArrived)
      BY DEF PTypeOK
    <3>2. \A i \in 1..Len(origin) : origin[i] \in 1..MaxArrived
      BY <3>1, ElementOfSeq
    <3>3. \A i \in 1..Len(origin) : origin[i] <= disk
      BY DEF Ordered
    <3> QED
      BY <3>2, <3>3, <1>2
  <2>2. disk = marker
    BY <1>2 DEF Ordered
  <2>3. \A i \in 1..Len(origin) : origin[i] <= from /\ origin[i] <= marker'
    BY <1>1, <2>1, <2>2 DEF None
  <2>4. \A j \in 1..n : inbox'[j] = from + j
    BY <1>1
  <2>5. \A i, j \in 1..Len(origin) : i < j => origin[i] < origin[j]
    BY DEF Ordered
  <2>6. \A i \in 1..Len(origin), j \in 1..n : origin[i] < inbox'[j]
    BY <1>2, <2>1, <2>3, <2>4
  <2>7. \A i, j \in 1..n : i < j => inbox'[i] < inbox'[j]
    BY <1>2, <2>4
  <2>8. \A j \in 1..n : inbox'[j] <= marker'
    BY <1>1, <1>2, <2>4
  <2> QED
    BY <1>1, <1>2, <2>1, <2>3, <2>5, <2>6, <2>7, <2>8
<1> QED
  BY <1>3, <1>4, <1>5, <1>6

LEMMA SaveStep ==
    ASSUME PIInv, SaveMarker
    PROVE  PIInv'
<1> USE DEF PIInv
<1>1. /\ step = "saving" /\ step' = IF batch = <<>> THEN "wait" ELSE "submitting"
      /\ UNCHANGED <<arrived, marker, inbox, origin, stop, base, torn, batch, capacity>>
      /\ \/ disk' = marker /\ UNCHANGED saveFailed
         \/ disk' \in {disk, None} /\ saveFailed' = TRUE
  BY DEF SaveMarker, vars, counters
<1>2. PTypeOK'
  BY <1>1 DEF PTypeOK
<1>3. Aligned'
  BY <1>1 DEF Aligned
<1>4. Covered'
  BY <1>1 DEF Covered, NothingSkipped, Received
<1>5. Ordered'
  <2> SUFFICES ASSUME ~saveFailed', ~torn' PROVE Ordered'
    BY DEF Ordered
  <2>1. ~saveFailed /\ ~torn /\ disk' = marker
    BY <1>1
  <2> QED
    BY <1>1, <2>1 DEF Ordered
<1> QED
  BY <1>2, <1>3, <1>4, <1>5

LEMMA SubmitStep ==
    ASSUME PIInv, SubmitNext
    PROVE  PIInv'
<1> USE DEF PIInv
<1>1. /\ step = "submitting" /\ batch # <<>>
      /\ origin' = Append(origin, Head(inbox))
      /\ inbox' = Tail(inbox)
      /\ batch' = Tail(batch)
      /\ step' = IF Len(batch) = 1 THEN "wait" ELSE "submitting"
      /\ UNCHANGED <<arrived, marker, disk, stop, base, saveFailed, torn>>
  BY DEF SubmitNext, Submit
<1>2. /\ inbox \in Seq(1..MaxArrived) /\ batch \in Seq(Keys) /\ origin \in Seq(1..MaxArrived)
      /\ Len(inbox) = Len(batch) /\ Len(batch) >= 1
  BY <1>1 DEF PTypeOK, Aligned
<1>3. /\ Head(inbox) = inbox[1] /\ inbox[1] \in 1..MaxArrived
      /\ inbox' \in Seq(1..MaxArrived) /\ Len(inbox') = Len(inbox) - 1
      /\ \A j \in 1..Len(inbox') : inbox'[j] = inbox[j + 1]
      /\ origin' \in Seq(1..MaxArrived) /\ Len(origin') = Len(origin) + 1
      /\ \A i \in 1..Len(origin) : origin'[i] = origin[i]
      /\ origin'[Len(origin) + 1] = inbox[1]
  <2>1. Head(inbox) = inbox[1] /\ inbox[1] \in 1..MaxArrived
    <3>1. 1 \in 1..Len(inbox) /\ Head(inbox) = inbox[1]
      BY <1>2
    <3> QED
      BY <1>2, <3>1, ElementOfSeq
  <2>2. /\ inbox' \in Seq(1..MaxArrived) /\ Len(inbox') = Len(inbox) - 1
        /\ \A j \in 1..Len(inbox') : inbox'[j] = inbox[j + 1]
    BY <1>1, <1>2
  <2>3. /\ origin' \in Seq(1..MaxArrived) /\ Len(origin') = Len(origin) + 1
        /\ \A i \in 1..Len(origin) : origin'[i] = origin[i]
        /\ origin'[Len(origin) + 1] = inbox[1]
    BY <1>1, <1>2, <2>1
  <2> QED
    BY <2>1, <2>2, <2>3
<1>4. PTypeOK'
  <2>1. step' \in {"wait", "submitting"}
    BY <1>1
  <2> QED
    BY <1>1, <1>3, <2>1 DEF PTypeOK
<1>5. Aligned'
  <2>1. batch' \in Seq(Keys) /\ Len(batch') = Len(batch) - 1
    BY <1>1, <1>2
  <2>2. CASE Len(batch) = 1
    <3>1. batch' = <<>>
      BY <2>1, <2>2
    <3> QED
      BY <1>1, <1>2, <1>3, <2>1, <2>2, <3>1 DEF Aligned
  <2>3. CASE Len(batch) # 1
    BY <1>1, <1>2, <1>3, <2>1, <2>3 DEF Aligned
  <2> QED
    BY <2>2, <2>3
<1>6. Covered'
  <2>1. base = None <=> marker = None
    BY DEF Covered
  <2>2. ASSUME NEW u \in Received
        PROVE  \/ \E i \in 1..Len(inbox') : inbox'[i] = u
               \/ \E i \in 1..Len(origin') : origin'[i] = u
    <3>1. \/ \E i \in 1..Len(inbox) : inbox[i] = u
          \/ \E i \in 1..Len(origin) : origin[i] = u
      BY <2>2 DEF Covered, NothingSkipped
    <3>2. CASE \E i \in 1..Len(origin) : origin[i] = u
      <4>1. PICK i \in 1..Len(origin) : origin[i] = u
        BY <3>2
      <4>2. i \in 1..Len(origin') /\ origin'[i] = u
        BY <1>2, <1>3, <4>1
      <4> QED
        BY <4>2
    <3>3. CASE \E i \in 1..Len(inbox) : inbox[i] = u
      <4>1. PICK i \in 1..Len(inbox) : inbox[i] = u
        BY <3>3
      <4>2. CASE i = 1
        <5>1. Len(origin) + 1 \in 1..Len(origin')
          BY <1>2, <1>3
        <5> QED
          BY <1>3, <4>1, <4>2, <5>1
      <4>3. CASE i # 1
        <5>1. i - 1 \in 1..Len(inbox') /\ inbox'[i - 1] = inbox[(i - 1) + 1]
          BY <1>2, <1>3, <4>1, <4>3
        <5>2. (i - 1) + 1 = i
          BY <4>1
        <5> QED
          BY <4>1, <5>1, <5>2
      <4> QED
        BY <4>2, <4>3
    <3> QED
      BY <3>1, <3>2, <3>3
  <2> QED
    BY <1>1, <2>1, <2>2 DEF Covered, NothingSkipped, Received
<1>7. Ordered'
  <2> SUFFICES ASSUME ~saveFailed, ~torn PROVE Ordered'
    BY <1>1 DEF Ordered
  <2>1. disk = marker
    BY <1>1 DEF Ordered
  <2>2. \A i, j \in 1..Len(origin) : i < j => origin[i] < origin[j]
    BY DEF Ordered
  <2>3. \A i, j \in 1..Len(inbox) : i < j => inbox[i] < inbox[j]
    BY DEF Ordered
  <2>4. \A i \in 1..Len(origin), j \in 1..Len(inbox) : origin[i] < inbox[j]
    BY DEF Ordered
  <2>5. \A i \in 1..Len(origin) : origin[i] <= marker
    BY DEF Ordered
  <2>6. \A j \in 1..Len(inbox) : inbox[j] <= marker
    BY DEF Ordered
  <2>7. \A i, j \in 1..Len(origin') : i < j => origin'[i] < origin'[j]
    <3> SUFFICES ASSUME NEW i \in 1..Len(origin'), NEW j \in 1..Len(origin'), i < j
                 PROVE  origin'[i] < origin'[j]
      OBVIOUS
    <3>1. i \in 1..Len(origin) /\ origin'[i] = origin[i] /\ 1 \in 1..Len(inbox)
      BY <1>2, <1>3
    <3>2. CASE j \in 1..Len(origin)
      BY <1>3, <2>2, <3>1, <3>2
    <3>3. CASE j = Len(origin) + 1
      BY <1>3, <2>4, <3>1, <3>3
    <3> QED
      BY <1>2, <1>3, <3>2, <3>3
  <2>8. \A i, j \in 1..Len(inbox') : i < j => inbox'[i] < inbox'[j]
    <3> SUFFICES ASSUME NEW i \in 1..Len(inbox'), NEW j \in 1..Len(inbox'), i < j
                 PROVE  inbox'[i] < inbox'[j]
      OBVIOUS
    <3>1. i + 1 \in 1..Len(inbox) /\ j + 1 \in 1..Len(inbox) /\ i + 1 < j + 1
      BY <1>2, <1>3
    <3> QED
      BY <1>3, <2>3, <3>1
  <2>9. \A i \in 1..Len(origin'), j \in 1..Len(inbox') : origin'[i] < inbox'[j]
    <3> SUFFICES ASSUME NEW i \in 1..Len(origin'), NEW j \in 1..Len(inbox')
                 PROVE  origin'[i] < inbox'[j]
      OBVIOUS
    <3>1. j + 1 \in 1..Len(inbox) /\ 1 \in 1..Len(inbox) /\ 1 < j + 1 /\ inbox'[j] = inbox[j + 1]
      BY <1>2, <1>3
    <3>2. CASE i \in 1..Len(origin)
      BY <1>3, <2>4, <3>1, <3>2
    <3>3. CASE i = Len(origin) + 1
      BY <1>3, <2>3, <3>1, <3>3
    <3> QED
      BY <1>2, <1>3, <3>2, <3>3
  <2>10. \A i \in 1..Len(origin') : origin'[i] <= marker
    <3> SUFFICES ASSUME NEW i \in 1..Len(origin')
                 PROVE  origin'[i] <= marker
      OBVIOUS
    <3>1. 1 \in 1..Len(inbox)
      BY <1>2
    <3>2. CASE i \in 1..Len(origin)
      BY <1>3, <2>5, <3>2
    <3>3. CASE i = Len(origin) + 1
      BY <1>3, <2>6, <3>1, <3>3
    <3> QED
      BY <1>2, <1>3, <3>2, <3>3
  <2>11. \A j \in 1..Len(inbox') : inbox'[j] <= marker
    <3> SUFFICES ASSUME NEW j \in 1..Len(inbox')
                 PROVE  inbox'[j] <= marker
      OBVIOUS
    <3>1. j + 1 \in 1..Len(inbox)
      BY <1>2, <1>3
    <3> QED
      BY <1>3, <2>6, <3>1
  <2>12. disk' = marker /\ marker' = marker
    BY <1>1, <2>1
  <2> QED
    BY <2>7, <2>8, <2>9, <2>10, <2>11, <2>12 DEF Ordered
<1> QED
  BY <1>4, <1>5, <1>6, <1>7

LEMMA RebootStep ==
    ASSUME PIInv, Reboot
    PROVE  PIInv'
<1> USE DEF PIInv
<1>1. /\ disk' \in {disk, None} /\ torn' \in {torn, TRUE}
      /\ ~torn' => disk' = disk
      /\ marker' = disk' /\ base' = disk' /\ step' = "wait"
      /\ inbox' = <<>> /\ batch' = <<>> /\ stop' = FALSE
      /\ UNCHANGED <<arrived, origin, saveFailed>>
  BY DEF Reboot, Restart
<1>2. PTypeOK'
  <2>1. disk' \in {None} \union 0..arrived /\ disk' \in Markers /\ arrived \in 0..MaxArrived
    BY <1>1, FeedAssumption DEF PTypeOK, None, Markers
  <2>2. inbox' \in Seq(1..MaxArrived)
    BY <1>1
  <2> QED
    BY <1>1, <2>1, <2>2 DEF PTypeOK
<1>3. Aligned'
  BY <1>1 DEF Aligned
<1>4. Covered'
  <2>1. disk' \in {None} \union Nat
    BY <1>1 DEF PTypeOK
  <2>2. Received' = {}
    BY <1>1, <2>1 DEF Received, None
  <2> QED
    BY <1>1, <2>2 DEF Covered, NothingSkipped
<1>5. Ordered'
  <2> SUFFICES ASSUME ~saveFailed', ~torn' PROVE Ordered'
    BY DEF Ordered
  <2>1. ~saveFailed /\ ~torn /\ disk' = disk /\ origin' = origin /\ inbox' = <<>> /\ marker' = disk
    <3>1. ~saveFailed /\ origin' = origin /\ inbox' = <<>> /\ disk' = disk /\ marker' = disk
      BY <1>1
    <3>2. ~torn
      BY <1>1 DEF Reboot
    <3> QED
      BY <3>1, <3>2
  <2>2. \A i, j \in 1..Len(origin) : i < j => origin[i] < origin[j]
    BY <2>1 DEF Ordered
  <2>3. \A i \in 1..Len(origin) : origin[i] <= disk
    BY <2>1 DEF Ordered
  <2> QED
    BY <1>1, <2>1, <2>2, <2>3 DEF Ordered
<1> QED
  BY <1>2, <1>3, <1>4, <1>5

LEMMA StepHolds == PIInv /\ [PNext]_pvars => PIInv'
<1> SUFFICES ASSUME PIInv, [PNext]_pvars PROVE PIInv'
  OBVIOUS
<1>1. /\ step = "poll" => capacity
      /\ stop \in BOOLEAN
      /\ arrived \in arrived..MaxArrived
  BY FeedAssumption DEF PIInv, PTypeOK, Aligned
<1>2. CASE Arrive
  <2>1. /\ arrived' = arrived + 1 /\ arrived < MaxArrived
        /\ UNCHANGED <<marker, disk, inbox, origin, base, saveFailed, torn, batch>>
        /\ UNCHANGED <<step, stop, capacity>>
    BY <1>2 DEF Arrive, vars, counters
  <2>2. arrived' \in arrived..MaxArrived
    BY <2>1, FeedAssumption DEF PIInv, PTypeOK
  <2> QED
    BY <1>1, <2>1, <2>2, IdleStep DEF Idle
<1>3. CASE Sigterm
  <2>1. /\ UNCHANGED <<arrived, marker, disk, inbox, origin, base, saveFailed, torn, batch>>
        /\ UNCHANGED <<step, capacity>> /\ stop' = TRUE
    BY <1>3 DEF Sigterm, vars, counters
  <2> QED
    BY <1>1, <2>1, IdleStep DEF Idle
<1>4. CASE WaitForCapacity
  <2>1. /\ UNCHANGED <<arrived, marker, disk, inbox, origin, base, saveFailed, torn, stop>>
        /\ step = "wait"
    BY <1>4 DEF WaitForCapacity
  <2>2. CASE stop /\ BeginDrain /\ UNCHANGED step
    BY <1>1, <2>1, <2>2, BeginDrainKeeps, IdleStep DEF Idle
  <2>3. CASE ~stop /\ capacity /\ step' = "poll" /\ UNCHANGED vars
    <3>1. UNCHANGED <<batch, capacity>>
      BY <2>3 DEF vars, counters
    <3> QED
      BY <1>1, <2>1, <2>3, <3>1, IdleStep DEF Idle
  <2> QED
    BY <1>4, <2>2, <2>3 DEF WaitForCapacity
<1>5. CASE PollStopped
  <2>1. BeginDrain /\ UNCHANGED feed
    BY <1>5 DEF PollStopped
  <2>2. /\ UNCHANGED <<arrived, marker, disk, inbox, origin, base, saveFailed, torn>>
        /\ UNCHANGED <<step, stop>>
    BY <2>1 DEF feed
  <2> QED
    BY <1>1, <2>1, <2>2, BeginDrainKeeps, IdleStep DEF Idle
<1>6. CASE PollFailed
  <2>1. /\ UNCHANGED <<arrived, marker, disk, inbox, origin, base, saveFailed, torn, batch>>
        /\ UNCHANGED <<stop, capacity>> /\ step = "poll" /\ step' = "pause"
    BY <1>6 DEF PollFailed, vars, counters
  <2> QED
    BY <1>1, <2>1, IdleStep DEF Idle
<1>7. CASE PauseOver
  <2>1. /\ UNCHANGED <<arrived, marker, disk, inbox, origin, base, saveFailed, torn, batch>>
        /\ UNCHANGED <<stop, capacity>> /\ step = "pause" /\ step' = "wait"
    BY <1>7 DEF PauseOver, vars, counters
  <2> QED
    BY <1>1, <2>1, IdleStep DEF Idle
<1>8. CASE PollAnswer
  BY <1>8, AnswerStep
<1>9. CASE SaveMarker
  BY <1>9, SaveStep
<1>10. CASE SubmitNext
  BY <1>10, SubmitStep
<1>11. CASE Dispatch
  <2>1. batch' = batch /\ (capacity => capacity') /\ UNCHANGED feed
    BY <1>11, DispatchKeeps
  <2>2. /\ UNCHANGED <<arrived, marker, disk, inbox, origin, base, saveFailed, torn>>
        /\ UNCHANGED <<step, stop>>
    BY <2>1 DEF feed
  <2> QED
    BY <1>1, <2>1, <2>2, IdleStep DEF Idle
<1>12. CASE Reboot
  BY <1>12, RebootStep
<1>13. CASE UNCHANGED pvars
  <2>1. /\ UNCHANGED <<arrived, marker, disk, inbox, origin, base, saveFailed, torn, batch>>
        /\ UNCHANGED <<step, stop, capacity>>
    BY <1>13 DEF pvars, feed, vars, counters
  <2> QED
    BY <1>1, <2>1, IdleStep DEF Idle
<1> QED
  BY <1>2, <1>3, <1>4, <1>5, <1>6, <1>7, <1>8, <1>9, <1>10, <1>11, <1>12, <1>13
     DEF PNext, Receiving

\* Every step of the loop is a step of the dispatcher, or none at all.
LEMMA StepMaps == PIInv /\ [PNext]_pvars => [Next]_vars
<1> SUFFICES ASSUME PIInv, [PNext]_pvars PROVE [Next]_vars
  OBVIOUS
<1>1. CASE PollAnswer
  <2>1. PICK n \in 0..MaxBatch :
            /\ \E from \in Nat : batch' = [i \in 1..n |-> ChatAt[from + i]]
            /\ batch' \in [1..n -> Keys]
            /\ Len(chatOf) + n <= MaxUpdates
    BY <1>1, AnswerFacts DEF PIInv
  <2>2. /\ phase = "receiving" /\ step = "poll"
        /\ UNCHANGED <<tickets, queue, worker, current, slots, counters, control>>
    BY <1>1 DEF PollAnswer
  <2>3. batch = <<>> /\ capacity
    BY <2>2 DEF PIInv, Aligned
  <2>4. n \in Nat /\ Len(batch') = n
    BY <2>1, LimitsAssumption
  <2>5. CASE n = 0
    <3>1. batch' = <<>>
      BY <2>1, <2>5
    <3> QED
      BY <2>2, <2>3, <3>1 DEF vars
  <2>6. CASE n # 0
    <3>1. n \in 1..MaxBatch
      BY <2>4, <2>6
    <3>2. batch' \in Batches
      BY <2>1, <3>1 DEF Batches
    <3>3. Receive(batch')
      BY <2>1, <2>2, <2>3, <2>4 DEF Receive, Yielded
    <3> QED
      BY <3>2, <3>3 DEF Next
  <2> QED
    BY <2>5, <2>6
<1>2. CASE WaitForCapacity
  BY <1>2 DEF WaitForCapacity, Next
<1>3. CASE PollStopped
  BY <1>3 DEF PollStopped, Next
<1>4. CASE SubmitNext
  BY <1>4 DEF SubmitNext, Next
<1>5. CASE Dispatch
  BY <1>5 DEF Dispatch, Next
<1>6. CASE Reboot
  BY <1>6 DEF Reboot, Next
<1>7. CASE Arrive \/ Sigterm \/ PollFailed \/ PauseOver \/ SaveMarker
  BY <1>7 DEF Arrive, Sigterm, PollFailed, PauseOver, SaveMarker
<1>8. CASE UNCHANGED pvars
  BY <1>8 DEF pvars
<1> QED
  BY <1>1, <1>2, <1>3, <1>4, <1>5, <1>6, <1>7, <1>8 DEF PNext, Receiving

-----------------------------------------------------------------------------
(***************************************************************************)
(* Theorems.                                                               *)
(***************************************************************************)

\* What the other theorems follow from: in every state the program reaches, what the
\* dispatcher holds, the marker and the file fit together.
THEOREM PollInvariance == PSpec => []PIInv
<1>1. PInit => PIInv
  BY InitHolds
<1>2. PIInv /\ [PNext]_pvars => PIInv'
  BY StepHolds
<1> QED
  BY <1>1, <1>2, PTL DEF PSpec

\* The variables of the loop of _receive (runner.py:168-239) keep their types: a marker
\* never lies ahead of what MAX has got for the bot.
THEOREM PollTypeCorrect == PSpec => []PTypeOK
<1>1. PIInv => PTypeOK
  BY DEF PIInv
<1> QED
  BY <1>1, PollInvariance, PTL

\* Every update a process moved its marker past was submitted or is about to be
\* (runner.py:229-234), whatever fails and wherever it dies before.
THEOREM NothingIsSkipped == PSpec => []NothingSkipped
<1>1. PIInv => NothingSkipped
  BY DEF PIInv, Covered
<1> QED
  BY <1>1, PollInvariance, PTL

\* Over any number of crashes and restarts no update is handed out twice, and all go out
\* in the order of MAX, unless a marker failed to reach the disk (runner.py:184-189).
THEOREM DeliveredAtMostOnce == PSpec => []AtMostOnce
<1>1. PIInv => AtMostOnce
  BY DEF PIInv, Ordered, AtMostOnce
<1> QED
  BY <1>1, PollInvariance, PTL

\* The poll loop of runner.py uses the dispatcher as Dispatcher.tla expects it to be
\* used - it polls only with capacity, submits before it yields, starts anew only with a
\* new process - so every theorem about Spec holds of the whole program.
THEOREM PollerImplements == PSpec => Spec
<1>1. PInit => Init
  BY DEF PInit
<1>2. PIInv /\ [PNext]_pvars => [Next]_vars
  BY StepMaps
<1> QED
  BY <1>1, <1>2, PollInvariance, PTL DEF PSpec, Spec
=============================================================================
