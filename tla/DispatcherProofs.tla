-------------------------- MODULE DispatcherProofs --------------------------
(***************************************************************************)
(* Proofs about Dispatcher: its inductive invariant, and the safety        *)
(* properties that follow, for any number of chats, any limits and any     *)
(* number of updates.                                                      *)
(***************************************************************************)
EXTENDS Dispatcher, FiniteSetTheorems, TLAPS

\* The tickets in the queue of k.
Queued(k) == {queue[k][i] : i \in 1..Len(queue[k])}

OpenTickets    == {t \in Tickets : status[t] \in Open}
RunningTickets == {t \in Tickets : status[t] = "running"}
Holders        == {k \in Keys : worker[k] \in {"granted", "processing"}}

\* The queues hold exactly the tickets with status "queued", each in the queue of its
\* chat, in the order of submission.
QueueInv ==
    /\ \A t \in Tickets : status[t] = "absent" <=> t > Len(chatOf)
    /\ \A k \in Keys : \A i, j \in 1..Len(queue[k]) :
          i < j => queue[k][i] < queue[k][j]
    /\ \A k \in Keys : \A i \in 1..Len(queue[k]) :
          /\ queue[k][i] <= Len(chatOf)
          /\ status[queue[k][i]] = "queued"
          /\ Key(chatOf[queue[k][i]]) = k
    /\ \A t \in 1..Len(chatOf) :
          status[t] = "queued" => t \in Queued(Key(chatOf[t]))

\* What a task is doing agrees with the tickets of its chat.
WorkerInv ==
    /\ \A k \in Keys : worker[k] = "processing" =>
          /\ current[k] \in 1..Len(chatOf)
          /\ status[current[k]] = "running"
          /\ Key(chatOf[current[k]]) = k
          /\ \A i \in 1..Len(queue[k]) : current[k] < queue[k][i]
    /\ \A t \in 1..Len(chatOf) : status[t] = "running" =>
          /\ worker[Key(chatOf[t])] = "processing"
          /\ current[Key(chatOf[t])] = t
    /\ \A k \in Keys : worker[k] = "none" => queue[k] = <<>>
    /\ \A k \in Keys : worker[k] \in {"created", "waiting", "granted"} => queue[k] # <<>>

\* The line for a slot: every task in it waits, and stands in it once.
LineInv ==
    /\ \A i \in 1..Len(waiters) : worker[waiters[i]] = "waiting"
    /\ \A i, j \in 1..Len(waiters) : i # j => waiters[i] # waiters[j]
    /\ stopped => waiters = <<>>

SlotInv == free + Cardinality(Holders) = Concurrency

CounterInv ==
    /\ pending = Cardinality(OpenTickets)
    /\ running = Cardinality(RunningTickets)

\* The received batch fits into what is left of the tickets (the bound of the model).
BatchFits == Len(chatOf) + Len(batch) <= MaxUpdates

IInv ==
    /\ TypeOK
    /\ BatchFits
    /\ QueueInv
    /\ WorkerInv
    /\ LineInv
    /\ SlotInv
    /\ CounterInv
    /\ EventsTruthful
    /\ NoLostWakeup
    /\ BacklogBounded
    /\ ChatOrder


-----------------------------------------------------------------------------
\* Keys of chats are keys, and resume_at lies below the limit.
LEMMA Basics ==
    /\ \A c \in Keys : Key(c) \in Keys
    /\ ResumeAt \in Nat
    /\ ResumeAt < QueueLimit
    /\ IsFiniteSet(Keys)
    /\ IsFiniteSet(Tickets)
<1>1. IsFiniteSet(Keys)
  BY LimitsAssumption, FS_AddElement DEF Keys
<1>2. IsFiniteSet(Tickets)
  BY LimitsAssumption, FS_Interval DEF Tickets
<1>3. \A c \in Keys : Key(c) \in Keys
  BY DEF Key, Keys
<1>4. ResumeAt \in Nat /\ ResumeAt < QueueLimit
  BY LimitsAssumption DEF ResumeAt
<1> QED BY <1>1, <1>2, <1>3, <1>4

\* A sequence without repetitions has as many elements as its length says.
LEMMA SeqCount ==
    ASSUME NEW S, NEW q \in Seq(S), NEW n \in 0..Len(q),
           \A i, j \in 1..Len(q) : i # j => q[i] # q[j]
    PROVE  /\ IsFiniteSet({q[i] : i \in 1..n})
           /\ Cardinality({q[i] : i \in 1..n}) = n
<1> DEFINE T == {q[i] : i \in 1..n}
           f == [i \in 1..n |-> q[i]]
<1>1. f \in Bijection(1..n, T)
  BY DEF Bijection, Injection, Surjection, IsInjective
<1>2. ExistsBijection(1..n, T)
  BY <1>1 DEF ExistsBijection
<1>3. Cardinality(T) = n
  BY <1>2, FS_CountingElements
<1>4. IsFiniteSet(T)
  BY <1>2, FS_NatBijection
<1> QED BY <1>3, <1>4

\* The sets the counters count are finite.
LEMMA FiniteCounts ==
    ASSUME TypeOK
    PROVE  /\ IsFiniteSet(OpenTickets) /\ Cardinality(OpenTickets) \in Nat
           /\ IsFiniteSet(RunningTickets) /\ Cardinality(RunningTickets) \in Nat
           /\ IsFiniteSet(Holders) /\ Cardinality(Holders) \in Nat
<1>1. OpenTickets \subseteq Tickets /\ RunningTickets \subseteq Tickets /\ Holders \subseteq Keys
  BY DEF OpenTickets, RunningTickets, Holders
<1> QED BY <1>1, Basics, FS_Subset, FS_CardinalityType

\* What the types say about the entries of the sequences.
LEMMA Entries ==
    ASSUME TypeOK
    PROVE  /\ Len(chatOf) \in Nat
           /\ \A x \in 1..Len(chatOf) :
                 x \in Tickets /\ chatOf[x] \in Keys /\ Key(chatOf[x]) \in Keys
           /\ \A k \in Keys : Len(queue[k]) \in Nat
           /\ \A k \in Keys : \A i \in 1..Len(queue[k]) : queue[k][i] \in Tickets
           /\ Len(waiters) \in Nat
           /\ \A i \in 1..Len(waiters) : waiters[i] \in Keys
<1>1. \A k \in Keys : queue[k] \in Seq(Tickets)
  BY DEF TypeOK
<1>2. Len(chatOf) \in Nat /\ \A x \in 1..Len(chatOf) : chatOf[x] \in Keys
  BY DEF TypeOK
<1>3. \A x \in 1..Len(chatOf) : x \in Tickets
  BY <1>2, LimitsAssumption DEF TypeOK, Tickets
<1>4. Len(waiters) \in Nat /\ \A i \in 1..Len(waiters) : waiters[i] \in Keys
  BY DEF TypeOK
<1> QED BY <1>1, <1>2, <1>3, <1>4, Basics

THEOREM InitInv == Init => IInv
<1> SUFFICES ASSUME Init PROVE IInv
  OBVIOUS
<1>1. TypeOK
  <2>1. batch \in Seq(Keys) /\ chatOf \in Seq(Keys) /\ waiters \in Seq(Keys)
    BY DEF Init
  <2>2. queue \in [Keys -> Seq(Tickets)]
    BY DEF Init
  <2>3. Len(chatOf) <= MaxUpdates /\ free \in 0..Concurrency /\ pending \in Nat /\ running \in Nat
    BY LimitsAssumption DEF Init
  <2> QED BY <2>1, <2>2, <2>3 DEF Init, TypeOK
<1>2. QueueInv
  BY DEF Init, QueueInv, Tickets
<1>3. WorkerInv
  BY DEF Init, WorkerInv
<1>4. LineInv
  BY DEF Init, LineInv
<1>5. Holders = {} /\ OpenTickets = {} /\ RunningTickets = {}
  BY DEF Init, Holders, OpenTickets, RunningTickets, Open
<1>6. SlotInv /\ CounterInv
  BY <1>5, FS_EmptySet, LimitsAssumption DEF Init, SlotInv, CounterInv
<1>7. EventsTruthful /\ BacklogBounded /\ ChatOrder /\ NoLostWakeup /\ BatchFits
  BY LimitsAssumption, Basics
  DEF Init, EventsTruthful, BacklogBounded, ChatOrder, NoLostWakeup, BatchFits
<1> QED BY <1>1, <1>2, <1>3, <1>4, <1>6, <1>7 DEF IInv

LEMMA SubmitStep ==
    ASSUME IInv, Submit
    PROVE  IInv'
<1> DEFINE t == Len(chatOf) + 1
           c == Head(batch)
           k == Key(c)
<1> USE DEF IInv
<1>a. c \in Keys /\ k \in Keys /\ Tail(batch) \in Seq(Keys) /\ Len(Tail(batch)) = Len(batch) - 1
  BY Basics DEF TypeOK, Submit
<1>b. /\ chatOf' = Append(chatOf, c)
      /\ status' = [status EXCEPT ![t] = "queued"]
      /\ queue' = [queue EXCEPT ![k] = Append(@, t)]
      /\ worker' = [worker EXCEPT ![k] = IF @ = "none" THEN "created" ELSE @]
      /\ UNCHANGED <<current, waiters, free, running, stopped, phase, final, stuck>>
  BY DEF Submit, slots, control
<1>c. t \in Tickets /\ t \notin 1..Len(chatOf) /\ Len(chatOf) \in Nat
  BY <1>a, LimitsAssumption DEF TypeOK, BatchFits, Submit, Tickets
<1>d. /\ chatOf' \in Seq(Keys) /\ Len(chatOf') = t
      /\ chatOf'[t] = c
      /\ \A x \in 1..Len(chatOf) : chatOf'[x] = chatOf[x]
  BY <1>a, <1>b DEF TypeOK
<1>e. \A x \in Tickets : status'[x] = IF x = t THEN "queued" ELSE status[x]
  BY <1>b DEF TypeOK
<1>f. \A j \in Keys : worker'[j] = IF j = k /\ worker[j] = "none" THEN "created" ELSE worker[j]
  BY <1>b DEF TypeOK
<1>g. \A j \in Keys : j # k => queue'[j] = queue[j]
  BY <1>b DEF TypeOK
<1>h. /\ Len(queue[k]) \in Nat
      /\ Len(queue'[k]) = Len(queue[k]) + 1
      /\ \A i \in 1..Len(queue[k]) : queue'[k][i] = queue[k][i]
      /\ queue'[k][Len(queue[k]) + 1] = t
  BY <1>a, <1>b, <1>c DEF TypeOK
<1>i. \A x \in 1..Len(chatOf') : x = t \/ x \in 1..Len(chatOf)
  BY <1>c, <1>d
<1>j. status[t] = "absent"
  BY <1>c DEF QueueInv
<1>1. TypeOK'
  <2>1. batch' \in Seq(Keys) /\ chatOf' \in Seq(Keys) /\ Len(chatOf') <= MaxUpdates
    BY <1>a, <1>c, <1>d, LimitsAssumption DEF Submit, Tickets
  <2>2. queue' \in [Keys -> Seq(Tickets)]
    BY <1>a, <1>b, <1>c DEF TypeOK
  <2>3. status' \in [Tickets -> {"absent", "queued", "running", "done", "dropped", "killed"}]
    BY <1>b, <1>c DEF TypeOK
  <2>4. worker' \in [Keys -> {"none", "created", "waiting", "granted", "processing", "dead"}]
    BY <1>a, <1>b DEF TypeOK
  <2>5. pending' \in Nat
    BY DEF TypeOK, Submit
  <2>6. idle' \in BOOLEAN /\ capacity' \in BOOLEAN
    BY Zenon DEF TypeOK, Submit
  <2> QED BY <2>1, <2>2, <2>3, <2>4, <2>5, <2>6, <1>b DEF TypeOK
<1>2. QueueInv'
  <2>1. \A x \in Tickets : status'[x] = "absent" <=> x > Len(chatOf')
    <3> SUFFICES ASSUME NEW x \in Tickets PROVE status'[x] = "absent" <=> x > t
      BY <1>d
    <3>1. status[x] = "absent" <=> x > Len(chatOf)
      BY DEF QueueInv
    <3> QED BY <3>1, <1>c, <1>e DEF Tickets
  <2>2. \A i \in 1..Len(queue[k]) : queue[k][i] <= Len(chatOf) /\ queue[k][i] \in Tickets
    BY <1>a, Entries DEF QueueInv
  <2>3. ASSUME NEW j \in Keys, NEW i \in 1..Len(queue'[j]), NEW l \in 1..Len(queue'[j]), i < l
        PROVE  queue'[j][i] < queue'[j][l]
    <3>1. CASE j # k
      <4>1. queue'[j] = queue[j]
        BY <3>1, <1>g
      <4> QED BY <4>1, <2>3 DEF QueueInv
    <3>2. CASE j = k
      <4>1. i \in 1..Len(queue[k]) + 1 /\ l \in 1..Len(queue[k]) + 1
        BY <3>2, <1>h
      <4>2. CASE l = Len(queue[k]) + 1
        <5>1. i \in 1..Len(queue[k]) /\ queue'[k][i] = queue[k][i]
          BY <2>3, <4>1, <4>2, <1>h
        <5> QED BY <5>1, <4>2, <3>2, <1>h, <1>c, <2>2 DEF Tickets
      <4>3. CASE l \in 1..Len(queue[k])
        <5>1. i \in 1..Len(queue[k])
          BY <2>3, <4>1, <4>3, <1>h
        <5> QED BY <2>3, <5>1, <4>3, <3>2, <1>h, <1>a DEF QueueInv
      <4> QED BY <4>1, <4>2, <4>3, <1>h
    <3> QED BY <3>1, <3>2
  <2>4. ASSUME NEW j \in Keys, NEW i \in 1..Len(queue'[j])
        PROVE  /\ queue'[j][i] <= Len(chatOf')
               /\ status'[queue'[j][i]] = "queued"
               /\ Key(chatOf'[queue'[j][i]]) = j
    <3>1. CASE j = k /\ i = Len(queue[k]) + 1
      BY <3>1, <1>c, <1>d, <1>e, <1>h
    <3>2. CASE ~(j = k /\ i = Len(queue[k]) + 1)
      <4>1. i \in 1..Len(queue[j]) /\ queue'[j][i] = queue[j][i]
        BY <3>2, <1>g, <1>h
      <4>2. /\ queue[j][i] <= Len(chatOf)
            /\ status[queue[j][i]] = "queued"
            /\ Key(chatOf[queue[j][i]]) = j
        BY <4>1 DEF QueueInv
      <4>3. queue[j][i] \in Tickets
        BY <4>1, Entries
      <4>4. queue[j][i] \in 1..Len(chatOf) /\ queue[j][i] # t
        BY <4>2, <4>3, <1>c DEF Tickets
      <4> QED BY <4>1, <4>2, <4>3, <4>4, <1>c, <1>d, <1>e
    <3> QED BY <3>1, <3>2
  <2>5. ASSUME NEW x \in 1..Len(chatOf'), status'[x] = "queued"
        PROVE  \E i \in 1..Len(queue'[Key(chatOf'[x])]) : queue'[Key(chatOf'[x])][i] = x
    <3>1. CASE x = t
      <4>1. Len(queue[k]) + 1 \in 1..Len(queue'[k])
        BY <1>h
      <4> QED BY <4>1, <3>1, <1>d, <1>h
    <3>2. CASE x \in 1..Len(chatOf)
      <4>1. chatOf'[x] = chatOf[x] /\ status[x] = "queued" /\ Key(chatOf[x]) \in Keys
        BY <2>5, <3>2, <1>c, <1>d, <1>e, Entries
      <4>2. PICK i \in 1..Len(queue[Key(chatOf[x])]) : queue[Key(chatOf[x])][i] = x
        BY <3>2, <4>1 DEF QueueInv, Queued
      <4>3. i \in 1..Len(queue'[Key(chatOf[x])]) /\ queue'[Key(chatOf[x])][i] = x
        BY <4>1, <4>2, <1>g, <1>h
      <4> QED BY <4>1, <4>3
    <3> QED BY <3>1, <3>2, <1>i
  <2> QED BY <2>1, <2>3, <2>4, <2>5 DEF QueueInv, Queued
<1>3. WorkerInv'
  <2>1. ASSUME NEW j \in Keys, worker'[j] = "processing"
        PROVE  /\ current'[j] \in 1..Len(chatOf')
               /\ status'[current'[j]] = "running"
               /\ Key(chatOf'[current'[j]]) = j
               /\ \A i \in 1..Len(queue'[j]) : current'[j] < queue'[j][i]
    <3>1. /\ current[j] \in 1..Len(chatOf)
          /\ status[current[j]] = "running"
          /\ Key(chatOf[current[j]]) = j
          /\ \A i \in 1..Len(queue[j]) : current[j] < queue[j][i]
      BY <2>1, <1>f DEF WorkerInv
    <3>2. current[j] \in Tickets /\ current[j] # t /\ current[j] < t /\ current'[j] = current[j]
      BY <3>1, <1>b, <1>c, Entries DEF Tickets
    <3>3. \A i \in 1..Len(queue'[j]) : current[j] < queue'[j][i]
      <4>1. CASE j # k
        BY <4>1, <3>1, <1>g
      <4>2. ASSUME j = k, NEW i \in 1..Len(queue'[j])
            PROVE  current[j] < queue'[j][i]
        <5>1. i \in 1..Len(queue[k]) \/ i = Len(queue[k]) + 1
          BY <4>2, <1>h
        <5> QED BY <5>1, <4>2, <3>1, <3>2, <1>h
      <4> QED BY <4>1, <4>2
    <3> QED BY <3>1, <3>2, <3>3, <1>c, <1>d, <1>e
  <2>2. ASSUME NEW x \in 1..Len(chatOf'), status'[x] = "running"
        PROVE  worker'[Key(chatOf'[x])] = "processing" /\ current'[Key(chatOf'[x])] = x
    <3>1. x \in 1..Len(chatOf) /\ status[x] = "running" /\ chatOf'[x] = chatOf[x] /\ Key(chatOf[x]) \in Keys
      BY <2>2, <1>c, <1>d, <1>e, <1>i, Entries
    <3> QED BY <3>1, <1>b, <1>f DEF WorkerInv
  <2>3. queue'[k] # <<>>
    BY <1>h
  <2>4. ASSUME NEW j \in Keys
        PROVE  /\ worker'[j] = "none" => queue'[j] = <<>>
               /\ worker'[j] \in {"created", "waiting", "granted"} => queue'[j] # <<>>
    BY <2>3, <1>f, <1>g DEF WorkerInv
  <2> QED BY <2>1, <2>2, <2>4 DEF WorkerInv
<1>4. LineInv'
  <2>1. \A i \in 1..Len(waiters) : waiters[i] \in Keys
    BY Entries
  <2> QED BY <2>1, <1>b, <1>f DEF LineInv
<1>5. Holders' = Holders /\ Granted' = Granted
  BY <1>f DEF Holders, Granted
<1>6. SlotInv' /\ NoLostWakeup'
  BY <1>b, <1>5 DEF SlotInv, NoLostWakeup
<1>7. CounterInv'
  <2>1. OpenTickets' = OpenTickets \union {t} /\ t \notin OpenTickets
    BY <1>c, <1>e, <1>j DEF OpenTickets, Open
  <2>2. RunningTickets' = RunningTickets
    BY <1>c, <1>e, <1>j DEF RunningTickets
  <2>3. Cardinality(OpenTickets') = Cardinality(OpenTickets) + 1
    BY <2>1, FiniteCounts, FS_AddElement
  <2> QED BY <2>2, <2>3, <1>b DEF CounterInv, Submit
<1>8. EventsTruthful'
  <2>1. pending' = pending + 1 /\ idle' = FALSE /\ (capacity' <=> capacity /\ pending + 1 < QueueLimit)
    BY DEF Submit
  <2>2. pending \in Nat /\ QueueLimit \in Nat
    BY LimitsAssumption DEF TypeOK
  <2>3. ~capacity => pending > ResumeAt
    BY DEF EventsTruthful
  <2> QED BY <2>1, <2>2, <2>3, Basics DEF EventsTruthful
<1>9. BacklogBounded' /\ BatchFits'
  <2>1. batch' = Tail(batch) /\ pending' = pending + 1
    BY DEF Submit
  <2>2. pending \in Nat /\ Len(batch) \in Nat
    BY DEF TypeOK
  <2> QED BY <2>1, <2>2, <1>a, <1>c, <1>d, LimitsAssumption DEF BacklogBounded, BatchFits
<1>10. ChatOrder'
  <2> SUFFICES ASSUME NEW x \in 1..Len(chatOf'), NEW y \in 1..Len(chatOf'), x < y,
                      Key(chatOf'[x]) = Key(chatOf'[y]), status'[y] \in {"running", "done"}
               PROVE  status'[x] \notin Open
    BY DEF ChatOrder
  <2>1. y \in 1..Len(chatOf)
    BY <1>c, <1>e, <1>i
  <2>2. x \in 1..Len(chatOf)
    BY <2>1, <1>c, <1>i
  <2>3. /\ status'[x] = status[x] /\ status'[y] = status[y]
        /\ chatOf'[x] = chatOf[x] /\ chatOf'[y] = chatOf[y]
    BY <2>1, <2>2, <1>c, <1>d, <1>e, Entries
  <2> QED BY <2>1, <2>2, <2>3 DEF ChatOrder
<1> QED BY <1>1, <1>2, <1>3, <1>4, <1>6, <1>7, <1>8, <1>9, <1>10 DEF IInv

-----------------------------------------------------------------------------
(***************************************************************************)
(* The three things a task does to the tickets of its chat: it starts the  *)
(* next one, it ends the current one, it gives up all that is left.  Each  *)
(* lemma takes the change pointwise, so that it serves every action that   *)
(* makes it.                                                               *)
(***************************************************************************)

\* The ticket a task is processing; 0 when it is not processing any.
InHand(k) == IF worker[k] = "processing" THEN current[k] ELSE 0

\* No task but that of k moves, except for being handed a slot.
OthersWait(k) ==
    \A j \in Keys : j # k =>
        \/ worker'[j] = worker[j]
        \/ worker[j] = "waiting" /\ worker'[j] = "granted"

\* What is known of the ticket in hand.
LEMMA InHandFacts ==
    ASSUME IInv, NEW k \in Keys
    PROVE  /\ InHand(k) # 0 =>
                /\ InHand(k) \in 1..Len(chatOf)
                /\ InHand(k) \in Tickets
                /\ status[InHand(k)] = "running"
                /\ Key(chatOf[InHand(k)]) = k
                /\ worker[k] = "processing"
                /\ current[k] = InHand(k)
                /\ \A i \in 1..Len(queue[k]) : InHand(k) < queue[k][i]
           /\ \A x \in 1..Len(chatOf) :
                status[x] = "running" /\ Key(chatOf[x]) = k => InHand(k) = x
<1> USE DEF IInv
<1>1. CASE worker[k] = "processing"
  BY <1>1, Entries DEF InHand, WorkerInv
<1>2. CASE worker[k] # "processing"
  BY <1>2 DEF InHand, WorkerInv
<1> QED BY <1>1, <1>2

\* The head of a queue comes before the rest of it, and is queued.
LEMMA HeadFacts ==
    ASSUME IInv, NEW k \in Keys, queue[k] # <<>>
    PROVE  /\ Head(queue[k]) = queue[k][1]
           /\ 1 \in 1..Len(queue[k])
           /\ Head(queue[k]) \in 1..Len(chatOf)
           /\ Head(queue[k]) \in Tickets
           /\ status[Head(queue[k])] = "queued"
           /\ Key(chatOf[Head(queue[k])]) = k
           /\ Tail(queue[k]) \in Seq(Tickets)
           /\ Len(Tail(queue[k])) = Len(queue[k]) - 1
           /\ \A i \in 1..Len(queue[k]) - 1 : Tail(queue[k])[i] = queue[k][i + 1]
           /\ \A i \in 2..Len(queue[k]) : Head(queue[k]) < queue[k][i]
<1> USE DEF IInv
<1>1. queue[k] \in Seq(Tickets)
  BY DEF TypeOK
<1>2. /\ Head(queue[k]) = queue[k][1] /\ 1 \in 1..Len(queue[k])
      /\ Tail(queue[k]) \in Seq(Tickets)
      /\ Len(Tail(queue[k])) = Len(queue[k]) - 1
      /\ \A i \in 1..Len(queue[k]) - 1 : Tail(queue[k])[i] = queue[k][i + 1]
  BY <1>1
<1>3. queue[k][1] \in Tickets
  BY <1>2, Entries
<1>4. queue[k][1] <= Len(chatOf) /\ status[queue[k][1]] = "queued" /\ Key(chatOf[queue[k][1]]) = k
  BY <1>2 DEF QueueInv
<1>5. queue[k][1] \in 1..Len(chatOf)
  BY <1>3, <1>4, Entries DEF Tickets
<1>6. \A i \in 2..Len(queue[k]) : queue[k][1] < queue[k][i]
  <2> SUFFICES ASSUME NEW i \in 2..Len(queue[k]) PROVE queue[k][1] < queue[k][i]
    OBVIOUS
  <2>1. i \in 1..Len(queue[k]) /\ 1 < i
    BY <1>2, Entries
  <2> QED BY <2>1, <1>2 DEF QueueInv
<1> QED BY <1>2, <1>3, <1>4, <1>5, <1>6

\* Starting the head of the queue, the ticket in hand - if any - being done.
LEMMA PopFlow ==
    ASSUME IInv, NEW k \in Keys, queue[k] # <<>>,
           chatOf' = chatOf,
           queue' = [queue EXCEPT ![k] = Tail(@)],
           current' = [current EXCEPT ![k] = Head(queue[k])],
           \A x \in Tickets : status'[x] = IF x = Head(queue[k]) THEN "running"
                                           ELSE IF x = InHand(k) THEN "done" ELSE status[x],
           worker'[k] = "processing",
           OthersWait(k)
    PROVE  /\ QueueInv' /\ WorkerInv' /\ ChatOrder'
           /\ OpenTickets' = OpenTickets \ {InHand(k)}
           /\ RunningTickets' = (RunningTickets \ {InHand(k)}) \union {Head(queue[k])}
           /\ Head(queue[k]) \notin RunningTickets
<1> DEFINE h == Head(queue[k])
           old == InHand(k)
<1> USE DEF IInv
<1>a. /\ h \in 1..Len(chatOf) /\ h \in Tickets /\ status[h] = "queued" /\ Key(chatOf[h]) = k
      /\ Len(queue[k]) \in Nat
  BY HeadFacts, Entries
<1>b. old # 0 => /\ old \in Tickets /\ status[old] = "running" /\ old \in 1..Len(chatOf)
                 /\ Key(chatOf[old]) = k /\ old # h
  BY <1>a, InHandFacts
<1>c. 0 \notin Tickets /\ \A x \in 1..Len(chatOf) : x \in Tickets
  BY Entries DEF Tickets
<1>d. /\ \A j \in Keys : j # k => queue'[j] = queue[j] /\ current'[j] = current[j]
      /\ queue'[k] = Tail(queue[k]) /\ current'[k] = h
  BY DEF TypeOK
<1>e. /\ Len(queue'[k]) = Len(queue[k]) - 1
      /\ \A i \in 1..Len(queue'[k]) : i + 1 \in 1..Len(queue[k]) /\ i + 1 \in 2..Len(queue[k])
                                      /\ queue'[k][i] = queue[k][i + 1]
  <2>1. Len(queue'[k]) = Len(queue[k]) - 1
    BY <1>d, HeadFacts
  <2>2. ASSUME NEW i \in 1..Len(queue'[k])
        PROVE  i \in 1..Len(queue[k]) - 1 /\ i + 1 \in 1..Len(queue[k]) /\ i + 1 \in 2..Len(queue[k])
    BY <2>1, <1>a
  <2> QED BY <2>1, <2>2, <1>d, HeadFacts
<1>f. \A x \in 1..Len(chatOf) : status[x] = "running" /\ Key(chatOf[x]) = k => x = old
  BY InHandFacts
<1>g. \A x \in Tickets : x # h /\ x # old => status'[x] = status[x]
  OBVIOUS
<1>h. status'[h] = "running" /\ (old # 0 => status'[old] = "done")
  BY <1>a, <1>b
<1>1. QueueInv'
  <2>1. \A x \in Tickets : status'[x] = "absent" <=> x > Len(chatOf')
    <3> SUFFICES ASSUME NEW x \in Tickets PROVE status'[x] = "absent" <=> status[x] = "absent"
      BY DEF QueueInv
    <3> QED BY <1>a, <1>b, <1>c, <1>g, <1>h
  <2>2. ASSUME NEW j \in Keys, NEW i \in 1..Len(queue'[j]), NEW l \in 1..Len(queue'[j]), i < l
        PROVE  queue'[j][i] < queue'[j][l]
    <3>1. CASE j # k
      <4>1. queue'[j] = queue[j]
        BY <3>1, <1>d
      <4> QED BY <4>1, <2>2 DEF QueueInv
    <3>2. CASE j = k
      <4>1. /\ i + 1 \in 1..Len(queue[k]) /\ l + 1 \in 1..Len(queue[k]) /\ i + 1 < l + 1
            /\ queue'[k][i] = queue[k][i + 1] /\ queue'[k][l] = queue[k][l + 1]
        BY <2>2, <3>2, <1>a, <1>e
      <4> QED BY <4>1, <3>2 DEF QueueInv
    <3> QED BY <3>1, <3>2
  <2>3. ASSUME NEW j \in Keys, NEW i \in 1..Len(queue'[j])
        PROVE  /\ queue'[j][i] <= Len(chatOf')
               /\ status'[queue'[j][i]] = "queued"
               /\ Key(chatOf'[queue'[j][i]]) = j
    <3>1. PICK l \in 1..Len(queue[j]) : queue'[j][i] = queue[j][l] /\ (j = k => l \in 2..Len(queue[k]))
      BY <1>d, <1>e
    <3>2. /\ queue[j][l] <= Len(chatOf) /\ status[queue[j][l]] = "queued"
          /\ Key(chatOf[queue[j][l]]) = j /\ queue[j][l] \in Tickets
      BY Entries DEF QueueInv
    <3>3. queue[j][l] # h
      <4>1. CASE j = k
        BY <4>1, <3>1, <3>2, <1>a, HeadFacts DEF Tickets
      <4>2. CASE j # k
        BY <4>2, <3>2, <1>a
      <4> QED BY <4>1, <4>2
    <3>4. queue[j][l] # old
      BY <3>2, <1>b, <1>c
    <3> QED BY <3>1, <3>2, <3>3, <3>4, <1>g
  <2>4. ASSUME NEW x \in 1..Len(chatOf'), status'[x] = "queued"
        PROVE  \E i \in 1..Len(queue'[Key(chatOf'[x])]) : queue'[Key(chatOf'[x])][i] = x
    <3>1. x \in Tickets /\ x # h /\ x # old /\ status[x] = "queued" /\ Key(chatOf[x]) \in Keys
      BY <2>4, <1>b, <1>c, <1>g, <1>h, Entries
    <3>2. PICK i \in 1..Len(queue[Key(chatOf[x])]) : queue[Key(chatOf[x])][i] = x
      BY <3>1 DEF QueueInv, Queued
    <3>3. CASE Key(chatOf[x]) # k
      BY <3>1, <3>2, <3>3, <1>d
    <3>4. CASE Key(chatOf[x]) = k
      <4>1. i # 1
        BY <3>1, <3>2, <3>4, HeadFacts
      <4>2. i - 1 \in 1..Len(queue'[k]) /\ (i - 1) + 1 = i
        BY <3>2, <3>4, <4>1, <1>a, <1>e
      <4>3. queue'[k][i - 1] = x
        BY <3>2, <3>4, <4>2, <1>e
      <4> QED BY <4>2, <4>3, <3>4
    <3> QED BY <3>3, <3>4
  <2>5. \A x \in 1..Len(chatOf') :
          status'[x] = "queued" => x \in Queued(Key(chatOf[x]))'
    BY <2>4 DEF Queued
  <2> QED BY <2>1, <2>2, <2>3, <2>5 DEF QueueInv
<1>2. WorkerInv'
  <2>1. ASSUME NEW j \in Keys, worker'[j] = "processing"
        PROVE  /\ current'[j] \in 1..Len(chatOf')
               /\ status'[current'[j]] = "running"
               /\ Key(chatOf'[current'[j]]) = j
               /\ \A i \in 1..Len(queue'[j]) : current'[j] < queue'[j][i]
    <3>1. CASE j = k
      <4>1. \A i \in 1..Len(queue'[k]) : h < queue'[k][i]
        BY <1>e, HeadFacts
      <4> QED BY <4>1, <3>1, <1>a, <1>d, <1>h, ZenonT(60)
    <3>2. CASE j # k
      <4>1. worker[j] = "processing"
        BY <2>1, <3>2 DEF OthersWait
      <4>2. /\ current[j] \in 1..Len(chatOf) /\ status[current[j]] = "running"
            /\ Key(chatOf[current[j]]) = j
            /\ \A i \in 1..Len(queue[j]) : current[j] < queue[j][i]
        BY <4>1 DEF WorkerInv
      <4>3. current[j] # h /\ current[j] # old /\ current[j] \in Tickets
        BY <3>2, <4>2, <1>a, <1>b, <1>c
      <4> QED BY <3>2, <4>2, <4>3, <1>d, <1>g
    <3> QED BY <3>1, <3>2
  <2>2. ASSUME NEW x \in 1..Len(chatOf'), status'[x] = "running"
        PROVE  worker'[Key(chatOf'[x])] = "processing" /\ current'[Key(chatOf'[x])] = x
    <3>1. CASE x = h
      BY <3>1, <1>a, <1>d
    <3>2. CASE x # h
      <4>1. status[x] = "running" /\ x # old /\ Key(chatOf[x]) \in Keys
        BY <2>2, <3>2, <1>b, <1>c, <1>g, <1>h, Entries
      <4>2. Key(chatOf[x]) # k
        BY <4>1, <1>f
      <4>3. worker[Key(chatOf[x])] = "processing" /\ current[Key(chatOf[x])] = x
        BY <4>1 DEF WorkerInv
      <4> QED BY <4>1, <4>2, <4>3, <1>d DEF OthersWait
    <3> QED BY <3>1, <3>2
  <2>3. ASSUME NEW j \in Keys
        PROVE  /\ worker'[j] = "none" => queue'[j] = <<>>
               /\ worker'[j] \in {"created", "waiting", "granted"} => queue'[j] # <<>>
    BY <1>d DEF OthersWait, WorkerInv
  <2> QED BY <2>1, <2>2, <2>3 DEF WorkerInv
<1>3. ChatOrder'
  <2> SUFFICES ASSUME NEW x \in 1..Len(chatOf), NEW y \in 1..Len(chatOf), x < y,
                      Key(chatOf[x]) = Key(chatOf[y]),
                      status'[y] \in {"running", "done"},
                      status'[x] \in Open
               PROVE  FALSE
    BY DEF ChatOrder
  <2>1. x \in Tickets /\ y \in Tickets /\ x # old
    BY <1>c, <1>h DEF Open
  <2>2. CASE y = h
    <3>1. x # h /\ status[x] \in Open /\ Key(chatOf[x]) = k
      BY <2>1, <2>2, <1>a, <1>g
    <3>2. status[x] = "queued"
      BY <2>1, <3>1, <1>f DEF Open
    <3>3. PICK i \in 1..Len(queue[k]) : queue[k][i] = x
      BY <3>1, <3>2 DEF QueueInv, Queued
    <3>4. i \in 2..Len(queue[k])
      BY <3>1, <3>3, <1>a, HeadFacts
    <3> QED BY <3>3, <3>4, <2>2, HeadFacts, <1>a
  <2>3. CASE y # h
    <3>1. status[y] \in {"running", "done"}
      BY <2>1, <2>3, <1>b, <1>g
    <3>2. status[x] \notin Open
      BY <3>1 DEF ChatOrder
    <3>3. x # h
      BY <3>2, <1>a DEF Open
    <3> QED BY <2>1, <3>2, <3>3, <1>g
  <2> QED BY <2>2, <2>3
<1>4. OpenTickets' = OpenTickets \ {old}
  BY <1>a, <1>b, <1>c, <1>g, <1>h DEF OpenTickets, Open
<1>5. RunningTickets' = (RunningTickets \ {old}) \union {h} /\ h \notin RunningTickets
  BY <1>a, <1>b, <1>c, <1>g, <1>h DEF RunningTickets
<1> QED BY <1>1, <1>2, <1>3, <1>4, <1>5

\* Ending the ticket in hand; the queue stays, and the task with it unless it is empty.
LEMMA FinishFlow ==
    ASSUME IInv, NEW k \in Keys, worker[k] = "processing",
           chatOf' = chatOf,
           queue' = queue,
           \A j \in Keys : j # k => current'[j] = current[j],
           \A x \in Tickets : status'[x] = IF x = current[k] THEN "done" ELSE status[x],
           IF queue[k] = <<>> THEN worker'[k] = "none" ELSE worker'[k] = "waiting",
           OthersWait(k)
    PROVE  /\ QueueInv' /\ WorkerInv' /\ ChatOrder'
           /\ OpenTickets' = OpenTickets \ {current[k]} /\ current[k] \in OpenTickets
           /\ RunningTickets' = RunningTickets \ {current[k]} /\ current[k] \in RunningTickets
<1> DEFINE old == current[k]
<1> USE DEF IInv
<1>a. /\ old \in 1..Len(chatOf) /\ old \in Tickets /\ status[old] = "running"
      /\ Key(chatOf[old]) = k
  BY Entries DEF WorkerInv
<1>b. status'[old] = "done" /\ \A x \in Tickets : x # old => status'[x] = status[x]
  BY <1>a
<1>c. \A x \in 1..Len(chatOf) : x \in Tickets /\ Key(chatOf[x]) \in Keys
  BY Entries
<1>d. \A j \in Keys : \A i \in 1..Len(queue[j]) :
         queue[j][i] \in Tickets /\ status[queue[j][i]] = "queued"
  BY Entries DEF QueueInv
<1>1. QueueInv'
  <2>1. \A x \in Tickets : status'[x] = "absent" <=> status[x] = "absent"
    BY <1>a, <1>b
  <2>2. \A j \in Keys : \A i \in 1..Len(queue[j]) : status'[queue[j][i]] = "queued"
    BY <1>a, <1>b, <1>d
  <2>3. \A x \in 1..Len(chatOf) : status'[x] = "queued" => status[x] = "queued"
    BY <1>a, <1>b, <1>c
  <2> QED BY <2>1, <2>2, <2>3, SMTT(60) DEF QueueInv, Queued
<1>2. WorkerInv'
  <2>1. ASSUME NEW j \in Keys, worker'[j] = "processing"
        PROVE  /\ j # k /\ worker[j] = "processing"
               /\ current'[j] = current[j]
               /\ status'[current[j]] = "running"
    <3>1. j # k /\ worker[j] = "processing"
      BY <2>1 DEF OthersWait
    <3>2. /\ current[j] \in 1..Len(chatOf) /\ status[current[j]] = "running"
          /\ Key(chatOf[current[j]]) = j
      BY <3>1 DEF WorkerInv
    <3> QED BY <3>1, <3>2, <1>a, <1>b, <1>c
  <2>2. ASSUME NEW x \in 1..Len(chatOf), status'[x] = "running"
        PROVE  worker'[Key(chatOf[x])] = "processing" /\ current'[Key(chatOf[x])] = x
    <3>1. x # old /\ status[x] = "running" /\ Key(chatOf[x]) \in Keys
      BY <2>2, <1>a, <1>b, <1>c
    <3>2. worker[Key(chatOf[x])] = "processing" /\ current[Key(chatOf[x])] = x
      BY <3>1 DEF WorkerInv
    <3>3. Key(chatOf[x]) # k
      BY <3>1, <3>2
    <3> QED BY <3>1, <3>2, <3>3 DEF OthersWait
  <2>3. ASSUME NEW j \in Keys
        PROVE  /\ worker'[j] = "none" => queue[j] = <<>>
               /\ worker'[j] \in {"created", "waiting", "granted"} => queue[j] # <<>>
    BY DEF OthersWait, WorkerInv
  <2> QED BY <2>1, <2>2, <2>3 DEF WorkerInv
<1>3. ChatOrder'
  <2> SUFFICES ASSUME NEW x \in 1..Len(chatOf), NEW y \in 1..Len(chatOf), x < y,
                      Key(chatOf[x]) = Key(chatOf[y]),
                      status'[y] \in {"running", "done"},
                      status'[x] \in Open
               PROVE  FALSE
    BY DEF ChatOrder
  <2>1. x # old /\ status[x] \in Open
    BY <1>a, <1>b, <1>c DEF Open
  <2>2. status[y] \in {"running", "done"}
    BY <1>a, <1>b, <1>c
  <2> QED BY <2>1, <2>2 DEF ChatOrder
<1>4. OpenTickets' = OpenTickets \ {old} /\ old \in OpenTickets
  BY <1>a, <1>b DEF OpenTickets, Open
<1>5. RunningTickets' = RunningTickets \ {old} /\ old \in RunningTickets
  BY <1>a, <1>b DEF RunningTickets
<1> QED BY <1>1, <1>2, <1>3, <1>4, <1>5

\* Giving up all that is left in a chat, the ticket in hand - if any - being over.
LEMMA DropFlow ==
    ASSUME IInv, NEW k \in Keys, NEW fate \in {"done", "dropped"},
           chatOf' = chatOf,
           queue' = [queue EXCEPT ![k] = <<>>],
           \A j \in Keys : j # k => current'[j] = current[j],
           \A x \in Tickets : status'[x] =
               IF x = InHand(k) THEN fate
               ELSE IF status[x] = "queued" /\ Key(chatOf[x]) = k THEN "dropped" ELSE status[x],
           worker'[k] = "none",
           \A j \in Keys : j # k => worker'[j] = worker[j]
    PROVE  /\ QueueInv' /\ WorkerInv' /\ ChatOrder'
           /\ OpenTickets' = (OpenTickets \ {InHand(k)}) \ Queued(k)
           /\ RunningTickets' = RunningTickets \ {InHand(k)}
           /\ Queued(k) \subseteq OpenTickets
           /\ InHand(k) \notin Queued(k)
           /\ InHand(k) # 0 => InHand(k) \in OpenTickets /\ InHand(k) \in RunningTickets
           /\ InHand(k) = 0 => InHand(k) \notin OpenTickets /\ InHand(k) \notin RunningTickets
<1> DEFINE old == InHand(k)
<1> USE DEF IInv
<1>a. old # 0 => /\ old \in Tickets /\ status[old] = "running" /\ old \in 1..Len(chatOf)
                 /\ Key(chatOf[old]) = k
  BY InHandFacts
<1>b. 0 \notin Tickets /\ \A x \in 1..Len(chatOf) : x \in Tickets /\ Key(chatOf[x]) \in Keys
  BY Entries DEF Tickets
<1>c. \A j \in Keys : \A i \in 1..Len(queue[j]) :
         /\ queue[j][i] \in Tickets /\ status[queue[j][i]] = "queued"
         /\ Key(chatOf[queue[j][i]]) = j
  BY Entries DEF QueueInv
<1>d. \A j \in Keys : j # k => queue'[j] = queue[j]
  BY DEF TypeOK
<1>e. queue'[k] = <<>> /\ Len(queue'[k]) = 0
  BY DEF TypeOK
<1>f. \A x \in 1..Len(chatOf) : status[x] = "running" /\ Key(chatOf[x]) = k => x = old
  BY InHandFacts
<1>g. \A x \in Tickets : status'[x] \in {"queued", "running", "absent"}
                         => status'[x] = status[x] /\ x # old
                            /\ ~(status[x] = "queued" /\ Key(chatOf[x]) = k)
  BY <1>a, <1>b
<1>h. \A x \in Tickets : x # old /\ ~(status[x] = "queued" /\ Key(chatOf[x]) = k)
                         => status'[x] = status[x]
  OBVIOUS
<1>i. \A x \in Tickets : status[x] = "absent" => status'[x] = "absent"
  BY <1>a, <1>b
<1>1. QueueInv'
  <2>1. \A x \in Tickets : status'[x] = "absent" <=> status[x] = "absent"
    BY <1>g, <1>i
  <2>2. ASSUME NEW j \in Keys, NEW i \in 1..Len(queue'[j])
        PROVE  j # k /\ queue'[j] = queue[j] /\ status'[queue[j][i]] = "queued"
    <3>1. j # k /\ queue'[j] = queue[j]
      BY <1>d, <1>e
    <3>2. queue[j][i] \in Tickets /\ status[queue[j][i]] = "queued" /\ Key(chatOf[queue[j][i]]) = j
      BY <3>1, <1>c
    <3> QED BY <3>1, <3>2, <1>a, <1>b, <1>h
  <2>3. \A j \in Keys : \A i, l \in 1..Len(queue'[j]) : i < l => queue'[j][i] < queue'[j][l]
    BY <2>2 DEF QueueInv
  <2>4. \A j \in Keys : \A i \in 1..Len(queue'[j]) :
           /\ queue'[j][i] <= Len(chatOf)
           /\ status'[queue'[j][i]] = "queued"
           /\ Key(chatOf[queue'[j][i]]) = j
    BY <2>2 DEF QueueInv
  <2>5. ASSUME NEW x \in 1..Len(chatOf), status'[x] = "queued"
        PROVE  \E i \in 1..Len(queue'[Key(chatOf[x])]) : queue'[Key(chatOf[x])][i] = x
    <3>1. status[x] = "queued" /\ Key(chatOf[x]) # k /\ Key(chatOf[x]) \in Keys
      BY <2>5, <1>b, <1>g
    <3>2. PICK i \in 1..Len(queue[Key(chatOf[x])]) : queue[Key(chatOf[x])][i] = x
      BY <3>1 DEF QueueInv, Queued
    <3> QED BY <3>1, <3>2, <1>d
  <2>6. \A x \in 1..Len(chatOf) : status'[x] = "queued" => x \in Queued(Key(chatOf[x]))'
    BY <2>5 DEF Queued
  <2> QED BY <2>1, <2>3, <2>4, <2>6 DEF QueueInv
<1>2. WorkerInv'
  <2>1. ASSUME NEW j \in Keys, worker'[j] = "processing"
        PROVE  /\ j # k /\ worker[j] = "processing"
               /\ current'[j] = current[j]
               /\ status'[current[j]] = "running"
               /\ queue'[j] = queue[j]
    <3>1. j # k /\ worker[j] = "processing"
      BY <2>1
    <3>2. /\ current[j] \in 1..Len(chatOf) /\ status[current[j]] = "running"
          /\ Key(chatOf[current[j]]) = j
      BY <3>1 DEF WorkerInv
    <3> QED BY <3>1, <3>2, <1>a, <1>b, <1>d, <1>h
  <2>2. ASSUME NEW x \in 1..Len(chatOf), status'[x] = "running"
        PROVE  worker'[Key(chatOf[x])] = "processing" /\ current'[Key(chatOf[x])] = x
    <3>1. x # old /\ status[x] = "running" /\ Key(chatOf[x]) \in Keys
      BY <2>2, <1>b, <1>g
    <3>2. worker[Key(chatOf[x])] = "processing" /\ current[Key(chatOf[x])] = x
      BY <3>1 DEF WorkerInv
    <3>3. Key(chatOf[x]) # k
      BY <3>1, <1>f
    <3> QED BY <3>1, <3>2, <3>3
  <2>3. ASSUME NEW j \in Keys
        PROVE  /\ worker'[j] = "none" => queue'[j] = <<>>
               /\ worker'[j] \in {"created", "waiting", "granted"} => queue'[j] # <<>>
    BY <1>d, <1>e DEF WorkerInv
  <2> QED BY <2>1, <2>2, <2>3 DEF WorkerInv
<1>3. ChatOrder'
  <2> SUFFICES ASSUME NEW x \in 1..Len(chatOf), NEW y \in 1..Len(chatOf), x < y,
                      Key(chatOf[x]) = Key(chatOf[y]),
                      status'[y] \in {"running", "done"},
                      status'[x] \in Open
               PROVE  FALSE
    BY DEF ChatOrder
  <2>1. x # old /\ status[x] \in Open /\ ~(status[x] = "queued" /\ Key(chatOf[x]) = k)
    BY <1>b, <1>g DEF Open
  <2>2. status[y] \in {"running", "done"}
    BY <1>a, <1>b
  <2> QED BY <2>1, <2>2 DEF ChatOrder
<1>4. \A x \in Tickets : x \in Queued(k) <=> status[x] = "queued" /\ Key(chatOf[x]) = k
  <2>1. ASSUME NEW x \in Tickets, x \in Queued(k)
        PROVE  status[x] = "queued" /\ Key(chatOf[x]) = k
    BY <2>1, <1>c DEF Queued
  <2>2. ASSUME NEW x \in Tickets, status[x] = "queued", Key(chatOf[x]) = k
        PROVE  x \in Queued(k)
    <3>1. x \in 1..Len(chatOf)
      <4>1. ~(x > Len(chatOf))
        BY <2>2 DEF QueueInv
      <4> QED BY <4>1, Entries DEF Tickets
    <3> QED BY <3>1, <2>2 DEF QueueInv
  <2> QED BY <2>1, <2>2
<1>5. Queued(k) \subseteq OpenTickets
  BY <1>c DEF Queued, OpenTickets, Open
<1>6. old \notin Queued(k)
  BY <1>a, <1>b, <1>c DEF Queued
<1>7. OpenTickets' = (OpenTickets \ {old}) \ Queued(k)
  <2>1. \A x \in Tickets : status'[x] \in Open <=> status[x] \in Open /\ x # old /\ x \notin Queued(k)
    BY <1>a, <1>b, <1>4, <1>g, <1>h DEF Open
  <2> QED BY <2>1 DEF OpenTickets
<1>8. RunningTickets' = RunningTickets \ {old}
  <2>1. \A x \in Tickets : status'[x] = "running" <=> status[x] = "running" /\ x # old
    BY <1>g, <1>h
  <2> QED BY <2>1 DEF RunningTickets
<1>9. /\ old # 0 => old \in OpenTickets /\ old \in RunningTickets
      /\ old = 0 => old \notin OpenTickets /\ old \notin RunningTickets
  BY <1>a, <1>b DEF OpenTickets, RunningTickets, Open
<1> QED BY <1>1, <1>2, <1>3, <1>5, <1>6, <1>7, <1>8, <1>9

\* The length of a queue counts its tickets.
LEMMA QueuedCount ==
    ASSUME IInv, NEW k \in Keys
    PROVE  /\ IsFiniteSet(Queued(k))
           /\ Cardinality(Queued(k)) = Len(queue[k])
<1>1. queue[k] \in Seq(Tickets) /\ Len(queue[k]) \in 0..Len(queue[k])
  BY DEF IInv, TypeOK
<1>2. ASSUME NEW i \in 1..Len(queue[k]), NEW j \in 1..Len(queue[k]), i # j
      PROVE  queue[k][i] # queue[k][j]
  <2>1. queue[k][i] \in Nat /\ queue[k][j] \in Nat
    BY Entries DEF IInv, Tickets
  <2>2. i < j \/ j < i
    BY <1>2, <1>1
  <2>3. queue[k][i] < queue[k][j] \/ queue[k][j] < queue[k][i]
    BY <2>2 DEF IInv, QueueInv
  <2> QED BY <2>1, <2>3
<1> QED BY <1>1, <1>2, SeqCount DEF Queued

\* What _settle(n) keeps true, when n updates are really over.
LEMMA SettleKeeps ==
    ASSUME IInv, NEW n \in Nat, Settle(n),
           pending - n = Cardinality(OpenTickets'), Cardinality(OpenTickets') \in Nat,
           UNCHANGED <<batch, chatOf>>
    PROVE  /\ pending' \in Nat /\ pending' = Cardinality(OpenTickets')
           /\ capacity' \in BOOLEAN /\ idle' \in BOOLEAN
           /\ EventsTruthful' /\ BacklogBounded' /\ BatchFits'
<1> USE DEF IInv
<1>1. pending' = pending - n /\ pending' \in Nat /\ pending \in Nat
  BY DEF Settle, TypeOK
<1>2. capacity' \in BOOLEAN /\ idle' \in BOOLEAN
  BY Zenon DEF Settle
<1>3. EventsTruthful'
  <2>1. idle' <=> idle \/ pending' = 0
    BY <1>1 DEF Settle
  <2>2. capacity' <=> capacity \/ pending' <= ResumeAt
    BY <1>1 DEF Settle
  <2>3. /\ idle <=> pending = 0
        /\ ~capacity => pending > ResumeAt
        /\ capacity => pending < QueueLimit
    BY DEF EventsTruthful
  <2>4. pending' <= pending /\ QueueLimit \in Nat
    BY <1>1, LimitsAssumption
  <2> QED BY <1>1, <2>1, <2>2, <2>3, <2>4, Basics DEF EventsTruthful
<1>4. BacklogBounded' /\ BatchFits'
  BY <1>1, LimitsAssumption DEF BacklogBounded, BatchFits, TypeOK
<1> QED BY <1>1, <1>2, <1>3, <1>4

-----------------------------------------------------------------------------
(***************************************************************************)
(* The invariant is kept by every action.                                  *)
(***************************************************************************)

\* The actions that move nothing but the poll loop.
LEMMA ControlStep ==
    ASSUME IInv, TypeOK',
           UNCHANGED <<batch, tickets, queue, worker, current, slots, counters, stopped>>
    PROVE  IInv'
<1> USE DEF IInv
<1>1. UNCHANGED <<batch, chatOf, status, queue, worker, current, waiters, free,
                  pending, running, capacity, idle, stopped>>
  BY DEF tickets, slots, counters
<1>2. QueueInv' /\ WorkerInv' /\ LineInv'
  BY <1>1 DEF QueueInv, Queued, WorkerInv, LineInv
<1>3. SlotInv' /\ CounterInv' /\ BatchFits'
  BY <1>1 DEF SlotInv, Holders, CounterInv, OpenTickets, RunningTickets, BatchFits
<1>4. EventsTruthful' /\ NoLostWakeup' /\ BacklogBounded' /\ ChatOrder'
  BY <1>1 DEF EventsTruthful, NoLostWakeup, Granted, BacklogBounded, ChatOrder
<1> QED BY <1>2, <1>3, <1>4

LEMMA ReceiveStep ==
    ASSUME IInv, NEW cs \in Batches, Receive(cs)
    PROVE  IInv'
<1> USE DEF IInv
<1>1. /\ batch' = cs /\ capacity /\ Len(cs) <= MaxBatch /\ Len(chatOf) + Len(cs) <= MaxUpdates
      /\ UNCHANGED <<chatOf, status, queue, worker, current, waiters, free,
                     pending, running, capacity, idle, stopped, phase, final, stuck>>
  BY DEF Receive, tickets, slots, counters, control
<1>2. cs \in Seq(Keys) /\ Len(cs) \in Nat
  <2>1. PICK n \in 1..MaxBatch : cs \in [1..n -> Keys]
    BY DEF Batches
  <2> QED BY <2>1, LimitsAssumption
<1>3. TypeOK'
  BY <1>1, <1>2 DEF TypeOK
<1>4. QueueInv' /\ WorkerInv' /\ LineInv'
  BY <1>1 DEF QueueInv, Queued, WorkerInv, LineInv
<1>5. SlotInv' /\ CounterInv'
  BY <1>1 DEF SlotInv, Holders, CounterInv, OpenTickets, RunningTickets
<1>6. EventsTruthful' /\ NoLostWakeup' /\ ChatOrder'
  BY <1>1 DEF EventsTruthful, NoLostWakeup, Granted, ChatOrder
<1>7. BatchFits' /\ BacklogBounded'
  <2>1. pending < QueueLimit /\ pending \in Nat
    BY <1>1 DEF EventsTruthful, TypeOK
  <2> QED BY <2>1, <1>1, <1>2, LimitsAssumption DEF BatchFits, BacklogBounded
<1> QED BY <1>3, <1>4, <1>5, <1>6, <1>7

LEMMA AbortStep ==
    ASSUME IInv, NEW last \in BOOLEAN, Abort(last)
    PROVE  IInv'
<1> USE DEF IInv
<1>1. /\ waiters' = <<>> /\ stopped' = TRUE /\ final' = last
      /\ phase' \in {"aborting", "closed", "drained"}
      /\ UNCHANGED <<batch, chatOf, status, queue, worker, current, free,
                     pending, running, capacity, idle, stuck>>
  BY DEF Abort, tickets, counters
<1>2. TypeOK'
  BY <1>1 DEF TypeOK
<1>3. QueueInv' /\ WorkerInv' /\ LineInv'
  BY <1>1 DEF QueueInv, Queued, WorkerInv, LineInv
<1>4. SlotInv' /\ CounterInv' /\ BatchFits'
  BY <1>1 DEF SlotInv, Holders, CounterInv, OpenTickets, RunningTickets, BatchFits
<1>5. EventsTruthful' /\ NoLostWakeup' /\ BacklogBounded' /\ ChatOrder'
  BY <1>1 DEF EventsTruthful, NoLostWakeup, BacklogBounded, ChatOrder
<1> QED BY <1>2, <1>3, <1>4, <1>5

LEMMA CancelUnbornStep ==
    ASSUME IInv, NEW k \in Keys, CancelUnborn(k)
    PROVE  IInv'
<1> USE DEF IInv
<1>1. /\ stopped /\ worker[k] = "created"
      /\ UNCHANGED <<batch, chatOf, status, queue, current, waiters, free,
                     pending, running, capacity, idle, stopped, phase, final, stuck>>
  BY DEF CancelUnborn, tickets, slots, counters, control
<1>2. \A j \in Keys : worker'[j] = IF j = k THEN "dead" ELSE worker[j]
  BY DEF CancelUnborn, TypeOK
<1>3. TypeOK'
  <2>1. worker' \in [Keys -> {"none", "created", "waiting", "granted", "processing", "dead"}]
    BY DEF CancelUnborn, TypeOK
  <2> QED BY <2>1, <1>1 DEF TypeOK
<1>4. QueueInv' /\ BatchFits' /\ ChatOrder'
  BY <1>1 DEF QueueInv, Queued, BatchFits, ChatOrder
<1>5. WorkerInv'
  <2>1. \A x \in 1..Len(chatOf) : Key(chatOf[x]) \in Keys
    BY Entries
  <2>2. ASSUME NEW x \in 1..Len(chatOf), status[x] = "running"
        PROVE  worker'[Key(chatOf[x])] = "processing" /\ current[Key(chatOf[x])] = x
    BY <2>1, <2>2, <1>1, <1>2 DEF WorkerInv
  <2>3. ASSUME NEW j \in Keys, worker'[j] = "processing"
        PROVE  worker[j] = "processing"
    BY <2>3, <1>2
  <2>4. \A j \in Keys :
           /\ worker'[j] = "none" => queue[j] = <<>>
           /\ worker'[j] \in {"created", "waiting", "granted"} => queue[j] # <<>>
    BY <1>2 DEF WorkerInv
  <2> QED BY <2>2, <2>3, <2>4, <1>1 DEF WorkerInv
<1>6. LineInv' /\ NoLostWakeup'
  <2>1. waiters = <<>>
    BY <1>1 DEF LineInv
  <2> QED BY <2>1, <1>1 DEF LineInv, NoLostWakeup
<1>7. Holders' = Holders
  BY <1>1, <1>2 DEF Holders
<1>8. SlotInv' /\ CounterInv' /\ EventsTruthful' /\ BacklogBounded'
  BY <1>1, <1>7
  DEF SlotInv, CounterInv, OpenTickets, RunningTickets, EventsTruthful, BacklogBounded
<1> QED BY <1>3, <1>4, <1>5, <1>6, <1>8

LEMMA RestartStep ==
    ASSUME IInv, Restart
    PROVE  IInv'
<1> USE DEF IInv
<1>1. /\ batch' = <<>> /\ waiters' = <<>> /\ free' = Concurrency /\ pending' = 0 /\ running' = 0
      /\ capacity' = TRUE /\ idle' = TRUE /\ stopped' = FALSE /\ phase' = "receiving"
      /\ final' = FALSE /\ stuck' = FALSE /\ chatOf' = chatOf
      /\ queue' = [k \in Keys |-> <<>>]
      /\ worker' = [k \in Keys |-> "none"]
      /\ current' = [k \in Keys |-> 0]
      /\ status' = [t \in Tickets |-> IF status[t] \in Open THEN "killed" ELSE status[t]]
  BY DEF Restart
<1>2. \A t \in Tickets : /\ status'[t] \notin Open
                         /\ status'[t] = "absent" <=> status[t] = "absent"
                         /\ status'[t] \in {"absent", "queued", "running", "done", "dropped", "killed"}
  BY <1>1 DEF Open, TypeOK
<1>3. TypeOK'
  <2>1. batch' \in Seq(Keys) /\ waiters' \in Seq(Keys)
    BY <1>1
  <2>2. queue' \in [Keys -> Seq(Tickets)]
    BY <1>1
  <2>3. free' \in 0..Concurrency
    BY <1>1, LimitsAssumption
  <2>4. status' \in [Tickets -> {"absent", "queued", "running", "done", "dropped", "killed"}]
    BY <1>1, <1>2
  <2>5. /\ worker' \in [Keys -> {"none", "created", "waiting", "granted", "processing", "dead"}]
        /\ current' \in [Keys -> Tickets \union {0}]
    BY <1>1
  <2>6. chatOf' \in Seq(Keys) /\ Len(chatOf') <= MaxUpdates
    BY <1>1 DEF TypeOK
  <2> QED BY <2>1, <2>2, <2>3, <2>4, <2>5, <2>6, <1>1 DEF TypeOK
<1>4. \A t \in 1..Len(chatOf) : t \in Tickets
  BY Entries
<1>5. QueueInv'
  BY <1>1, <1>2, <1>4 DEF QueueInv, Open
<1>6. WorkerInv'
  BY <1>1, <1>2, <1>4 DEF WorkerInv, Open
<1>7. LineInv' /\ NoLostWakeup'
  BY <1>1 DEF LineInv, NoLostWakeup
<1>8. Holders' = {} /\ OpenTickets' = {} /\ RunningTickets' = {}
  BY <1>1, <1>2 DEF Holders, OpenTickets, RunningTickets, Open
<1>9. SlotInv' /\ CounterInv'
  BY <1>1, <1>8, FS_EmptySet, LimitsAssumption DEF SlotInv, CounterInv
<1>10. EventsTruthful' /\ BacklogBounded' /\ BatchFits'
  BY <1>1, LimitsAssumption, Basics DEF EventsTruthful, BacklogBounded, BatchFits, TypeOK
<1>11. ChatOrder'
  BY <1>1, <1>2, <1>4 DEF ChatOrder
<1> QED BY <1>3, <1>5, <1>6, <1>7, <1>9, <1>10, <1>11

LEMMA BeginChatStep ==
    ASSUME IInv, NEW k \in Keys, BeginChat(k)
    PROVE  IInv'
<1> USE DEF IInv
<1>a. /\ ~stopped /\ worker[k] = "created"
      /\ UNCHANGED <<batch, chatOf, pending, capacity, idle, stopped, phase, final, stuck>>
  BY DEF BeginChat, control
<1>b. queue[k] # <<>> /\ waiters \in Seq(Keys)
  BY <1>a DEF WorkerInv, TypeOK
<1>1. CASE /\ Locked
           /\ waiters' = Append(waiters, k)
           /\ worker' = [worker EXCEPT ![k] = "waiting"]
           /\ UNCHANGED <<free, running, queue, current, status>>
  <2>1. \A j \in Keys : worker'[j] = IF j = k THEN "waiting" ELSE worker[j]
    BY <1>1 DEF TypeOK
  <2>2. TypeOK'
    <3>1. worker' \in [Keys -> {"none", "created", "waiting", "granted", "processing", "dead"}]
      BY <1>1 DEF TypeOK
    <3>2. waiters' \in Seq(Keys)
      BY <1>1, <1>b
    <3> QED BY <3>1, <3>2, <1>a, <1>1 DEF TypeOK
  <2>3. QueueInv' /\ BatchFits' /\ ChatOrder'
    BY <1>a, <1>1 DEF QueueInv, Queued, BatchFits, ChatOrder
  <2>4. WorkerInv'
    <3>1. \A x \in 1..Len(chatOf) : Key(chatOf[x]) \in Keys
      BY Entries
    <3>2. ASSUME NEW x \in 1..Len(chatOf), status[x] = "running"
          PROVE  worker'[Key(chatOf[x])] = "processing" /\ current[Key(chatOf[x])] = x
      BY <3>1, <3>2, <1>a, <2>1 DEF WorkerInv
    <3>3. ASSUME NEW j \in Keys, worker'[j] = "processing"
          PROVE  worker[j] = "processing"
      BY <3>3, <2>1
    <3>4. \A j \in Keys :
             /\ worker'[j] = "none" => queue[j] = <<>>
             /\ worker'[j] \in {"created", "waiting", "granted"} => queue[j] # <<>>
      BY <1>b, <2>1 DEF WorkerInv
    <3> QED BY <3>2, <3>3, <3>4, <1>a, <1>1 DEF WorkerInv
  <2>5. LineInv'
    <3>1. /\ Len(waiters') = Len(waiters) + 1 /\ Len(waiters) \in Nat
          /\ waiters'[Len(waiters) + 1] = k
          /\ \A i \in 1..Len(waiters) : waiters'[i] = waiters[i]
      BY <1>1, <1>b
    <3>2. \A i \in 1..Len(waiters) : waiters[i] # k /\ waiters[i] \in Keys
      BY <1>a, Entries DEF LineInv
    <3>3. \A i \in 1..Len(waiters') : i = Len(waiters) + 1 \/ i \in 1..Len(waiters)
      BY <3>1
    <3>4. \A i \in 1..Len(waiters') : worker'[waiters'[i]] = "waiting"
      BY <3>1, <3>2, <3>3, <2>1 DEF LineInv
    <3>5. \A i, j \in 1..Len(waiters') : i # j => waiters'[i] # waiters'[j]
      BY <3>1, <3>2, <3>3 DEF LineInv
    <3> QED BY <3>4, <3>5, <1>a DEF LineInv
  <2>6. Holders' = Holders /\ Granted' = Granted
    BY <1>a, <2>1 DEF Holders, Granted
  <2>7. SlotInv' /\ CounterInv' /\ EventsTruthful' /\ BacklogBounded'
    BY <1>a, <1>1, <2>6
    DEF SlotInv, CounterInv, OpenTickets, RunningTickets, EventsTruthful, BacklogBounded
  <2>8. NoLostWakeup'
    <3>1. free > 0 => Granted # {}
      BY <1>1 DEF Locked, NoLostWakeup, TypeOK
    <3> QED BY <3>1, <1>1, <2>6 DEF NoLostWakeup
  <2> QED BY <2>2, <2>3, <2>4, <2>5, <2>7, <2>8
<1>2. CASE /\ ~Locked
           /\ free' = free - 1
           /\ running' = running + 1
           /\ worker' = [worker EXCEPT ![k] = "processing"]
           /\ StartNext(k, NoFate)
           /\ UNCHANGED waiters
  <2>1. \A j \in Keys : worker'[j] = IF j = k THEN "processing" ELSE worker[j]
    BY <1>2 DEF TypeOK
  <2>2. /\ free # 0 /\ waiters = <<>> /\ Granted = {} /\ free \in 0..Concurrency
    BY <1>2 DEF Locked, TypeOK
  <2>3. /\ queue' = [queue EXCEPT ![k] = Tail(@)]
        /\ current' = [current EXCEPT ![k] = Head(queue[k])]
        /\ status' = [x \in Tickets |-> IF x = Head(queue[k]) THEN "running" ELSE status[x]]
    BY <1>2 DEF StartNext, NoFate
  <2>4. InHand(k) = 0 /\ 0 \notin Tickets
    BY <1>a DEF InHand, Tickets
  <2>5. /\ QueueInv' /\ WorkerInv' /\ ChatOrder'
        /\ OpenTickets' = OpenTickets \ {0}
        /\ RunningTickets' = (RunningTickets \ {0}) \union {Head(queue[k])}
        /\ Head(queue[k]) \notin RunningTickets
    <3>1. worker'[k] = "processing" /\ \A j \in Keys : j # k => worker'[j] = worker[j]
      BY <2>1
    <3>a. OthersWait(k)
      BY <3>1 DEF OthersWait
    <3>2. \A x \in Tickets : status'[x] = IF x = Head(queue[k]) THEN "running"
                                          ELSE IF x = InHand(k) THEN "done" ELSE status[x]
      BY <2>3, <2>4
    <3> QED BY <3>1, <3>a, <3>2, <1>a, <1>b, <2>3, <2>4, PopFlow
  <2>6. TypeOK'
    <3>1. /\ worker' \in [Keys -> {"none", "created", "waiting", "granted", "processing", "dead"}]
          /\ free' \in 0..Concurrency /\ running' \in Nat
      BY <1>2, <2>2, LimitsAssumption DEF TypeOK
    <3>2. Head(queue[k]) \in Tickets /\ Tail(queue[k]) \in Seq(Tickets)
      BY <1>b, HeadFacts
    <3>3. /\ queue' \in [Keys -> Seq(Tickets)]
          /\ current' \in [Keys -> Tickets \union {0}]
      BY <3>2, <2>3 DEF TypeOK
    <3>4. status' \in [Tickets -> {"absent", "queued", "running", "done", "dropped", "killed"}]
      BY <2>3 DEF TypeOK
    <3> QED BY <3>1, <3>3, <3>4, <1>a, <1>2 DEF TypeOK
  <2>7. LineInv' /\ NoLostWakeup'
    BY <1>2, <2>2 DEF LineInv, NoLostWakeup
  <2>8. SlotInv'
    <3>1. Holders' = Holders \union {k} /\ k \notin Holders
      BY <1>a, <2>1 DEF Holders
    <3>2. Cardinality(Holders') = Cardinality(Holders) + 1
      BY <3>1, FiniteCounts, FS_AddElement
    <3> QED BY <3>2, <1>2, <2>2, FiniteCounts, LimitsAssumption DEF SlotInv
  <2>9. OpenTickets' = OpenTickets /\ RunningTickets' = RunningTickets \union {Head(queue[k])}
    BY <2>4, <2>5 DEF OpenTickets, RunningTickets
  <2>10. CounterInv'
    <3>1. Cardinality(RunningTickets') = Cardinality(RunningTickets) + 1
      BY <2>5, <2>9, FiniteCounts, FS_AddElement
    <3> QED BY <3>1, <2>9, <1>a, <1>2 DEF CounterInv
  <2>11. EventsTruthful' /\ BacklogBounded' /\ BatchFits'
    BY <1>a DEF EventsTruthful, BacklogBounded, BatchFits
  <2> QED BY <2>5, <2>6, <2>7, <2>8, <2>10, <2>11
<1> QED BY <1>1, <1>2 DEF BeginChat

\* Waking the first m in line: what becomes of the line.
LEMMA WokenFacts ==
    ASSUME IInv, NEW m \in 0..Len(waiters)
    PROVE  LET woken == {waiters[i] : i \in 1..m}
               rest  == SubSeq(waiters, m + 1, Len(waiters))
           IN  /\ IsFiniteSet(woken) /\ Cardinality(woken) = m
               /\ woken \subseteq Keys
               /\ \A j \in woken : worker[j] = "waiting"
               /\ rest \in Seq(Keys) /\ Len(rest) = Len(waiters) - m
               /\ \A i \in 1..Len(rest) : rest[i] = waiters[i + m] /\ i + m \in 1..Len(waiters)
               /\ \A i \in 1..Len(rest) : rest[i] \notin woken
<1> USE DEF IInv
<1> DEFINE woken == {waiters[i] : i \in 1..m}
           rest  == SubSeq(waiters, m + 1, Len(waiters))
<1>1. waiters \in Seq(Keys) /\ Len(waiters) \in Nat /\ m \in Nat /\ m <= Len(waiters)
  BY DEF TypeOK
<1>2. \A i \in 1..m : i \in 1..Len(waiters)
  BY <1>1
<1>3. IsFiniteSet(woken) /\ Cardinality(woken) = m
  <2>1. \A i, j \in 1..Len(waiters) : i # j => waiters[i] # waiters[j]
    BY DEF LineInv
  <2> QED BY <2>1, <1>1, SeqCount
<1>4. woken \subseteq Keys /\ \A j \in woken : worker[j] = "waiting"
  BY <1>2, Entries DEF LineInv
<1>5. rest \in Seq(Keys) /\ Len(rest) = Len(waiters) - m
  BY <1>1
<1>6. \A i \in 1..Len(rest) : rest[i] = waiters[i + m] /\ i + m \in 1..Len(waiters)
  BY <1>1, <1>5
<1>7. \A i \in 1..Len(rest) : rest[i] \notin woken
  <2> SUFFICES ASSUME NEW i \in 1..Len(rest), NEW l \in 1..m PROVE rest[i] # waiters[l]
    OBVIOUS
  <2>1. i + m # l /\ i + m \in 1..Len(waiters) /\ l \in 1..Len(waiters)
    BY <1>1, <1>2, <1>5
  <2> QED BY <2>1, <1>6 DEF LineInv
<1> QED BY <1>3, <1>4, <1>5, <1>6, <1>7

LEMMA ResumeStep ==
    ASSUME IInv, NEW k \in Keys, Resume(k)
    PROVE  IInv'
<1> USE DEF IInv
<1> DEFINE m     == IF free < Len(waiters) THEN free ELSE Len(waiters)
           woken == {waiters[i] : i \in 1..m}
<1>a. /\ ~stopped /\ worker[k] = "granted"
      /\ free' = free - m
      /\ waiters' = SubSeq(waiters, m + 1, Len(waiters))
      /\ running' = running + 1
      /\ UNCHANGED <<batch, chatOf, pending, capacity, idle, stopped, phase, final, stuck>>
  BY DEF Resume, control
<1>b. /\ queue[k] # <<>>
      /\ free \in 0..Concurrency /\ Len(waiters) \in Nat
  BY <1>a, Entries DEF WorkerInv, TypeOK
<1>c. m \in 0..Len(waiters) /\ m <= free
  BY <1>b, LimitsAssumption
<1>d. /\ IsFiniteSet(woken) /\ Cardinality(woken) = m /\ woken \subseteq Keys
      /\ \A j \in woken : worker[j] = "waiting"
      /\ waiters' \in Seq(Keys) /\ Len(waiters') = Len(waiters) - m
      /\ \A i \in 1..Len(waiters') : waiters'[i] = waiters[i + m] /\ i + m \in 1..Len(waiters)
      /\ \A i \in 1..Len(waiters') : waiters'[i] \notin woken
  <2> HIDE DEF m
  <2> QED BY <1>a, <1>c, WokenFacts
<1>e. worker' = [j \in Keys |-> IF j = k THEN "processing"
                                ELSE IF j \in woken THEN "granted" ELSE worker[j]]
  BY DEF Resume
<1> HIDE DEF m, woken
<1>f. \A j \in Keys : worker'[j] = IF j = k THEN "processing"
                                   ELSE IF j \in woken THEN "granted" ELSE worker[j]
  BY <1>e
<1>g. /\ queue' = [queue EXCEPT ![k] = Tail(@)]
      /\ current' = [current EXCEPT ![k] = Head(queue[k])]
      /\ status' = [x \in Tickets |-> IF x = Head(queue[k]) THEN "running" ELSE status[x]]
  BY DEF Resume, StartNext, NoFate
<1>h. InHand(k) = 0 /\ 0 \notin Tickets
  BY <1>a DEF InHand, Tickets
<1>1. /\ QueueInv' /\ WorkerInv' /\ ChatOrder'
      /\ OpenTickets' = OpenTickets \ {0}
      /\ RunningTickets' = (RunningTickets \ {0}) \union {Head(queue[k])}
      /\ Head(queue[k]) \notin RunningTickets
  <2>1. worker'[k] = "processing" /\ OthersWait(k)
    BY <1>d, <1>f DEF OthersWait
  <2>2. \A x \in Tickets : status'[x] = IF x = Head(queue[k]) THEN "running"
                                        ELSE IF x = InHand(k) THEN "done" ELSE status[x]
    BY <1>g, <1>h
  <2> QED BY <2>1, <2>2, <1>a, <1>b, <1>g, <1>h, PopFlow
<1>2. TypeOK'
  <2>1. worker' \in [Keys -> {"none", "created", "waiting", "granted", "processing", "dead"}]
    <3>1. \A j \in Keys :
             worker[j] \in {"none", "created", "waiting", "granted", "processing", "dead"}
      BY DEF TypeOK
    <3> QED BY <3>1, <1>e
  <2>2. free' \in 0..Concurrency /\ running' \in Nat
    BY <1>a, <1>b, <1>c, LimitsAssumption DEF TypeOK
  <2>3. Head(queue[k]) \in Tickets /\ Tail(queue[k]) \in Seq(Tickets)
    BY <1>b, HeadFacts
  <2>4. queue' \in [Keys -> Seq(Tickets)] /\ current' \in [Keys -> Tickets \union {0}]
    BY <2>3, <1>g DEF TypeOK
  <2>5. status' \in [Tickets -> {"absent", "queued", "running", "done", "dropped", "killed"}]
    BY <1>g DEF TypeOK
  <2> QED BY <2>1, <2>2, <2>4, <2>5, <1>a, <1>d DEF TypeOK
<1>3. LineInv'
  <2>1. \A i \in 1..Len(waiters) : waiters[i] \in Keys /\ waiters[i] # k /\ worker[waiters[i]] = "waiting"
    BY <1>a, Entries DEF LineInv
  <2>2. \A i \in 1..Len(waiters') : worker'[waiters'[i]] = "waiting"
    BY <2>1, <1>d, <1>f
  <2>3. ASSUME NEW i \in 1..Len(waiters'), NEW j \in 1..Len(waiters'), i # j
        PROVE  waiters'[i] # waiters'[j]
    <3>1. i + m # j + m
      BY <2>3, <1>b, <1>c, <1>d
    <3> QED BY <3>1, <1>d, SMTT(60) DEF LineInv
  <2> QED BY <2>2, <2>3, <1>a DEF LineInv
<1>4. NoLostWakeup'
  <2>1. waiters' # <<>> => free' = 0
    <3>1. CASE free < Len(waiters)
      BY <3>1, <1>a, <1>b DEF m
    <3>2. CASE ~(free < Len(waiters))
      <4>1. Len(waiters') = 0
        BY <3>2, <1>b, <1>d DEF m
      <4> QED BY <4>1, <1>d
    <3> QED BY <3>1, <3>2
  <2> QED BY <2>1 DEF NoLostWakeup
<1>5. SlotInv'
  <2>1. Holders' = Holders \union woken /\ Holders \intersect woken = {}
    BY <1>a, <1>d, <1>f DEF Holders
  <2>2. Cardinality(Holders') = Cardinality(Holders) + m
    <3>1. /\ IsFiniteSet(Holders) /\ Cardinality(Holders) \in Nat
          /\ IsFiniteSet(woken) /\ Cardinality(woken) = m /\ m \in Nat
      BY <1>b, <1>c, <1>d, FiniteCounts
    <3>2. Cardinality(Holders \union woken)
            = Cardinality(Holders) + Cardinality(woken) - Cardinality(Holders \intersect woken)
      BY <3>1, FS_Union
    <3>3. Cardinality(Holders \intersect woken) = 0
      BY <2>1, FS_EmptySet
    <3> QED BY <2>1, <3>1, <3>2, <3>3
  <2> QED BY <2>2, <1>a, <1>b, <1>c, FiniteCounts, LimitsAssumption DEF SlotInv
<1>6. CounterInv'
  <2>1. OpenTickets' = OpenTickets /\ RunningTickets' = RunningTickets \union {Head(queue[k])}
    BY <1>1, <1>h DEF OpenTickets, RunningTickets
  <2>2. Cardinality(RunningTickets') = Cardinality(RunningTickets) + 1
    BY <2>1, <1>1, FiniteCounts, FS_AddElement
  <2> QED BY <2>1, <2>2, <1>a DEF CounterInv
<1>7. EventsTruthful' /\ BacklogBounded' /\ BatchFits'
  BY <1>a DEF EventsTruthful, BacklogBounded, BatchFits
<1> QED BY <1>1, <1>2, <1>3, <1>4, <1>5, <1>6, <1>7

\* A released slot goes to the first in line, or back to the free ones.
LEMMA ReleaseKeeps ==
    ASSUME IInv, NEW k \in Keys, worker[k] = "processing", ~stopped', UNCHANGED stopped,
           NEW mine, NEW behind, Release(k, mine, behind),
           \/ mine = "none" /\ behind = <<>>
           \/ mine = "waiting" /\ behind = <<k>> /\ (waiters # <<>> \/ Granted # {})
    PROVE  /\ worker' \in [Keys -> {"none", "created", "waiting", "granted", "processing", "dead"}]
           /\ waiters' \in Seq(Keys)
           /\ free' \in 0..Concurrency
           /\ worker'[k] = mine
           /\ OthersWait(k)
           /\ LineInv' /\ SlotInv' /\ NoLostWakeup'
<1> USE DEF IInv
<1>a. waiters \in Seq(Keys) /\ free \in 0..Concurrency /\ Len(waiters) \in Nat
      /\ \A j \in Keys : worker[j] \in {"none", "created", "waiting", "granted", "processing", "dead"}
  BY DEF TypeOK
<1>b. k \in Holders /\ k \notin Granted
  BY DEF Holders, Granted
<1>c. \A i \in 1..Len(waiters) : waiters[i] \in Keys /\ waiters[i] # k /\ worker[waiters[i]] = "waiting"
  BY Entries DEF LineInv
<1>d. Cardinality(Holders \ {k}) = Cardinality(Holders) - 1 /\ IsFiniteSet(Holders \ {k})
      /\ Cardinality(Holders) \in Nat
  BY <1>b, FiniteCounts, FS_RemoveElement
<1>e. /\ behind \in Seq(Keys)
      /\ \/ behind = <<>> /\ Len(behind) = 0
         \/ behind = <<k>> /\ Len(behind) = 1 /\ behind[1] = k /\ mine = "waiting"
  <2>1. CASE mine = "none" /\ behind = <<>>
    BY <2>1
  <2>2. CASE mine = "waiting" /\ behind = <<k>>
    BY <2>2
  <2> QED BY <2>1, <2>2
<1>1. CASE waiters # <<>>
  <2> DEFINE h == Head(waiters)
  <2>1. /\ waiters' = Tail(waiters) \o behind
        /\ worker' = [worker EXCEPT ![k] = mine, ![h] = "granted"]
        /\ free' = free
    BY <1>1 DEF Release
  <2>2. /\ h = waiters[1] /\ 1 \in 1..Len(waiters) /\ h \in Keys /\ h # k /\ worker[h] = "waiting"
        /\ Tail(waiters) \in Seq(Keys) /\ Len(Tail(waiters)) = Len(waiters) - 1
        /\ \A i \in 1..Len(waiters) - 1 : Tail(waiters)[i] = waiters[i + 1]
    <3>1. /\ h = waiters[1] /\ 1 \in 1..Len(waiters)
          /\ Tail(waiters) \in Seq(Keys) /\ Len(Tail(waiters)) = Len(waiters) - 1
          /\ \A i \in 1..Len(waiters) - 1 : Tail(waiters)[i] = waiters[i + 1]
      BY <1>1, <1>a
    <3> QED BY <3>1, <1>c
  <2> HIDE DEF h
  <2>3. \A j \in Keys : worker'[j] = IF j = h THEN "granted" ELSE IF j = k THEN mine ELSE worker[j]
    BY <2>1, <2>2 DEF TypeOK
  <2>4. worker' \in [Keys -> {"none", "created", "waiting", "granted", "processing", "dead"}]
    BY <2>1 DEF TypeOK
  <2>5. /\ waiters' \in Seq(Keys)
        /\ Len(waiters') = Len(waiters) - 1 + Len(behind)
        /\ \A i \in 1..Len(waiters') :
              \/ i \in 1..Len(waiters) - 1 /\ i + 1 \in 1..Len(waiters) /\ waiters'[i] = waiters[i + 1]
              \/ i = Len(waiters) /\ mine = "waiting" /\ waiters'[i] = k
    <3>1. waiters' \in Seq(Keys) /\ Len(waiters') = Len(waiters) - 1 + Len(behind)
      BY <2>1, <2>2, <1>e
    <3>2. ASSUME NEW i \in 1..Len(waiters'), i \in 1..Len(waiters) - 1
          PROVE  i + 1 \in 1..Len(waiters) /\ waiters'[i] = waiters[i + 1]
      <4>1. waiters'[i] = Tail(waiters)[i]
        BY <3>2, <2>1, <2>2, <1>e
      <4> QED BY <3>2, <4>1, <2>2, <1>a
    <3>3. ASSUME NEW i \in 1..Len(waiters'), i \notin 1..Len(waiters) - 1
          PROVE  i = Len(waiters) /\ mine = "waiting" /\ waiters'[i] = k
      <4>1. i = Len(waiters) /\ behind = <<k>> /\ mine = "waiting"
        <5>1. CASE Len(behind) = 0
          BY <5>1, <3>1, <3>3, <1>a
        <5>2. CASE behind = <<k>> /\ Len(behind) = 1 /\ mine = "waiting"
          BY <5>2, <3>1, <3>3, <1>a
        <5> QED BY <5>1, <5>2, <1>e
      <4>2. waiters' = Append(Tail(waiters), k)
        BY <4>1, <2>1, <2>2
      <4> QED BY <4>1, <4>2, <2>2, <1>a
    <3> QED BY <3>1, <3>2, <3>3
  <2>6. LineInv'
    <3>1. ASSUME NEW i \in 1..Len(waiters'), NEW j \in 1..Len(waiters'), i # j
          PROVE  waiters'[i] # waiters'[j]
      <4>1. CASE i \in 1..Len(waiters) - 1 /\ j \in 1..Len(waiters) - 1
        <5>1. i + 1 # j + 1 /\ i # Len(waiters) /\ j # Len(waiters)
          BY <3>1, <4>1, <1>a
        <5> QED BY <5>1, <2>5 DEF LineInv
      <4>2. CASE ~(i \in 1..Len(waiters) - 1 /\ j \in 1..Len(waiters) - 1)
        BY <3>1, <4>2, <2>5, <1>c
      <4> QED BY <4>1, <4>2
    <3>2. \A i \in 1..Len(waiters) : i # 1 => waiters[i] # h
      BY <2>2 DEF LineInv
    <3>3. \A i \in 1..Len(waiters') : worker'[waiters'[i]] = "waiting"
      <4> SUFFICES ASSUME NEW i \in 1..Len(waiters') PROVE worker'[waiters'[i]] = "waiting"
        OBVIOUS
      <4>1. CASE i \in 1..Len(waiters) - 1 /\ i + 1 \in 1..Len(waiters) /\ waiters'[i] = waiters[i + 1]
        <5>1. i + 1 # 1
          BY <4>1
        <5> QED BY <5>1, <4>1, <3>2, <1>c, <2>3
      <4>2. CASE i = Len(waiters) /\ mine = "waiting" /\ waiters'[i] = k
        BY <4>2, <2>2, <2>3
      <4> QED BY <4>1, <4>2, <2>5
    <3> QED BY <3>1, <3>3 DEF LineInv
  <2>7. SlotInv'
    <3>1. Holders' = (Holders \ {k}) \union {h} /\ h \notin Holders
      BY <2>2, <2>3 DEF Holders
    <3>2. h \notin Holders \ {k}
      BY <3>1
    <3>3. Cardinality((Holders \ {k}) \union {h}) = Cardinality(Holders \ {k}) + 1
      BY <3>2, <1>d, FS_AddElement
    <3> QED BY <3>1, <3>3, <1>d, <2>1 DEF SlotInv
  <2>8. NoLostWakeup'
    BY <2>2, <2>3 DEF NoLostWakeup, Granted
  <2>9. OthersWait(k) /\ worker'[k] = mine
    BY <2>2, <2>3 DEF OthersWait
  <2> QED BY <2>1, <2>4, <2>5, <2>6, <2>7, <2>8, <2>9, <1>a
<1>2. CASE waiters = <<>>
  <2>1. /\ waiters' = behind
        /\ worker' = [worker EXCEPT ![k] = mine]
        /\ free' = free + 1
    BY <1>2 DEF Release
  <2>2. \A j \in Keys : worker'[j] = IF j = k THEN mine ELSE worker[j]
    BY <2>1 DEF TypeOK
  <2>3. worker' \in [Keys -> {"none", "created", "waiting", "granted", "processing", "dead"}]
    BY <2>1 DEF TypeOK
  <2>4. LineInv'
    BY <2>1, <2>2, <1>e DEF LineInv
  <2>5. Holders' = Holders \ {k}
    BY <2>2 DEF Holders
  <2>6. SlotInv' /\ free' \in 0..Concurrency
    BY <2>1, <2>5, <1>a, <1>d, FS_CardinalityType, LimitsAssumption DEF SlotInv
  <2>7. NoLostWakeup'
    <3>1. Granted' = Granted
      BY <2>2, <1>b DEF Granted
    <3> QED BY <3>1, <2>1, <1>2 DEF NoLostWakeup
  <2>8. OthersWait(k) /\ worker'[k] = mine
    BY <2>2 DEF OthersWait
  <2> QED BY <2>1, <2>3, <2>4, <2>6, <2>7, <2>8, <1>e
<1> QED BY <1>1, <1>2

\* Ending an update and giving up the slot, with the task gone or in line again.
LEMMA FinishAndRelease ==
    ASSUME IInv, NEW k \in Keys, worker[k] = "processing", ~stopped,
           NEW mine, NEW behind, Release(k, mine, behind),
           \/ mine = "none" /\ behind = <<>> /\ queue[k] = <<>>
           \/ /\ mine = "waiting" /\ behind = <<k>> /\ queue[k] # <<>>
              /\ waiters # <<>> \/ Granted # {},
           status' = [status EXCEPT ![current[k]] = "done"],
           current' = [current EXCEPT ![k] = 0],
           running' = running - 1,
           Settle(1),
           UNCHANGED <<batch, chatOf, queue, stopped, phase, final, stuck>>
    PROVE  IInv'
<1> USE DEF IInv
<1>a. current[k] \in Tickets
  BY Entries DEF WorkerInv
<1>b. \A x \in Tickets : status'[x] = IF x = current[k] THEN "done" ELSE status[x]
  BY <1>a DEF TypeOK
<1>1. /\ worker' \in [Keys -> {"none", "created", "waiting", "granted", "processing", "dead"}]
      /\ waiters' \in Seq(Keys)
      /\ free' \in 0..Concurrency
      /\ worker'[k] = mine
      /\ OthersWait(k)
      /\ LineInv' /\ SlotInv' /\ NoLostWakeup'
  BY ReleaseKeeps
<1>2. /\ QueueInv' /\ WorkerInv' /\ ChatOrder'
      /\ OpenTickets' = OpenTickets \ {current[k]} /\ current[k] \in OpenTickets
      /\ RunningTickets' = RunningTickets \ {current[k]} /\ current[k] \in RunningTickets
  <2>1. \A j \in Keys : j # k => current'[j] = current[j]
    BY DEF TypeOK
  <2>2. IF queue[k] = <<>> THEN worker'[k] = "none" ELSE worker'[k] = "waiting"
    BY <1>1
  <2> QED BY <1>1, <1>b, <2>1, <2>2, FinishFlow
<1>3. /\ Cardinality(OpenTickets') = Cardinality(OpenTickets) - 1
      /\ Cardinality(OpenTickets') \in Nat
      /\ Cardinality(RunningTickets') = Cardinality(RunningTickets) - 1
      /\ Cardinality(RunningTickets') \in Nat
  BY <1>2, FiniteCounts, FS_RemoveElement, FS_CardinalityType
<1>4. /\ pending' \in Nat /\ pending' = Cardinality(OpenTickets')
      /\ capacity' \in BOOLEAN /\ idle' \in BOOLEAN
      /\ EventsTruthful' /\ BacklogBounded' /\ BatchFits'
  <2>1. pending - 1 = Cardinality(OpenTickets')
    BY <1>3 DEF CounterInv
  <2> QED BY <2>1, <1>3, SettleKeeps
<1>5. CounterInv' /\ running' \in Nat
  BY <1>3, <1>4 DEF CounterInv
<1>6. TypeOK'
  <2>1. status' \in [Tickets -> {"absent", "queued", "running", "done", "dropped", "killed"}]
    BY DEF TypeOK
  <2>2. current' \in [Keys -> Tickets \union {0}]
    BY DEF TypeOK
  <2> QED BY <2>1, <2>2, <1>1, <1>4, <1>5 DEF TypeOK
<1> QED BY <1>1, <1>2, <1>4, <1>5, <1>6

LEMMA FinishAndContinueStep ==
    ASSUME IInv, NEW k \in Keys, FinishAndContinue(k)
    PROVE  IInv'
<1> USE DEF IInv
<1>a. /\ worker[k] = "processing" /\ queue[k] # <<>> /\ Settle(1)
      /\ UNCHANGED <<batch, chatOf, worker, waiters, free, running, stopped, phase, final, stuck>>
  BY DEF FinishAndContinue, slots, control
<1>b. /\ queue' = [queue EXCEPT ![k] = Tail(@)]
      /\ current' = [current EXCEPT ![k] = Head(queue[k])]
      /\ status' = [x \in Tickets |-> IF x = Head(queue[k]) THEN "running"
                                      ELSE IF x = current[k] THEN "done" ELSE status[x]]
  BY DEF FinishAndContinue, StartNext
<1>c. InHand(k) = current[k] /\ current[k] \in Tickets /\ status[current[k]] = "running"
  BY <1>a, Entries DEF InHand, WorkerInv
<1>d. current[k] \in OpenTickets /\ current[k] \in RunningTickets
  BY <1>c DEF OpenTickets, RunningTickets, Open
<1>1. /\ QueueInv' /\ WorkerInv' /\ ChatOrder'
      /\ OpenTickets' = OpenTickets \ {current[k]}
      /\ RunningTickets' = (RunningTickets \ {current[k]}) \union {Head(queue[k])}
      /\ Head(queue[k]) \notin RunningTickets
  <2>1. OthersWait(k) /\ worker'[k] = "processing"
    BY <1>a DEF OthersWait
  <2>2. \A x \in Tickets : status'[x] = IF x = Head(queue[k]) THEN "running"
                                        ELSE IF x = InHand(k) THEN "done" ELSE status[x]
    BY <1>b, <1>c
  <2> QED BY <2>1, <2>2, <1>a, <1>b, <1>c, PopFlow
<1>2. Cardinality(OpenTickets') = Cardinality(OpenTickets) - 1 /\ Cardinality(OpenTickets') \in Nat
  BY <1>1, <1>d, FiniteCounts, FS_RemoveElement, FS_CardinalityType
<1>3. Cardinality(RunningTickets') = Cardinality(RunningTickets)
  <2>1. /\ IsFiniteSet(RunningTickets \ {current[k]})
        /\ Cardinality(RunningTickets \ {current[k]}) = Cardinality(RunningTickets) - 1
        /\ Cardinality(RunningTickets) \in Nat
    BY <1>d, FiniteCounts, FS_RemoveElement
  <2>2. Head(queue[k]) \notin RunningTickets \ {current[k]}
    BY <1>1
  <2>3. Cardinality((RunningTickets \ {current[k]}) \union {Head(queue[k])})
          = Cardinality(RunningTickets \ {current[k]}) + 1
    BY <2>1, <2>2, FS_AddElement
  <2> QED BY <1>1, <2>1, <2>3
<1>4. /\ pending' \in Nat /\ pending' = Cardinality(OpenTickets')
      /\ capacity' \in BOOLEAN /\ idle' \in BOOLEAN
      /\ EventsTruthful' /\ BacklogBounded' /\ BatchFits'
  <2>1. pending - 1 = Cardinality(OpenTickets')
    BY <1>2 DEF CounterInv
  <2> QED BY <2>1, <1>2, <1>a, SettleKeeps
<1>5. CounterInv'
  BY <1>3, <1>4, <1>a DEF CounterInv
<1>6. TypeOK'
  <2>1. Head(queue[k]) \in Tickets /\ Tail(queue[k]) \in Seq(Tickets)
    BY <1>a, HeadFacts
  <2>2. queue' \in [Keys -> Seq(Tickets)] /\ current' \in [Keys -> Tickets \union {0}]
    BY <2>1, <1>b DEF TypeOK
  <2>3. status' \in [Tickets -> {"absent", "queued", "running", "done", "dropped", "killed"}]
    BY <1>b DEF TypeOK
  <2> QED BY <2>2, <2>3, <1>4, <1>a DEF TypeOK
<1>7. LineInv' /\ SlotInv' /\ NoLostWakeup'
  BY <1>a DEF LineInv, SlotInv, Holders, NoLostWakeup, Granted
<1> QED BY <1>1, <1>4, <1>5, <1>6, <1>7

\* Giving up a whole chat: cancelled in line, cancelled in processing, or cleaned up.
LEMMA GiveUp ==
    ASSUME IInv, NEW k \in Keys, waiters = <<>>,
           NEW fate \in {"done", "dropped"},
           free' = IF k \in Holders THEN free + 1 ELSE free,
           worker' = [worker EXCEPT ![k] = "none"],
           queue' = [queue EXCEPT ![k] = <<>>],
           current' \in [Keys -> Tickets \union {0}],
           \A j \in Keys : j # k => current'[j] = current[j],
           status' = [x \in Tickets |->
               IF x = InHand(k) THEN fate
               ELSE IF status[x] = "queued" /\ Key(chatOf[x]) = k THEN "dropped" ELSE status[x]],
           running' = IF InHand(k) = 0 THEN running ELSE running - 1,
           Settle((IF InHand(k) = 0 THEN 0 ELSE 1) + Len(queue[k])),
           UNCHANGED <<batch, chatOf, waiters, stopped, phase, final, stuck>>
    PROVE  IInv'
<1> USE DEF IInv
<1> DEFINE n == (IF InHand(k) = 0 THEN 0 ELSE 1) + Len(queue[k])
<1>a. \A j \in Keys : worker'[j] = IF j = k THEN "none" ELSE worker[j]
  BY DEF TypeOK
<1>1. /\ QueueInv' /\ WorkerInv' /\ ChatOrder'
      /\ OpenTickets' = (OpenTickets \ {InHand(k)}) \ Queued(k)
      /\ RunningTickets' = RunningTickets \ {InHand(k)}
      /\ Queued(k) \subseteq OpenTickets
      /\ InHand(k) \notin Queued(k)
      /\ InHand(k) # 0 => InHand(k) \in OpenTickets /\ InHand(k) \in RunningTickets
      /\ InHand(k) = 0 => InHand(k) \notin OpenTickets /\ InHand(k) \notin RunningTickets
  <2>1. \A x \in Tickets : status'[x] =
               IF x = InHand(k) THEN fate
               ELSE IF status[x] = "queued" /\ Key(chatOf[x]) = k THEN "dropped" ELSE status[x]
    OBVIOUS
  <2>2. worker'[k] = "none" /\ \A j \in Keys : j # k => worker'[j] = worker[j]
    BY <1>a
  <2> QED BY <2>1, <2>2, DropFlow
<1>2. /\ IsFiniteSet(OpenTickets \ {InHand(k)})
      /\ Cardinality(OpenTickets \ {InHand(k)})
           = Cardinality(OpenTickets) - (IF InHand(k) = 0 THEN 0 ELSE 1)
      /\ Cardinality(OpenTickets) \in Nat
  <2>1. IsFiniteSet(OpenTickets) /\ Cardinality(OpenTickets) \in Nat
    BY FiniteCounts
  <2>2. /\ IsFiniteSet(OpenTickets \ {InHand(k)})
        /\ Cardinality(OpenTickets \ {InHand(k)}) =
             IF InHand(k) \in OpenTickets THEN Cardinality(OpenTickets) - 1 ELSE Cardinality(OpenTickets)
    BY <2>1, FS_RemoveElement
  <2>3. CASE InHand(k) = 0
    BY <2>1, <2>2, <2>3, <1>1
  <2>4. CASE InHand(k) # 0
    BY <2>1, <2>2, <2>4, <1>1
  <2> QED BY <2>3, <2>4
<1>3. /\ Cardinality(OpenTickets') = Cardinality(OpenTickets \ {InHand(k)}) - Len(queue[k])
      /\ Cardinality(OpenTickets') \in Nat
  <2>1. (OpenTickets \ {InHand(k)}) \intersect Queued(k) = Queued(k)
    BY <1>1
  <2>2. Cardinality(Queued(k)) = Len(queue[k])
    BY QueuedCount
  <2>3. /\ IsFiniteSet((OpenTickets \ {InHand(k)}) \ Queued(k))
        /\ Cardinality((OpenTickets \ {InHand(k)}) \ Queued(k))
             = Cardinality(OpenTickets \ {InHand(k)})
               - Cardinality((OpenTickets \ {InHand(k)}) \intersect Queued(k))
    BY <1>2, FS_Difference
  <2>4. Cardinality((OpenTickets \ {InHand(k)}) \ Queued(k)) \in Nat
    BY <2>3, FS_CardinalityType
  <2> QED BY <1>1, <2>1, <2>2, <2>3, <2>4
<1>4. Len(queue[k]) \in Nat /\ n \in Nat
  <2>1. Len(queue[k]) \in Nat
    BY Entries
  <2>2. CASE InHand(k) = 0
    BY <2>1, <2>2
  <2>3. CASE InHand(k) # 0
    BY <2>1, <2>3
  <2> QED BY <2>1, <2>2, <2>3
<1>5. pending - n = Cardinality(OpenTickets')
  <2>1. pending = Cardinality(OpenTickets)
    BY DEF CounterInv
  <2>2. CASE InHand(k) = 0
    BY <2>1, <2>2, <1>2, <1>3, <1>4
  <2>3. CASE InHand(k) # 0
    BY <2>1, <2>3, <1>2, <1>3, <1>4
  <2> QED BY <2>2, <2>3
<1>6. /\ pending' \in Nat /\ pending' = Cardinality(OpenTickets')
      /\ capacity' \in BOOLEAN /\ idle' \in BOOLEAN
      /\ EventsTruthful' /\ BacklogBounded' /\ BatchFits'
  <2> HIDE DEF n
  <2>1. Settle(n)
    BY DEF n
  <2> QED BY <2>1, <1>3, <1>4, <1>5, SettleKeeps
<1>7. CounterInv' /\ running' \in Nat
  <2>1. /\ IsFiniteSet(RunningTickets) /\ Cardinality(RunningTickets) \in Nat
    BY FiniteCounts
  <2>2. /\ IsFiniteSet(RunningTickets \ {InHand(k)})
        /\ Cardinality(RunningTickets \ {InHand(k)})
             = Cardinality(RunningTickets) - (IF InHand(k) = 0 THEN 0 ELSE 1)
    <3>1. /\ IsFiniteSet(RunningTickets \ {InHand(k)})
          /\ Cardinality(RunningTickets \ {InHand(k)}) =
               IF InHand(k) \in RunningTickets
               THEN Cardinality(RunningTickets) - 1 ELSE Cardinality(RunningTickets)
      BY <2>1, FS_RemoveElement
    <3>2. CASE InHand(k) = 0
      BY <2>1, <3>1, <3>2, <1>1
    <3>3. CASE InHand(k) # 0
      BY <2>1, <3>1, <3>3, <1>1
    <3> QED BY <3>2, <3>3
  <2>3. Cardinality(RunningTickets \ {InHand(k)}) \in Nat
    BY <2>2, FS_CardinalityType
  <2> QED BY <2>1, <2>2, <2>3, <1>1, <1>6 DEF CounterInv
<1>8. SlotInv' /\ free' \in 0..Concurrency
  <2>1. Holders' = Holders \ {k}
    BY <1>a DEF Holders
  <2>2. IsFiniteSet(Holders) /\ Cardinality(Holders) \in Nat
    BY FiniteCounts
  <2>3. /\ IsFiniteSet(Holders \ {k})
        /\ Cardinality(Holders \ {k}) = Cardinality(Holders) - (IF k \in Holders THEN 1 ELSE 0)
    BY <2>2, FS_RemoveElement
  <2>4. Cardinality(Holders \ {k}) \in Nat
    BY <2>3, FS_CardinalityType
  <2>5. free \in 0..Concurrency
    BY DEF TypeOK
  <2>6. free' + Cardinality(Holders') = Concurrency
    BY <2>1, <2>2, <2>3, <2>5, LimitsAssumption DEF SlotInv
  <2> QED BY <2>1, <2>4, <2>5, <2>6, LimitsAssumption DEF SlotInv
<1>9. LineInv' /\ NoLostWakeup'
  BY DEF LineInv, NoLostWakeup
<1>10. TypeOK'
  <2>1. worker' \in [Keys -> {"none", "created", "waiting", "granted", "processing", "dead"}]
    BY DEF TypeOK
  <2>2. queue' \in [Keys -> Seq(Tickets)]
    BY DEF TypeOK
  <2>3. status' \in [Tickets -> {"absent", "queued", "running", "done", "dropped", "killed"}]
    BY DEF TypeOK
  <2> QED BY <2>1, <2>2, <2>3, <1>6, <1>7, <1>8 DEF TypeOK
<1> QED BY <1>1, <1>6, <1>7, <1>8, <1>9, <1>10

LEMMA CancelWaitingStep ==
    ASSUME IInv, NEW k \in Keys, CancelWaiting(k)
    PROVE  IInv'
<1> USE DEF IInv
<1>1. /\ stopped /\ worker[k] \in {"waiting", "granted"}
      /\ free' = IF worker[k] = "granted" THEN free + 1 ELSE free
      /\ worker' = [worker EXCEPT ![k] = "none"]
      /\ queue' = [queue EXCEPT ![k] = <<>>]
      /\ Settle(Len(queue[k]))
      /\ UNCHANGED <<batch, chatOf, current, waiters, running, stopped, phase, final, stuck>>
  BY DEF CancelWaiting, control
<1>2. InHand(k) = 0 /\ 0 \notin Tickets /\ waiters = <<>> /\ Len(queue[k]) \in Nat
  BY <1>1, Entries DEF InHand, Tickets, LineInv
<1>3. status' = [x \in Tickets |->
               IF x = InHand(k) THEN "dropped"
               ELSE IF status[x] = "queued" /\ Key(chatOf[x]) = k THEN "dropped" ELSE status[x]]
  BY <1>2 DEF CancelWaiting, Drop, NoFate
<1>4. /\ free' = IF k \in Holders THEN free + 1 ELSE free
      /\ current' \in [Keys -> Tickets \union {0}]
      /\ \A j \in Keys : j # k => current'[j] = current[j]
  BY <1>1 DEF Holders, TypeOK
<1>5. /\ running' = IF InHand(k) = 0 THEN running ELSE running - 1
      /\ Settle((IF InHand(k) = 0 THEN 0 ELSE 1) + Len(queue[k]))
  BY <1>1, <1>2
<1> QED BY <1>1, <1>2, <1>3, <1>4, <1>5, GiveUp

LEMMA CleanUpStep ==
    ASSUME IInv, NEW k \in Keys, CleanUp(k), stopped
    PROVE  IInv'
<1> USE DEF IInv
<1>1. /\ worker[k] = "dead"
      /\ worker' = [worker EXCEPT ![k] = "none"]
      /\ queue' = [queue EXCEPT ![k] = <<>>]
      /\ Settle(Len(queue[k]))
      /\ UNCHANGED <<batch, chatOf, current, waiters, free, running, stopped, phase, final, stuck>>
  BY DEF CleanUp, control, slots
<1>2. InHand(k) = 0 /\ 0 \notin Tickets /\ waiters = <<>> /\ Len(queue[k]) \in Nat
  BY <1>1, Entries DEF InHand, Tickets, LineInv
<1>3. status' = [x \in Tickets |->
               IF x = InHand(k) THEN "dropped"
               ELSE IF status[x] = "queued" /\ Key(chatOf[x]) = k THEN "dropped" ELSE status[x]]
  BY <1>2 DEF CleanUp, Drop, NoFate
<1>4. /\ free' = IF k \in Holders THEN free + 1 ELSE free
      /\ current' \in [Keys -> Tickets \union {0}]
      /\ \A j \in Keys : j # k => current'[j] = current[j]
  BY <1>1 DEF Holders, TypeOK
<1>5. /\ running' = IF InHand(k) = 0 THEN running ELSE running - 1
      /\ Settle((IF InHand(k) = 0 THEN 0 ELSE 1) + Len(queue[k]))
  BY <1>1, <1>2
<1> QED BY <1>1, <1>2, <1>3, <1>4, <1>5, GiveUp

LEMMA FinishStoppedStep ==
    ASSUME IInv, NEW k \in Keys, FinishStopped(k)
    PROVE  IInv'
<1> USE DEF IInv
<1>1. /\ stopped /\ worker[k] = "processing"
      /\ free' = free + 1
      /\ worker' = [worker EXCEPT ![k] = "none"]
      /\ queue' = [queue EXCEPT ![k] = <<>>]
      /\ current' = [current EXCEPT ![k] = 0]
      /\ running' = running - 1
      /\ Settle(1 + Len(queue[k]))
      /\ UNCHANGED <<batch, chatOf, waiters, stopped, phase, final, stuck>>
  BY DEF FinishStopped, control
<1>2. /\ InHand(k) = current[k] /\ current[k] \in Tickets /\ InHand(k) # 0
      /\ waiters = <<>> /\ Len(queue[k]) \in Nat
  BY <1>1, Entries DEF InHand, Tickets, LineInv, WorkerInv
<1>3. PICK fate \in {"done", "dropped"} : status' = [x \in Tickets |->
               IF x = InHand(k) THEN fate
               ELSE IF status[x] = "queued" /\ Key(chatOf[x]) = k THEN "dropped" ELSE status[x]]
  <2>1. PICK fate \in {"done", "dropped"} : Drop(k, [t \in {current[k]} |-> fate])
    BY DEF FinishStopped
  <2> QED BY <2>1, <1>2 DEF Drop
<1>4. /\ free' = IF k \in Holders THEN free + 1 ELSE free
      /\ current' \in [Keys -> Tickets \union {0}]
      /\ \A j \in Keys : j # k => current'[j] = current[j]
  BY <1>1 DEF Holders, TypeOK
<1>5. /\ running' = IF InHand(k) = 0 THEN running ELSE running - 1
      /\ Settle((IF InHand(k) = 0 THEN 0 ELSE 1) + Len(queue[k]))
  BY <1>1, <1>2
<1> QED BY <1>1, <1>2, <1>3, <1>4, <1>5, GiveUp

-----------------------------------------------------------------------------
(***************************************************************************)
(* What the stopping sequence knows of the tasks: abort() has begun        *)
(* whenever its later phases are reached, and past its wait only handlers  *)
(* that outlasted the grace period are alive.                              *)
(***************************************************************************)
StopInv ==
    /\ phase \in {"aborting", "cleanup", "closed"} => stopped
    /\ phase = "cleanup" => \A k \in Keys : worker[k] \in {"none", "dead", "processing"}
    /\ phase = "closed" => \A k \in Keys : worker[k] \in {"none", "processing"}
    /\ phase \in {"cleanup", "closed"} /\ ~stuck => \A k \in Keys : worker[k] # "processing"

\* Past the wait of abort() a task can only end.
LEMMA TasksEnd ==
    ASSUME StopInv, UNCHANGED <<stopped, phase, stuck>>,
           stopped => \A j \in Keys : worker'[j] \in {worker[j], "none"}
                                      \/ (phase # "cleanup" /\ phase # "closed")
    PROVE  StopInv'
BY DEF StopInv

LEMMA WorkerStop ==
    ASSUME IInv, StopInv, NEW k \in Keys, Worker(k)
    PROVE  StopInv'
<1> USE DEF IInv
<1>1. CASE BeginChat(k)
  BY <1>1 DEF BeginChat, control, StopInv
<1>2. CASE Resume(k)
  BY <1>2 DEF Resume, control, StopInv
<1>3. CASE Finish(k)
  BY <1>3 DEF Finish, FinishLast, FinishAndWait, FinishAndContinue, control, StopInv
<1>4. CASE CancelUnborn(k)
  <2>1. UNCHANGED <<stopped, phase, stuck>> /\ worker[k] = "created" /\ Yielded
    BY <1>4 DEF CancelUnborn, control
  <2>2. phase # "cleanup" /\ phase # "closed"
    BY <2>1 DEF Yielded, StopInv
  <2> QED BY <2>1, <2>2, TasksEnd
<1>5. CASE CancelWaiting(k) \/ FinishStopped(k)
  <2>1. UNCHANGED <<stopped, phase, stuck>> /\ worker' = [worker EXCEPT ![k] = "none"]
    BY <1>5 DEF CancelWaiting, FinishStopped, control
  <2>2. \A j \in Keys : worker'[j] \in {worker[j], "none"}
    BY <2>1 DEF TypeOK
  <2> QED BY <2>1, <2>2, TasksEnd
<1> QED BY <1>1, <1>2, <1>3, <1>4, <1>5 DEF Worker

LEMMA StopStep ==
    ASSUME IInv, StopInv, [Next]_vars
    PROVE  StopInv'
<1> USE DEF IInv
<1>1. CASE \E cs \in Batches : Receive(cs)
  BY <1>1 DEF Receive, control, StopInv
<1>2. CASE Submit
  BY <1>2 DEF Submit, control, StopInv
<1>3. CASE \E k \in Keys : Worker(k)
  BY <1>3, WorkerStop
<1>4. CASE BeginDrain \/ DrainDone
  <2>1. phase' \in {"draining", "drained"}
    BY <1>4 DEF BeginDrain, DrainDone
  <2> QED BY <2>1 DEF StopInv
<1>5. CASE Interrupt
  BY <1>5 DEF Interrupt, StopInv
<1>6. ASSUME NEW last \in BOOLEAN, Abort(last)
      PROVE  StopInv'
  <2>1. stopped' = TRUE /\ worker' = worker /\ phase' \in {"aborting", "closed", "drained"}
        /\ (phase' = "closed" => Live = {})
    BY <1>6 DEF Abort
  <2> QED BY <2>1 DEF Live, StopInv
<1>7. CASE AbortWaited
  <2>1. /\ phase = "aborting" /\ phase' = "cleanup" /\ UNCHANGED <<worker, stopped>>
        /\ \A k \in Keys : worker[k] \in {"none", "dead", "processing"}
        /\ stuck' = (stuck \/ \E k \in Keys : worker[k] = "processing")
    BY <1>7 DEF AbortWaited
  <2> QED BY <2>1 DEF StopInv
<1>8. CASE AbortDone
  <2>1. /\ phase = "cleanup" /\ phase' \in {"closed", "drained"}
        /\ UNCHANGED <<worker, stopped, stuck>>
        /\ \A k \in Keys : worker[k] # "dead"
    BY <1>8 DEF AbortDone
  <2> QED BY <2>1 DEF StopInv
<1>9. ASSUME NEW k \in Keys, CleanUp(k)
      PROVE  StopInv'
  <2>1. UNCHANGED <<stopped, phase, stuck>> /\ worker' = [worker EXCEPT ![k] = "none"]
    BY <1>9 DEF CleanUp, control
  <2>2. \A j \in Keys : worker'[j] \in {worker[j], "none"}
    BY <2>1 DEF TypeOK
  <2> QED BY <2>1, <2>2, TasksEnd
<1>10. CASE Restart
  BY <1>10 DEF Restart, StopInv
<1>11. CASE UNCHANGED vars
  BY <1>11 DEF vars, control, StopInv
<1> QED BY <1>1, <1>2, <1>3, <1>4, <1>5, <1>6, <1>7, <1>8, <1>9, <1>10, <1>11
        DEF Next, Stopping, DrainTimeout, FinalAbort

-----------------------------------------------------------------------------
LEMMA WorkerStep ==
    ASSUME IInv, NEW k \in Keys, Worker(k)
    PROVE  IInv'
<1>1. CASE FinishLast(k)
  BY <1>1, FinishAndRelease DEF FinishLast, control
<1>2. CASE FinishAndWait(k)
  BY <1>2, FinishAndRelease DEF FinishAndWait, control
<1> QED BY <1>1, <1>2, BeginChatStep, ResumeStep, FinishAndContinueStep, CancelUnbornStep,
           CancelWaitingStep, FinishStoppedStep DEF Worker, Finish

LEMMA StoppingStep ==
    ASSUME IInv, StopInv, Stopping
    PROVE  IInv'
<1>1. CASE DrainDone
  <2>1. TypeOK'
    BY <1>1 DEF DrainDone, IInv, TypeOK, tickets, slots, counters
  <2> QED BY <2>1, <1>1, ControlStep DEF DrainDone
<1>2. CASE DrainTimeout \/ FinalAbort
  BY <1>2, AbortStep DEF DrainTimeout, FinalAbort
<1>3. CASE AbortWaited
  <2>1. TypeOK'
    BY <1>3 DEF AbortWaited, IInv, TypeOK, tickets, slots, counters
  <2> QED BY <2>1, <1>3, ControlStep DEF AbortWaited
<1>4. CASE AbortDone
  <2>1. TypeOK'
    BY <1>4 DEF AbortDone, IInv, TypeOK, tickets, slots, counters
  <2> QED BY <2>1, <1>4, ControlStep DEF AbortDone
<1>5. ASSUME NEW k \in Keys, CleanUp(k) PROVE IInv'
  <2>1. stopped
    BY <1>5 DEF CleanUp, StopInv
  <2> QED BY <2>1, <1>5, CleanUpStep
<1> QED BY <1>1, <1>2, <1>3, <1>4, <1>5 DEF Stopping

LEMMA NextStep ==
    ASSUME IInv, StopInv, [Next]_vars
    PROVE  IInv'
<1>1. CASE BeginDrain
  <2>1. TypeOK'
    BY <1>1 DEF BeginDrain, IInv, TypeOK, tickets, slots, counters
  <2> QED BY <2>1, <1>1, ControlStep DEF BeginDrain
<1>2. CASE Interrupt
  <2>1. TypeOK'
    BY <1>2 DEF Interrupt, IInv, TypeOK, tickets, slots, counters
  <2> QED BY <2>1, <1>2, ControlStep DEF Interrupt
<1>3. CASE UNCHANGED vars
  <2>1. TypeOK'
    BY <1>3 DEF vars, IInv, TypeOK, tickets, slots, counters, control
  <2> QED BY <2>1, <1>3, ControlStep DEF vars, control
<1> QED BY <1>1, <1>2, <1>3, ReceiveStep, SubmitStep, WorkerStep, StoppingStep, RestartStep
        DEF Next

\* The inductive invariant holds in every reachable state.
THEOREM Invariance == Spec => [](IInv /\ StopInv)
<1>1. Init => IInv /\ StopInv
  BY InitInv DEF Init, StopInv
<1>2. IInv /\ StopInv /\ [Next]_vars => (IInv /\ StopInv)'
  BY NextStep, StopStep
<1> QED BY <1>1, <1>2, PTL DEF Spec

-----------------------------------------------------------------------------
(***************************************************************************)
(* The properties.                                                         *)
(***************************************************************************)

\* Every variable keeps its type: no counter goes negative, no semaphore value leaves
\* 0..concurrency.
THEOREM TypeCorrect == Spec => []TypeOK
<1>1. IInv => TypeOK
  BY DEF IInv
<1> QED BY <1>1, Invariance, PTL

\* _pending and _running are exact, whatever fails, is cancelled or given up.
THEOREM CountersAreExact == Spec => []CountersExact
<1>1. IInv => CountersExact
  BY DEF IInv, CounterInv, CountersExact, OpenTickets, RunningTickets
<1> QED BY <1>1, Invariance, PTL

\* The backlog is bounded by the limit and one batch.
THEOREM BacklogIsBounded == Spec => []BacklogBounded
<1>1. IInv => BacklogBounded
  BY DEF IInv
<1> QED BY <1>1, Invariance, PTL

\* Updates of one chat are handled one at a time and in the order of arrival.
THEOREM ChatOrderHolds == Spec => []ChatOrder
<1>1. IInv => ChatOrder
  BY DEF IInv
<1> QED BY <1>1, Invariance, PTL

\* The events drain() and the poll loop wait for say what the counters say.
THEOREM EventsAreTruthful == Spec => []EventsTruthful
<1>1. IInv => EventsTruthful
  BY DEF IInv
<1> QED BY <1>1, Invariance, PTL

\* Every queue has a task that reads it.
THEOREM QueuesAreRead == Spec => []NoOrphanedQueue
<1>1. IInv => NoOrphanedQueue
  BY DEF IInv, WorkerInv, NoOrphanedQueue
<1> QED BY <1>1, Invariance, PTL

\* A free slot never lies idle while tasks stand in line.
THEOREM WakeupsAreNotLost == Spec => []NoLostWakeup
<1>1. IInv => NoLostWakeup
  BY DEF IInv
<1> QED BY <1>1, Invariance, PTL

\* Every running update holds a slot of its own.
LEMMA RunningHaveSlots ==
    ASSUME IInv
    PROVE  SlotsConserved
<1> USE DEF IInv
<1> DEFINE f == [t \in RunningTickets |-> Key(chatOf[t])]
<1>1. \A t \in RunningTickets : t \in 1..Len(chatOf)
  <2> SUFFICES ASSUME NEW t \in RunningTickets PROVE t \in 1..Len(chatOf)
    OBVIOUS
  <2>1. t \in Tickets /\ status[t] = "running"
    BY DEF RunningTickets
  <2>2. ~(t > Len(chatOf))
    BY <2>1 DEF QueueInv
  <2> QED BY <2>1, <2>2, Entries DEF Tickets
<1>2. \A t \in RunningTickets : /\ f[t] \in Holders
                                /\ current[f[t]] = t
  <2> SUFFICES ASSUME NEW t \in RunningTickets
               PROVE  Key(chatOf[t]) \in Holders /\ current[Key(chatOf[t])] = t
    OBVIOUS
  <2>1. t \in 1..Len(chatOf) /\ status[t] = "running" /\ Key(chatOf[t]) \in Keys
    BY <1>1, Entries DEF RunningTickets
  <2> QED BY <2>1 DEF WorkerInv, Holders
<1>3. f \in Injection(RunningTickets, Holders)
  <2>1. f \in [RunningTickets -> Holders]
    BY <1>2
  <2>2. \A s, t \in RunningTickets : f[s] = f[t] => s = t
    BY <1>2
  <2> QED BY <2>1, <2>2 DEF Injection, IsInjective
<1>4. Cardinality(RunningTickets) <= Cardinality(Holders)
  BY <1>3, FiniteCounts, FS_Injection
<1>5. free \in 0..Concurrency /\ Cardinality(Holders) \in Nat /\ Cardinality(RunningTickets) \in Nat
  BY FiniteCounts DEF TypeOK
<1> QED BY <1>4, <1>5, LimitsAssumption DEF SlotInv, SlotsConserved, Holders, RunningTickets

\* Never more than `concurrency` updates in processing, and no slot is lost or made up.
THEOREM SlotsAreConserved == Spec => []SlotsConserved
<1>1. IInv => SlotsConserved
  BY RunningHaveSlots
<1> QED BY <1>1, Invariance, PTL

\* Once the final abort() is over only what hangs behind a stuck handler is left.
THEOREM NothingIsLeft == Spec => []NothingOutlivesRunner
<1>1. IInv /\ StopInv => NothingOutlivesRunner
  <2> SUFFICES ASSUME IInv, StopInv, phase = "closed" PROVE NothingOutlivesRunner
    BY DEF NothingOutlivesRunner
  <2> USE DEF IInv
  <2>1. ASSUME NEW t \in 1..Len(chatOf), status[t] \in Open
        PROVE  worker[Key(chatOf[t])] = "processing" /\ stuck
    <3>1. Key(chatOf[t]) \in Keys
      BY Entries
    <3>2. CASE status[t] = "running"
      BY <3>1, <3>2 DEF WorkerInv, StopInv
    <3>3. CASE status[t] = "queued"
      <4>1. queue[Key(chatOf[t])] # <<>>
        <5>1. PICK i \in 1..Len(queue[Key(chatOf[t])]) : queue[Key(chatOf[t])][i] = t
          BY <3>3 DEF QueueInv, Queued
        <5> QED BY <5>1
      <4>2. worker[Key(chatOf[t])] # "none"
        BY <3>1, <4>1 DEF WorkerInv
      <4> QED BY <3>1, <4>2 DEF StopInv
    <3> QED BY <2>1, <3>2, <3>3 DEF Open
  <2>2. ASSUME ~stuck
        PROVE  Live = {} /\ pending = 0
    <3>1. Live = {}
      BY <2>2 DEF StopInv, Live
    <3>2. OpenTickets = {}
      <4> SUFFICES ASSUME NEW t \in Tickets, status[t] \in Open PROVE FALSE
        BY DEF OpenTickets
      <4>1. ~(t > Len(chatOf))
        BY DEF QueueInv, Open
      <4>2. t \in 1..Len(chatOf)
        BY <4>1, Entries DEF Tickets
      <4> QED BY <4>2, <2>1, <2>2
    <3> QED BY <3>1, <3>2, FS_EmptySet DEF CounterInv
  <2> QED BY <2>1, <2>2 DEF NothingOutlivesRunner
<1> QED BY <1>1, Invariance, PTL

-----------------------------------------------------------------------------
(***************************************************************************)
(* The action properties: what a single step can do to a ticket.           *)
(***************************************************************************)

\* While the dispatcher is not stopped a step leaves a ticket, queues it, starts it, ends
\* it, or is a restart; once it is stopped a step starts nothing.
LEMMA StatusStep ==
    ASSUME IInv, StopInv, [Next]_vars, NEW t \in Tickets
    PROVE  \/ status'[t] = status[t]
           \/ status'[t] \in {"queued", "running", "done"} /\ ~stopped
           \/ status'[t] \in {"done", "dropped"} /\ stopped
           \/ status'[t] = "killed"
<1> USE DEF IInv
<1>1. CASE UNCHANGED status
  BY <1>1
<1>2. CASE Submit
  BY <1>2 DEF Submit, TypeOK
<1>3. ASSUME NEW k \in Keys, BeginChat(k) \/ Resume(k) \/ FinishAndContinue(k), status' # status
      PROVE  status'[t] \in {status[t], "running", "done"} /\ ~stopped
  <2>1. ~stopped
    BY <1>3 DEF BeginChat, Resume, FinishAndContinue
  <2>2. CASE BeginChat(k) \/ Resume(k)
    <3>1. StartNext(k, NoFate)
      BY <1>3, <2>2 DEF BeginChat, Resume
    <3> QED BY <2>1, <3>1 DEF StartNext, NoFate
  <2>3. CASE FinishAndContinue(k)
    <3>1. StartNext(k, [x \in {current[k]} |-> "done"])
      BY <2>3 DEF FinishAndContinue
    <3> QED BY <2>1, <3>1 DEF StartNext
  <2> QED BY <1>3, <2>2, <2>3
<1>4. ASSUME NEW k \in Keys, FinishLast(k) \/ FinishAndWait(k)
      PROVE  status'[t] \in {status[t], "done"} /\ ~stopped
  BY <1>4 DEF FinishLast, FinishAndWait, TypeOK
<1>5. ASSUME NEW k \in Keys, CancelWaiting(k) \/ CleanUp(k)
      PROVE  status'[t] \in {status[t], "dropped"} /\ stopped
  <2>1. Drop(k, NoFate)
    BY <1>5 DEF CancelWaiting, CleanUp
  <2>2. stopped
    BY <1>5 DEF CancelWaiting, CleanUp, StopInv
  <2> QED BY <2>1, <2>2 DEF Drop, NoFate
<1>6. ASSUME NEW k \in Keys, FinishStopped(k)
      PROVE  status'[t] \in {status[t], "done", "dropped"} /\ stopped
  <2>1. PICK fate \in {"done", "dropped"} : Drop(k, [x \in {current[k]} |-> fate])
    BY <1>6 DEF FinishStopped
  <2> QED BY <2>1, <1>6 DEF Drop, FinishStopped
<1>7. CASE Restart
  BY <1>7 DEF Restart
<1>8. CASE \E cs \in Batches : Receive(cs)
  BY <1>8 DEF Receive, tickets
<1>9. CASE BeginDrain \/ Interrupt \/ DrainDone \/ DrainTimeout \/ FinalAbort \/ AbortWaited \/ AbortDone
  BY <1>9
  DEF BeginDrain, Interrupt, DrainDone, DrainTimeout, FinalAbort, Abort, AbortWaited, AbortDone, tickets
<1>10. ASSUME NEW k \in Keys, CancelUnborn(k) PROVE UNCHANGED status
  BY <1>10 DEF CancelUnborn, tickets
<1>11. CASE \E k \in Keys : Worker(k)
  BY <1>1, <1>3, <1>4, <1>5, <1>6, <1>10, <1>11 DEF Worker, Finish
<1>12. CASE Stopping
  BY <1>1, <1>5, <1>9, <1>12 DEF Stopping
<1>13. CASE UNCHANGED vars
  BY <1>13 DEF vars, tickets
<1> QED BY <1>2, <1>7, <1>8, <1>9, <1>11, <1>12, <1>13 DEF Next

\* No handler is started once abort() has begun.
THEOREM NothingIsStarted == Spec => NothingStartsAfterAbort
<1>1. IInv /\ StopInv /\ [Next]_vars
        => [\A t \in Tickets : stopped /\ status[t] = "queued" => status'[t] # "running"]_vars
  BY StatusStep
<1> QED BY <1>1, Invariance, PTL DEF Spec, NothingStartsAfterAbort

\* An accepted update is given up only by abort() or with the process.
THEOREM DropsNeedAbort == Spec => DropsOnlyOnAbort
<1>1. IInv /\ StopInv /\ [Next]_vars
        => [\A t \in Tickets : status[t] \in Open /\ status'[t] \notin Open \union {"done"}
                                 => stopped \/ status'[t] = "killed"]_vars
  BY StatusStep DEF Open
<1> QED BY <1>1, Invariance, PTL DEF Spec, DropsOnlyOnAbort

\* The tickets, the counters, the queues and the slots agree at every moment (dispatch.py:69-98).
THEOREM QueuesAreSound == Spec => []QueuesSound
<1>1. TypeOK /\ CountersExact /\ BacklogBounded /\ SlotsConserved /\ NoOrphanedQueue /\ NoLostWakeup
        => QueuesSound
  BY DEF QueuesSound
<1> QED
  BY <1>1, TypeCorrect, CountersAreExact, BacklogIsBounded, SlotsAreConserved, QueuesAreRead,
     WakeupsAreNotLost, PTL

\* abort() is final: nothing starts after it, nothing is given up without it (dispatch.py:156-174).
THEOREM AbortStands == Spec => AbortIsFinal
<1> QED
  BY NothingIsStarted, DropsNeedAbort DEF AbortIsFinal
====
