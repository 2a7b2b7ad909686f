-------------------------- MODULE ModelCallsProofs --------------------------
(***************************************************************************)
(* The books on the calls to a model, proved for every set of steps, every *)
(* number of slots, every limit of retries and every number of rounds.     *)
(*                                                                         *)
(* The balance of slots and the expense are not inductive by themselves.   *)
(* CInv adds where a step may stand in a line (Lines: once, in the line of *)
(* its own provider, and only while it waits), which tries of a call the   *)
(* requests sent again belong to (SentAgain), how the two meters of a step *)
(* relate while a structured answer is half way (Books), and where a photo *)
(* may be while its question is asked (PhotosOnTheWay).                    *)
(***************************************************************************)
EXTENDS ModelCalls, FiniteSetTheorems, SequenceTheorems, TLAPS

Results == {"none", "math", "noise", "good", "poor", "invalid", "error", "cancelled"} \cup Pages

StepRecords ==
    [stage : {"look", "ask", "again"}, round : Nat, half : {0, 1}, counted : Nat,
     read : SUBSET Pages, best : {"none", "unsure", "empty"}, result : Results]

CallRecords == [tries : Nat, charged : SUBSET [try : Nat, reply : Replies], outcome : Results]

Places == {"idle", "pausing", "over"} \cup Waiting \cup Flying

Types ==
    /\ job \in [Steps -> Jobs]
    /\ at \in [Steps -> Places]
    /\ call \in [Steps -> CallRecords]
    /\ step \in [Steps -> StepRecords]
    /\ free \in [Providers -> Nat]
    /\ line \in [Providers -> Seq(Steps)]
    /\ photo \in [Steps -> BOOLEAN]
    /\ log \in [Steps -> Nat]
    /\ cache \in {"none", "broken", "checked"}

\* No step twice in a line.
Once(q) == \A i, j \in 1..Len(q) : q[i] = q[j] => i = j

\* The line of a provider holds steps that wait for it, each once.
Lines ==
    \A q \in Providers :
       /\ Once(line[q])
       /\ \A i \in 1..Len(line[q]) : Via(line[q][i]) = q /\ at[line[q][i]] \in Waiting

\* A step under way after n entries of the journal: it has counted them all, but for the answer
\* that waits for its repeat.
Going(st, n) ==
    /\ st \in StepRecords
    /\ st.half = (IF st.stage = "again" THEN 1 ELSE 0)
    /\ st.counted + st.half = n
    /\ st.result = "none"
    /\ "unsure" \in st.read => st.best = "unsure"

\* A step that is over after n entries of the journal.
Ended(st, n) ==
    /\ st \in StepRecords
    /\ st.result \notin {"error", "cancelled"} => st.counted = n
    /\ st.result = "empty" => "unsure" \notin st.read

Books ==
    \A s \in Steps :
       /\ IF at[s] = "over" THEN Ended(step[s], log[s]) ELSE Going(step[s], log[s])
       /\ at[s] = "idle" => step[s].stage # "again"

\* A photo is on its way up, or stored while its question is asked and its removal is tried.
PhotosOnTheWay ==
    \A s \in Steps :
       /\ at[s] \in {"upload queued", "uploading"} =>
             step[s].stage = "look" /\ Via(s) = "gigachat" /\ ~photo[s]
       /\ photo[s] => /\ step[s].stage = "look" /\ Via(s) = "gigachat"
                      /\ at[s] \in {"queued", "sent", "delete queued", "deleting"}

\* The requests sent again by a call that is at w: each try before the present one gave at most one
\* of them, the present one only when it is over and the call pauses before the next.
Behind(w, c) ==
    /\ c.tries <= MaxRetries
    /\ w = "pausing" => c.tries < MaxRetries
    /\ \A e \in c.charged :
          /\ e.reply \in {"lost", "failed"}
          /\ e.try < c.tries \/ (w = "pausing" /\ e.try = c.tries)
    /\ \A d, e \in c.charged : d.try = e.try => d = e

SentAgain == \A s \in Steps : Behind(at[s], call[s])

CInv == Types /\ Lines /\ SlotsAreRequests /\ SentAgain /\ Books /\ PhotosOnTheWay

-----------------------------------------------------------------------------
(* Lines: leaving one and joining one.                                     *)

\* Leaving a line takes the step out and keeps the others, each once.
LEMMA LeavesLine ==
  ASSUME NEW q \in Seq(Steps), NEW e \in Steps, Once(q)
  PROVE  LET r == RemoveFirst(q, e)
         IN /\ r \in Seq(Steps) /\ Once(r)
            /\ \A i \in 1..Len(r) : r[i] # e /\ \E j \in 1..Len(q) : q[j] = r[i]
<1>1. CASE \A i \in 1..Len(q) : q[i] # e
  <2>1. RemoveFirst(q, e) = q
    BY <1>1 DEF RemoveFirst
  <2> QED BY <1>1, <2>1
<1>2. ASSUME NEW k \in 1..Len(q), q[k] = e
      PROVE  LET r == RemoveFirst(q, e)
             IN /\ r \in Seq(Steps) /\ Once(r)
                /\ \A i \in 1..Len(r) : r[i] # e /\ \E j \in 1..Len(q) : q[j] = r[i]
  <2> DEFINE I == {i \in 1..Len(q) : q[i] = e}
             r == SubSeq(q, 1, k-1) \o SubSeq(q, k+1, Len(q))
  <2>1. I = {k}
    BY <1>2 DEF Once
  <2>2. Min({k}) = k
    BY DEF Min
  <2>3. SelectInSeq(q, LAMBDA v : v = e) = Min(I)
    BY <2>1 DEF SelectInSeq
  <2>4. RemoveFirst(q, e) = r
    BY <1>2, <2>1, <2>2, <2>3 DEF RemoveFirst, RemoveAt
  <2>5. /\ SubSeq(q, 1, k-1) \in Seq(Steps) /\ Len(SubSeq(q, 1, k-1)) = k - 1
        /\ \A i \in 1..(k-1) : SubSeq(q, 1, k-1)[i] = q[i]
    BY SubSeqProperties
  <2>6. /\ SubSeq(q, k+1, Len(q)) \in Seq(Steps) /\ Len(SubSeq(q, k+1, Len(q))) = Len(q) - k
        /\ \A i \in 1..(Len(q) - k) : SubSeq(q, k+1, Len(q))[i] = q[k + i]
    BY SubSeqProperties
  <2>7. /\ r \in Seq(Steps) /\ Len(r) = Len(q) - 1
        /\ \A i \in 1..Len(r) : r[i] = IF i < k THEN q[i] ELSE q[i + 1]
    <3> DEFINE x == SubSeq(q, 1, k-1)
               y == SubSeq(q, k+1, Len(q))
    <3>1. /\ x \o y \in Seq(Steps) /\ Len(x \o y) = Len(x) + Len(y)
          /\ \A i \in 1..(Len(x) + Len(y)) :
                (x \o y)[i] = IF i <= Len(x) THEN x[i] ELSE y[i - Len(x)]
      BY <2>5, <2>6, ConcatProperties
    <3>2. Len(x) = k - 1 /\ Len(y) = Len(q) - k /\ Len(q) \in Nat
      BY <2>5, <2>6
    <3>3. \A i \in 1..(k-1) : x[i] = q[i]
      BY <2>5
    <3>4. \A i \in 1..(Len(q) - k) : y[i] = q[k + i]
      BY <2>6
    <3> HIDE DEF x, y
    <3>5. \A i \in 1..(Len(q) - 1) : i >= k => y[i - (k - 1)] = q[i + 1]
      BY <3>2, <3>4
    <3>6. /\ x \o y \in Seq(Steps) /\ Len(x \o y) = Len(q) - 1
          /\ \A i \in 1..(Len(q) - 1) : (x \o y)[i] = IF i < k THEN q[i] ELSE q[i + 1]
      <4>1. Len(x) + Len(y) = Len(q) - 1
        BY <3>2
      <4>2. ASSUME NEW i \in 1..(Len(q) - 1)
            PROVE  (x \o y)[i] = IF i < k THEN q[i] ELSE q[i + 1]
        <5>1. (x \o y)[i] = IF i <= Len(x) THEN x[i] ELSE y[i - Len(x)]
          BY <3>1, <4>1
        <5>2. CASE i < k
          BY <3>2, <3>3, <5>1, <5>2
        <5>3. CASE i >= k
          BY <3>2, <3>5, <5>1, <5>3
        <5> QED BY <3>2, <5>2, <5>3
      <4> QED BY <3>1, <4>1, <4>2
    <3>7. r = x \o y
      BY DEF x, y
    <3> QED BY <3>6, <3>7
  <2> HIDE DEF r
  <2>8. ASSUME NEW i \in 1..Len(r), NEW j \in 1..Len(r), r[i] = r[j]
        PROVE  i = j
    <3>1. /\ r[i] = IF i < k THEN q[i] ELSE q[i + 1]
          /\ r[j] = IF j < k THEN q[j] ELSE q[j + 1]
          /\ {i, i + 1, j, j + 1} \subseteq 1..Len(q)
      BY <2>7
    <3>2. \A a, b \in 1..Len(q) : q[a] = q[b] => a = b
      BY DEF Once
    <3>3. i \in Nat /\ j \in Nat /\ k \in Nat
      BY <2>7
    <3>4. PICK a \in 1..Len(q) : a = (IF i < k THEN i ELSE i + 1) /\ r[i] = q[a]
      BY <3>1
    <3>5. PICK b \in 1..Len(q) : b = (IF j < k THEN j ELSE j + 1) /\ r[j] = q[b]
      BY <3>1
    <3>6. a = b
      BY <2>8, <3>2, <3>4, <3>5
    <3> QED BY <3>3, <3>4, <3>5, <3>6
  <2>9. \A i \in 1..Len(r) : r[i] # e /\ \E j \in 1..Len(q) : q[j] = r[i]
    BY <1>2, <2>7 DEF Once
  <2> QED BY <2>4, <2>7, <2>8, <2>9 DEF Once
<1> QED BY <1>1, <1>2

\* A step that joins a line it is not in stands there once.
LEMMA JoinsLine ==
  ASSUME NEW q \in Seq(Steps), NEW e \in Steps, Once(q), \A i \in 1..Len(q) : q[i] # e
  PROVE  /\ Append(q, e) \in Seq(Steps) /\ Once(Append(q, e))
         /\ \A i \in 1..Len(Append(q, e)) :
               Append(q, e)[i] = e \/ \E j \in 1..Len(q) : q[j] = Append(q, e)[i]
BY DEF Once

\* What becomes of the lines when step s moves to the place w: it leaves its line, or goes to the
\* end of it, or joins it, or was not in it.
Queues(s, w) ==
    \/ w \in Waiting /\ line' = [line EXCEPT ![Via(s)] = Append(RemoveFirst(@, s), s)]
    \/ line' = [line EXCEPT ![Via(s)] = RemoveFirst(@, s)]
    \/ at[s] \notin Waiting /\ w \in Waiting /\ line' = [line EXCEPT ![Via(s)] = Append(@, s)]
    \/ at[s] \notin Waiting /\ line' = line

LEMMA ViaProvider ==
  ASSUME Types, NEW s \in Steps
  PROVE  Via(s) \in Providers
BY JobsAssumption DEF Types, Via

\* A step that moves so keeps the lines sound.
\* x is a sound line of provider q when the steps are at the places a.
LineOf(q, x, a) ==
    /\ x \in Seq(Steps) /\ Once(x)
    /\ \A i \in 1..Len(x) : Via(x[i]) = q /\ a[x[i]] \in Waiting

\* The line of the provider of step s, which moves to the place w, after s has left or joined it.
LEMMA OwnLine ==
  ASSUME NEW s \in Steps, NEW w, NEW a, NEW b, NEW x, LineOf(Via(s), x, a),
         \A t \in Steps : b[t] = IF t = s THEN w ELSE a[t]
  PROVE  /\ LineOf(Via(s), RemoveFirst(x, s), b)
         /\ w \in Waiting => LineOf(Via(s), Append(RemoveFirst(x, s), s), b)
         /\ a[s] \notin Waiting => LineOf(Via(s), x, b)
         /\ a[s] \notin Waiting /\ w \in Waiting => LineOf(Via(s), Append(x, s), b)
<1> DEFINE v == Via(s)
           y == RemoveFirst(x, s)
<1>1. x \in Seq(Steps) /\ Once(x) /\ \A i \in 1..Len(x) : Via(x[i]) = v /\ a[x[i]] \in Waiting
  BY DEF LineOf
<1>2. /\ y \in Seq(Steps) /\ Once(y)
      /\ \A i \in 1..Len(y) : y[i] # s /\ \E j \in 1..Len(x) : x[j] = y[i]
  BY <1>1, LeavesLine
<1> HIDE DEF y
<1>3. ASSUME NEW z \in Seq(Steps), Once(z),
             \A i \in 1..Len(z) : z[i] # s /\ \E j \in 1..Len(x) : x[j] = z[i]
      PROVE  LineOf(v, z, b) /\ (w \in Waiting => LineOf(v, Append(z, s), b))
  <2>1. \A i \in 1..Len(z) : Via(z[i]) = v /\ b[z[i]] \in Waiting
    BY <1>1, <1>3
  <2>2. /\ Append(z, s) \in Seq(Steps) /\ Once(Append(z, s))
        /\ \A i \in 1..Len(Append(z, s)) :
              Append(z, s)[i] = s \/ \E j \in 1..Len(z) : z[j] = Append(z, s)[i]
    BY <1>3, JoinsLine
  <2>3. b[s] = w
    OBVIOUS
  <2>4. w \in Waiting => \A i \in 1..Len(Append(z, s)) :
                            Via(Append(z, s)[i]) = v /\ b[Append(z, s)[i]] \in Waiting
    BY <2>1, <2>2, <2>3
  <2> QED BY <1>3, <2>1, <2>2, <2>4 DEF LineOf
<1>4. LineOf(v, y, b) /\ (w \in Waiting => LineOf(v, Append(y, s), b))
  BY <1>2, <1>3
<1>5. ASSUME a[s] \notin Waiting
      PROVE  LineOf(v, x, b) /\ (w \in Waiting => LineOf(v, Append(x, s), b))
  <2>1. \A i \in 1..Len(x) : x[i] # s
    BY <1>1, <1>5
  <2> QED BY <1>1, <1>3, <2>1
<1> QED BY <1>4, <1>5 DEF y

\* A step that moves so keeps the lines sound.
LEMMA LinesKept ==
  ASSUME Types, Lines, NEW s \in Steps, NEW w \in Places, Queues(s, w),
         at' = [at EXCEPT ![s] = w], UNCHANGED job
  PROVE  Lines' /\ line' \in [Providers -> Seq(Steps)]
<1>1. Via(s) \in Providers /\ at[s] \in Places
  BY ViaProvider DEF Types
<1>2. \A t \in Steps : at'[t] = IF t = s THEN w ELSE at[t]
  BY DEF Types
<1>3. \A q \in Providers : LineOf(q, line[q], at)
  BY DEF Types, Lines, LineOf
<1>4. LineOf(Via(s), line'[Via(s)], at')
  <2> DEFINE x == line[Via(s)]
  <2>1. \/ w \in Waiting /\ line'[Via(s)] = Append(RemoveFirst(x, s), s)
        \/ line'[Via(s)] = RemoveFirst(x, s)
        \/ at[s] \notin Waiting /\ w \in Waiting /\ line'[Via(s)] = Append(x, s)
        \/ at[s] \notin Waiting /\ line'[Via(s)] = x
    BY <1>1 DEF Types, Queues
  <2>2. LineOf(Via(s), x, at)
    BY <1>1, <1>3
  <2> HIDE DEF x
  <2>3. /\ LineOf(Via(s), RemoveFirst(x, s), at')
        /\ w \in Waiting => LineOf(Via(s), Append(RemoveFirst(x, s), s), at')
        /\ at[s] \notin Waiting => LineOf(Via(s), x, at')
        /\ at[s] \notin Waiting /\ w \in Waiting => LineOf(Via(s), Append(x, s), at')
    BY <1>2, <2>2, OwnLine
  <2> QED BY <2>1, <2>3
<1>5. ASSUME NEW q \in Providers, q # Via(s)
      PROVE  LineOf(q, line'[q], at')
  <2>1. line'[q] = line[q]
    BY <1>1, <1>5 DEF Types, Queues
  <2>2. \A i \in 1..Len(line[q]) : line[q][i] \in Steps \ {s}
    BY <1>3, <1>5 DEF LineOf
  <2> QED BY <1>2, <1>3, <2>1, <2>2 DEF LineOf
<1>6. \A q \in Providers : LineOf(q, line'[q], at')
  BY <1>4, <1>5
<1>7. line' = [q \in Providers |-> line'[q]]
  BY <1>1 DEF Types, Queues
<1>8. line' \in [Providers -> Seq(Steps)]
  BY <1>6, <1>7 DEF LineOf
<1>9. \A t : Via(t)' = Via(t)
  BY DEF Via
<1> QED BY <1>6, <1>8, <1>9 DEF Lines, LineOf

-----------------------------------------------------------------------------
(* Slots: who holds one, and how the count follows a move.                 *)

\* The steps that hold a slot of provider q when the steps are at the places a.
Holders(q, a) == {s \in Steps : Via(s) = q /\ a[s] \in Flying}

LEMMA HoldersFinite ==
  ASSUME NEW q, NEW a
  PROVE  IsFiniteSet(Holders(q, a)) /\ Cardinality(Holders(q, a)) \in Nat
BY StepsAssumption, FS_Subset, FS_CardinalityType DEF Holders

\* The slot a step gives back when it leaves a request, if it was in one.
GivesBack(s) == free' = IF at[s] \in Flying THEN [free EXCEPT ![Via(s)] = @ + 1] ELSE free

\* The balance of provider q when the steps are at the places a and f[q] slots are free.
Balance(q, f, a) == f[q] + Cardinality(Holders(q, a)) = Slots[q]

LEMMA BalanceMeaning ==
  /\ SlotsAreRequests <=> \A q \in Providers : Balance(q, free, at)
  /\ UNCHANGED job => (SlotsAreRequests' <=> \A q \in Providers : Balance(q, free', at'))
BY DEF SlotsAreRequests, Balance, Holders, Via

\* A move of step s to a place where it holds no slot keeps the balance.
LEMMA SlotsKept ==
  ASSUME Types, SlotsAreRequests, NEW s \in Steps, NEW w \in Places \ Flying,
         at' = [at EXCEPT ![s] = w], GivesBack(s), UNCHANGED job
  PROVE  SlotsAreRequests' /\ free' \in [Providers -> Nat]
<1>1. Via(s) \in Providers
  BY ViaProvider
<1>2. \A t \in Steps : at'[t] = IF t = s THEN w ELSE at[t]
  BY DEF Types
<1>3. free \in [Providers -> Nat]
  BY DEF Types
<1>4. \A q \in Providers : Balance(q, free, at)
  BY BalanceMeaning
<1>5. ASSUME NEW q \in Providers
      PROVE  Balance(q, free', at')
  <2>1. CASE q = Via(s) /\ at[s] \in Flying
    <3>1. Holders(q, at') = Holders(q, at) \ {s} /\ s \in Holders(q, at)
      BY <1>2, <2>1 DEF Holders
    <3>2. Cardinality(Holders(q, at')) = Cardinality(Holders(q, at)) - 1
      BY <3>1, HoldersFinite, FS_RemoveElement
    <3>3. free'[q] = free[q] + 1
      BY <1>3, <2>1 DEF GivesBack
    <3> QED BY <1>3, <1>4, <3>2, <3>3, HoldersFinite DEF Balance
  <2>2. CASE ~(q = Via(s) /\ at[s] \in Flying)
    <3>1. Holders(q, at') = Holders(q, at)
      BY <1>2, <2>2 DEF Holders
    <3>2. free'[q] = free[q]
      BY <1>1, <1>3, <2>2 DEF GivesBack
    <3> QED BY <1>4, <3>1, <3>2 DEF Balance
  <2> QED BY <2>1, <2>2
<1>6. free' \in [Providers -> Nat]
  <2>1. free[Via(s)] + 1 \in Nat
    BY <1>1, <1>3
  <2> QED BY <1>1, <1>3, <2>1 DEF GivesBack
<1> QED BY <1>5, <1>6, BalanceMeaning

-----------------------------------------------------------------------------
(* How a call ends: the step goes on with another call, or is over.        *)

\* With n entries of the journal, step s asks again with its books in order, or is over with its
\* books closed.
Settled(s, n) ==
    /\ log' = [log EXCEPT ![s] = n]
    /\ \/ \E st : Continue(s, st) /\ Going(st, n)
       \/ \E st, r : Finish(s, st, r) /\ Ended([st EXCEPT !.result = r], n)

LEMMA RoundSettles ==
  ASSUME NEW s \in Steps, NEW st, NEW n \in Nat, st \in StepRecords, st.half = 0,
         st.counted = n, st.result = "none", "unsure" \in st.read => st.best = "unsure",
         NextRound(s, st)
  PROVE  \/ \E u : Continue(s, u) /\ Going(u, n)
         \/ \E u, r : Finish(s, u, r) /\ Ended([u EXCEPT !.result = r], n)
<1>1. CASE st.round < Rounds[job[s].kind]
  <2> DEFINE u == [st EXCEPT !.round = @ + 1, !.stage = NewStep(job[s].kind).stage]
  <2>1. NewStep(job[s].kind).stage \in {"look", "ask"}
    BY DEF NewStep
  <2>2. Continue(s, u)
    BY <1>1 DEF NextRound
  <2>3. Going(u, n)
    <3>1. PICK g \in {"look", "ask"} : g = NewStep(job[s].kind).stage
      BY <2>1
    <3>2. PICK m \in Nat : m = st.round + 1
      BY DEF StepRecords
    <3>3. u = [st EXCEPT !.round = m, !.stage = g]
      BY <3>1, <3>2
    <3> HIDE DEF u
    <3>4. u \in StepRecords
      BY <3>3 DEF StepRecords
    <3>5. /\ u.half = 0 /\ u.counted = n /\ u.stage = g /\ u.result = "none"
          /\ u.read = st.read /\ u.best = st.best
      BY <3>3 DEF StepRecords
    <3> QED BY <3>4, <3>5 DEF Going
  <2> HIDE DEF u
  <2> QED BY <2>2, <2>3
<1>2. CASE ~(st.round < Rounds[job[s].kind])
  <2>1. Finish(s, st, st.best)
    BY <1>2 DEF NextRound
  <2>2. Ended([st EXCEPT !.result = st.best], n)
    BY DEF Ended, StepRecords, Results, Pages
  <2> QED BY <2>1, <2>2
<1> QED BY <1>1, <1>2

LEMMA TakeSettles ==
  ASSUME NEW s \in Steps, NEW st, NEW n \in Nat, Going(st, n), NEW c \in Results,
         Take(s, c, st)
  PROVE  \/ \E u : Continue(s, u) /\ Going(u, n + 1)
         \/ \E u, r : Finish(s, u, r) /\ Ended([u EXCEPT !.result = r], n + 1)
<1> DEFINE k == job[s].kind
           whole == [st EXCEPT !.counted = @ + st.half + 1, !.half = 0]
           failed == [st EXCEPT !.counted = @ + InvalidUsage(st), !.half = 0]
           m == n + 1
<1> SUFFICES \/ \E u : Continue(s, u) /\ Going(u, m)
             \/ \E u, r : Finish(s, u, r) /\ Ended([u EXCEPT !.result = r], m)
  OBVIOUS
<1>1. /\ st \in StepRecords /\ st.counted + st.half = n /\ st.result = "none"
      /\ "unsure" \in st.read => st.best = "unsure"
      /\ st.half = IF st.stage = "again" THEN 1 ELSE 0
  BY DEF Going
<1>a. m \in Nat /\ st.counted + st.half + 1 = m /\ st.counted + InvalidUsage(st) = m
  BY <1>1 DEF StepRecords, InvalidUsage
<1> HIDE DEF m
<1>b. whole = [st EXCEPT !.counted = m, !.half = 0] /\ failed = [st EXCEPT !.counted = m, !.half = 0]
  BY <1>a
<1>2. /\ whole \in StepRecords /\ whole.half = 0 /\ whole.counted = m
      /\ whole.result = "none" /\ ("unsure" \in whole.read => whole.best = "unsure")
      /\ whole.stage = st.stage
  <2> HIDE DEF whole, failed
  <2> QED BY <1>1, <1>a, <1>b DEF StepRecords
<1>3. /\ failed \in StepRecords /\ failed.half = 0 /\ failed.counted = m
      /\ failed.result = "none" /\ ("unsure" \in failed.read => failed.best = "unsure")
  <2> HIDE DEF whole, failed
  <2> QED BY <1>1, <1>a, <1>b DEF StepRecords
<1>4. \/ c = "math" /\ Continue(s, [whole EXCEPT !.stage = "ask"])
      \/ c = "noise" /\ NextRound(s, whole)
      \/ /\ c = "invalid" /\ st.stage = "ask"
         /\ Continue(s, [st EXCEPT !.stage = "again", !.half = 1])
      \/ c = "invalid" /\ st.stage = "again" /\ NextRound(s, failed)
      \/ c = "invalid" /\ st.stage = "again" /\ Finish(s, failed, "invalid")
      \/ /\ c \in {"unsure", "empty"}
         /\ NextRound(s, [whole EXCEPT !.best = IF Better(c, @) THEN c ELSE @,
                                       !.read = @ \cup {c}])
      \/ c = "poor" /\ NextRound(s, whole)
      \/ c \notin {"unsure", "empty"} /\ Finish(s, whole, c)
  BY <1>1 DEF Take
<1> HIDE DEF whole, failed
<1>5. CASE c = "math" /\ Continue(s, [whole EXCEPT !.stage = "ask"])
  <2> DEFINE u == [whole EXCEPT !.stage = "ask"]
  <2>1. Going(u, m)
    BY <1>2 DEF Going, StepRecords
  <2>2. Continue(s, u)
    BY <1>5
  <2> HIDE DEF u
  <2> QED BY <2>1, <2>2
<1>6. CASE NextRound(s, whole)
  BY <1>2, <1>6, <1>a, RoundSettles
<1>7. CASE c = "invalid" /\ st.stage = "ask" /\ Continue(s, [st EXCEPT !.stage = "again", !.half = 1])
  <2> DEFINE u == [st EXCEPT !.stage = "again", !.half = 1]
  <2>1. Going(u, m)
    <3>1. st.half = 0 /\ st.counted + 1 = m
      BY <1>1, <1>7, <1>a DEF StepRecords
    <3>2. u \in StepRecords
      BY <1>1 DEF StepRecords
    <3>3. /\ u.half = 1 /\ u.counted = st.counted /\ u.stage = "again" /\ u.result = st.result
          /\ u.read = st.read /\ u.best = st.best
      BY <1>1 DEF StepRecords
    <3> HIDE DEF u
    <3> QED BY <1>1, <3>1, <3>2, <3>3 DEF Going
  <2>2. Continue(s, u)
    BY <1>7
  <2> HIDE DEF u
  <2> QED BY <2>1, <2>2
<1>8. CASE NextRound(s, failed)
  BY <1>3, <1>8, <1>a, RoundSettles
<1>9. CASE Finish(s, failed, "invalid")
  <2>1. Ended([failed EXCEPT !.result = "invalid"], m)
    BY <1>3 DEF Ended, StepRecords, Results
  <2> QED BY <1>9, <2>1
<1>10. CASE /\ c \in {"unsure", "empty"}
            /\ NextRound(s, [whole EXCEPT !.best = IF Better(c, @) THEN c ELSE @,
                                          !.read = @ \cup {c}])
  <2> DEFINE u == [whole EXCEPT !.best = IF Better(c, @) THEN c ELSE @, !.read = @ \cup {c}]
  <2>1. /\ u \in StepRecords /\ u.half = 0 /\ u.counted = m /\ u.result = "none"
        /\ "unsure" \in u.read => u.best = "unsure"
    BY <1>2, <1>10 DEF StepRecords, Better, Pages
  <2>2. NextRound(s, u)
    BY <1>10
  <2> HIDE DEF u
  <2> QED BY <2>1, <2>2, <1>a, RoundSettles
<1>11. CASE c \notin {"unsure", "empty"} /\ Finish(s, whole, c)
  <2>1. Ended([whole EXCEPT !.result = c], m)
    BY <1>2, <1>11 DEF Ended, StepRecords, Results
  <2> QED BY <1>11, <2>1
<1> QED BY <1>4, <1>5, <1>6, <1>7, <1>8, <1>9, <1>10, <1>11

\* Whatever the call ends with, its step is settled and no unchecked solution is kept.
LEMMA CallSettles ==
  ASSUME Types, Books, NEW s \in Steps, at[s] # "over", NEW outcome \in Results,
         Settle(s, outcome)
  PROVE  Settled(s, log[s] + 1) /\ cache' \in {"none", "broken", "checked"}
<1>1. Going(step[s], log[s]) /\ log[s] \in Nat
  BY DEF Books, Types
<1>2. log' = [log EXCEPT ![s] = log[s] + 1]
  BY DEF Settle, Entry
<1>3. CASE outcome \in {"error", "cancelled"}
  <2>1. Finish(s, step[s], outcome) /\ UNCHANGED cache
    BY <1>3 DEF Settle
  <2>2. Ended([step[s] EXCEPT !.result = outcome], log[s] + 1)
    BY <1>1, <1>3 DEF Ended, Going, StepRecords, Results
  <2> QED BY <1>2, <2>1, <2>2 DEF Settled, Types
<1>4. CASE outcome \notin {"error", "cancelled"}
  <2>1. Take(s, outcome, step[s]) /\ cache' = Cached(s, outcome)
    BY <1>4 DEF Settle
  <2>2. cache' \in {"none", "broken", "checked"}
    BY <2>1 DEF Cached, Keeps, Types
  <2> QED BY <1>1, <1>2, <2>1, <2>2, TakeSettles DEF Settled
<1> QED BY <1>3, <1>4

-----------------------------------------------------------------------------
(* One step moves: the invariant for it and for all the others.            *)

\* Step s at the place w with the variables st, n entries in the journal, and a photo stored or
\* not (p) is as the invariant wants it.
Sound(s, w, st, n, p) ==
    /\ n \in Nat /\ p \in BOOLEAN
    /\ IF w = "over" THEN Ended(st, n) ELSE Going(st, n)
    /\ w = "idle" => st.stage # "again"
    /\ w \in {"upload queued", "uploading"} => st.stage = "look" /\ Via(s) = "gigachat" /\ ~p
    /\ p => /\ st.stage = "look" /\ Via(s) = "gigachat"
            /\ w \in {"queued", "sent", "delete queued", "deleting"}

LEMMA SoundSteps ==
  ASSUME Types
  PROVE  Books /\ PhotosOnTheWay <=> \A s \in Steps : Sound(s, at[s], step[s], log[s], photo[s])
BY DEF Types, Books, PhotosOnTheWay, Sound

\* Where a call is tells its retries only whether it pauses.
LEMMA CalmElsewhere ==
  ASSUME NEW v, v # "pausing", NEW w, w # "pausing", NEW c, Behind(v, c)
  PROVE  Behind(w, c)
BY DEF Behind

LEMMA MoveKeeps ==
  ASSUME CInv, NEW s \in Steps, NEW w \in Places \ Flying, NEW c \in CallRecords, Behind(w, c),
         NEW st, NEW n, NEW p, Sound(s, w, st, n, p),
         at' = [at EXCEPT ![s] = w], call' = [call EXCEPT ![s] = c],
         step' = [step EXCEPT ![s] = st], log' = [log EXCEPT ![s] = n],
         photo' = [photo EXCEPT ![s] = p], cache' \in {"none", "broken", "checked"},
         UNCHANGED job, Queues(s, w), GivesBack(s)
  PROVE  CInv'
<1>1. Lines' /\ line' \in [Providers -> Seq(Steps)]
  BY LinesKept DEF CInv
<1>2. SlotsAreRequests' /\ free' \in [Providers -> Nat]
  BY SlotsKept DEF CInv
<1>3. st \in StepRecords
  BY DEF Sound, Ended, Going
<1>4. Types'
  BY <1>1, <1>2, <1>3 DEF CInv, Types, Sound
<1>5. SentAgain'
  BY DEF CInv, Types, SentAgain, Behind
<1>6. ASSUME NEW t \in Steps
      PROVE  Sound(t, at'[t], step'[t], log'[t], photo'[t])
  <2>1. CASE t = s
    BY <2>1 DEF CInv, Types
  <2>2. CASE t # s
    <3>1. at'[t] = at[t] /\ step'[t] = step[t] /\ log'[t] = log[t] /\ photo'[t] = photo[t]
      BY <2>2 DEF CInv, Types
    <3>2. Sound(t, at[t], step[t], log[t], photo[t])
      BY SoundSteps DEF CInv
    <3> QED BY <3>1, <3>2
  <2> QED BY <2>1, <2>2
<1>7. \A t : Via(t)' = Via(t)
  BY DEF Via
<1>8. Books' /\ PhotosOnTheWay'
  BY <1>6, <1>7 DEF Books, PhotosOnTheWay, Sound
<1> QED BY <1>1, <1>2, <1>4, <1>5, <1>8 DEF CInv

\* The call of step s is over, and no photo of it is left to remove.
LEMMA SettledKeeps ==
  ASSUME CInv, NEW s \in Steps, NEW n \in Nat, Settled(s, n),
         photo' = [photo EXCEPT ![s] = FALSE], cache' \in {"none", "broken", "checked"},
         UNCHANGED job, GivesBack(s)
  PROVE  CInv'
<1>1. NoCall \in CallRecords /\ \A w : w # "pausing" => Behind(w, NoCall)
  BY RetriesAssumption DEF NoCall, CallRecords, Results, Behind
<1>2. log' = [log EXCEPT ![s] = n]
  BY DEF Settled
<1>3. ASSUME NEW st, Continue(s, st), Going(st, n)
      PROVE  CInv'
  <2> DEFINE w == IF Uploads(s, st) THEN "upload queued" ELSE "queued"
  <2>1. /\ step' = [step EXCEPT ![s] = st] /\ call' = [call EXCEPT ![s] = NoCall]
        /\ at' = [at EXCEPT ![s] = w]
        /\ line' = [line EXCEPT ![Via(s)] = Append(RemoveFirst(@, s), s)]
    BY <1>3 DEF Continue
  <2>2. Sound(s, w, st, n, FALSE)
    BY <1>3 DEF Sound, Uploads
  <2>3. w \in Places \ Flying /\ w \in Waiting
    BY DEF Places, Flying, Waiting
  <2>5. Behind(w, NoCall)
    BY <1>1
  <2> HIDE DEF w
  <2>4. Queues(s, w)
    BY <2>1, <2>3 DEF Queues
  <2> QED BY <1>1, <1>2, <2>1, <2>2, <2>3, <2>4, <2>5, MoveKeeps
<1>4. ASSUME NEW u, NEW r, Finish(s, u, r), Ended([u EXCEPT !.result = r], n)
      PROVE  CInv'
  <2> DEFINE st == [u EXCEPT !.result = r]
  <2>1. /\ step' = [step EXCEPT ![s] = st] /\ call' = [call EXCEPT ![s] = NoCall]
        /\ at' = [at EXCEPT ![s] = "over"]
        /\ line' = [line EXCEPT ![Via(s)] = RemoveFirst(@, s)]
    BY <1>4, Zenon DEF Finish
  <2>2. Ended(st, n)
    BY <1>4
  <2> HIDE DEF st
  <2>3. Sound(s, "over", st, n, FALSE)
    BY <2>2 DEF Sound
  <2>4. "over" \in Places \ Flying /\ Queues(s, "over")
    BY <2>1 DEF Places, Flying, Queues
  <2> QED BY <1>1, <1>2, <2>1, <2>3, <2>4, MoveKeeps
<1> QED BY <1>3, <1>4, Zenon DEF Settled

\* What the invariant says of one step.
LEMMA StepFacts ==
  ASSUME CInv, NEW s \in Steps
  PROVE  /\ at[s] \in Places /\ call[s] \in CallRecords /\ Behind(at[s], call[s])
         /\ Sound(s, at[s], step[s], log[s], photo[s])
         /\ photo = [photo EXCEPT ![s] = photo[s]] /\ step = [step EXCEPT ![s] = step[s]]
         /\ log = [log EXCEPT ![s] = log[s]] /\ call = [call EXCEPT ![s] = call[s]]
         /\ cache \in {"none", "broken", "checked"}
<1>1. Sound(s, at[s], step[s], log[s], photo[s])
  BY SoundSteps DEF CInv
<1> QED BY <1>1 DEF CInv, Types, SentAgain

\* A call that ends without a photo to remove.
LEMMA SettleKeeps ==
  ASSUME CInv, NEW s \in Steps, at[s] # "over", NEW outcome \in Results, Settle(s, outcome),
         photo' = [photo EXCEPT ![s] = FALSE], UNCHANGED job, GivesBack(s)
  PROVE  CInv'
<1>1. Settled(s, log[s] + 1) /\ cache' \in {"none", "broken", "checked"}
  BY CallSettles DEF CInv
<1>2. log[s] + 1 \in Nat
  BY DEF CInv, Types
<1> QED BY <1>1, <1>2, SettledKeeps

\* The question about a photo is over: the photo is removed first, if there is one.
LEMMA QuestionKeeps ==
  ASSUME CInv, NEW s \in Steps, at[s] \in {"queued", "sent", "pausing"}, NEW outcome \in Results,
         AfterQuestion(s, outcome), UNCHANGED <<job, photo>>, GivesBack(s)
  PROVE  CInv'
<1>0. /\ at[s] \in Places /\ call[s] \in CallRecords /\ Behind(at[s], call[s])
      /\ Sound(s, at[s], step[s], log[s], photo[s])
      /\ photo = [photo EXCEPT ![s] = photo[s]] /\ step = [step EXCEPT ![s] = step[s]]
      /\ log = [log EXCEPT ![s] = log[s]] /\ cache \in {"none", "broken", "checked"}
  BY StepFacts
<1>1. CASE /\ photo[s]
           /\ at' = [at EXCEPT ![s] = "delete queued"]
           /\ call' = [call EXCEPT ![s].outcome = outcome]
           /\ line' = [line EXCEPT ![Via(s)] = Append(RemoveFirst(@, s), s)]
           /\ UNCHANGED <<step, log, cache>>
  <2> DEFINE c == [call[s] EXCEPT !.outcome = outcome]
  <2>1. c \in CallRecords /\ Behind("delete queued", c)
    <3>1. Behind("delete queued", call[s])
      BY <1>0, <1>1, CalmElsewhere DEF Sound
    <3> QED BY <1>0, <3>1 DEF CallRecords, Behind
  <2>2. call' = [call EXCEPT ![s] = c]
    BY <1>1
  <2> HIDE DEF c
  <2>3. Sound(s, "delete queued", step[s], log[s], photo[s])
    BY <1>0, <1>1 DEF Sound
  <2>4. "delete queued" \in Places \ Flying /\ Queues(s, "delete queued")
    BY <1>1 DEF Places, Flying, Waiting, Queues
  <2>5. /\ photo' = [photo EXCEPT ![s] = photo[s]] /\ step' = [step EXCEPT ![s] = step[s]]
        /\ log' = [log EXCEPT ![s] = log[s]] /\ cache' \in {"none", "broken", "checked"}
        /\ at' = [at EXCEPT ![s] = "delete queued"]
    BY <1>0, <1>1
  <2> QED BY <2>1, <2>2, <2>3, <2>4, <2>5, MoveKeeps
<1>2. CASE ~photo[s] /\ Settle(s, outcome)
  <2>1. photo' = [photo EXCEPT ![s] = FALSE]
    BY <1>0, <1>2 DEF Sound
  <2> QED BY <1>2, <2>1, SettleKeeps
<1> QED BY <1>1, <1>2 DEF AfterQuestion, Removes

-----------------------------------------------------------------------------
(* The actions.                                                            *)

LEMMA ContentsAreResults ==
  ASSUME NEW s, NEW c \in Contents(s)
  PROVE  c \in Results
BY DEF Contents, Results, Pages

LEMMA BeginKeeps ==
  ASSUME CInv, NEW s \in Steps, Begin(s)
  PROVE  CInv'
<1>0. /\ at[s] = "idle" /\ Going(step[s], log[s]) /\ log[s] \in Nat /\ step[s].stage # "again"
      /\ photo = [photo EXCEPT ![s] = FALSE] /\ log = [log EXCEPT ![s] = log[s]]
      /\ cache \in {"none", "broken", "checked"}
  BY StepFacts DEF Begin, Sound
<1>1. /\ photo' = [photo EXCEPT ![s] = FALSE] /\ log' = [log EXCEPT ![s] = log[s]]
      /\ UNCHANGED job /\ GivesBack(s)
  BY <1>0 DEF Begin, GivesBack, Flying
<1>2. CASE \E r \in {"good", "poor"} : Finish(s, step[s], r) /\ UNCHANGED cache
  <2>1. PICK r \in {"good", "poor"} : Finish(s, step[s], r) /\ UNCHANGED cache
    BY <1>2
  <2>2. Ended([step[s] EXCEPT !.result = r], log[s])
    <3>1. step[s] \in StepRecords /\ step[s].half = 0 => step[s].counted = log[s]
      BY <1>0 DEF Going, StepRecords
    <3>2. step[s].half = 0
      BY <1>0 DEF Going
    <3> QED BY <1>0, <3>1, <3>2 DEF Ended, Going, StepRecords, Results
  <2> QED BY <1>0, <1>1, <2>1, <2>2, SettledKeeps DEF Settled
<1>3. CASE Continue(s, step[s]) /\ cache' = (IF job[s].kind = "solve" /\ cache = "broken" THEN "none" ELSE cache)
  BY <1>0, <1>1, <1>3, SettledKeeps DEF Settled
<1> QED BY <1>2, <1>3 DEF Begin

LEMMA GatewayKeeps ==
  ASSUME CInv, NEW s \in Steps, GatewayReplies(s)
  PROVE  CInv'
<1>0. /\ at[s] = "sent" /\ Via(s) = "gateway"
      /\ call[s] \in CallRecords /\ Behind(at[s], call[s])
      /\ Sound(s, at[s], step[s], log[s], photo[s])
      /\ photo = [photo EXCEPT ![s] = photo[s]] /\ step = [step EXCEPT ![s] = step[s]]
      /\ log = [log EXCEPT ![s] = log[s]] /\ cache \in {"none", "broken", "checked"}
  BY StepFacts DEF GatewayReplies
<1>1. /\ ~photo[s] /\ photo' = [photo EXCEPT ![s] = FALSE] /\ UNCHANGED <<job, photo>>
      /\ GivesBack(s)
  BY <1>0 DEF GatewayReplies, Sound, GivesBack, Release, Flying
<1>2. PICK reply \in Replies :
        \/ /\ Retried(s, reply)
           /\ at' = [at EXCEPT ![s] = "pausing"]
           /\ call' = [call EXCEPT ![s].charged = @ \cup Unjournaled(s, reply)]
           /\ UNCHANGED <<step, line, log, cache>>
        \/ reply = "answer" /\ \E c \in Contents(s) : Settle(s, c)
        \/ ~Retried(s, reply) /\ reply # "answer" /\ Settle(s, "error")
  BY DEF GatewayReplies
<1>3. CASE /\ Retried(s, reply)
           /\ at' = [at EXCEPT ![s] = "pausing"]
           /\ call' = [call EXCEPT ![s].charged = @ \cup Unjournaled(s, reply)]
           /\ UNCHANGED <<step, line, log, cache>>
  <2> DEFINE c == [call[s] EXCEPT !.charged = @ \cup Unjournaled(s, reply)]
  <2>1. call' = [call EXCEPT ![s] = c]
    BY <1>3
  <2>5. c \in CallRecords /\ Behind("pausing", c)
    <3>1. /\ call[s].tries \in Nat /\ call[s].tries < MaxRetries
          /\ reply \in {"busy", "failed", "lost", "no link"}
      BY <1>0, <1>3 DEF Retried, Repeatable, CallRecords
    <3>2. \A e \in call[s].charged :
             /\ e.reply \in {"lost", "failed"} /\ e.try < call[s].tries
             /\ e \in [try : Nat, reply : Replies]
      BY <1>0 DEF Behind, CallRecords
    <3>3. \A e \in Unjournaled(s, reply) :
             /\ e.reply \in {"lost", "failed"} /\ e.try = call[s].tries
             /\ e = [try |-> call[s].tries, reply |-> reply]
             /\ e \in [try : Nat, reply : Replies]
      <4>1. [try |-> call[s].tries, reply |-> reply] \in [try : Nat, reply : Replies]
        BY <3>1
      <4>2. \A e \in Unjournaled(s, reply) :
               MayCharge(reply) /\ e = [try |-> call[s].tries, reply |-> reply]
        BY Zenon DEF Unjournaled
      <4>3. MayCharge(reply) => reply \in {"lost", "failed"}
        BY <3>1 DEF MayCharge
      <4> QED BY <4>1, <4>2, <4>3
    <3>4. c.charged = call[s].charged \cup Unjournaled(s, reply) /\ c.tries = call[s].tries
      BY <1>0 DEF CallRecords
    <3>5. c \in CallRecords
      BY <1>0, <3>3 DEF CallRecords
    <3>6. \A d, e \in c.charged : d.try = e.try => d = e
      <4>1. \A d, e \in call[s].charged : d.try = e.try => d = e
        BY <1>0 DEF Behind
      <4>2. \A d \in call[s].charged, e \in Unjournaled(s, reply) : d.try # e.try
        <5>1. \A x, y \in Nat : x < y => x # y
          OBVIOUS
        <5> QED BY <3>1, <3>2, <3>3, <5>1
      <4>3. \A d, e \in Unjournaled(s, reply) : d = e
        BY <3>3
      <4>4. \A e \in c.charged : e \in call[s].charged \/ e \in Unjournaled(s, reply)
        BY <3>4
      <4> HIDE DEF c
      <4> QED BY <4>1, <4>2, <4>3, <4>4
    <3>7. \A e \in c.charged : e.reply \in {"lost", "failed"} /\ (e.try < c.tries \/ e.try = c.tries)
      <4>1. \A e \in c.charged : e \in call[s].charged \/ e \in Unjournaled(s, reply)
        BY <3>4
      <4> HIDE DEF c
      <4> QED BY <3>2, <3>3, <3>4, <4>1
    <3> HIDE DEF c
    <3>8. c.tries < MaxRetries /\ c.tries <= MaxRetries
      <4>1. \A n \in Nat : n < MaxRetries => n <= MaxRetries
        BY RetriesAssumption
      <4>2. c.tries = call[s].tries
        BY <3>4
      <4> QED BY <3>1, <4>1, <4>2, Zenon
    <3>9. Behind("pausing", c)
      <4>1. \A e \in c.charged :
              /\ e.reply \in {"lost", "failed"}
              /\ e.try < c.tries \/ ("pausing" = "pausing" /\ e.try = c.tries)
        BY <3>7
      <4> QED BY <3>6, <3>8, <4>1 DEF Behind
    <3> QED BY <3>5, <3>9
  <2> HIDE DEF c
  <2>2. Sound(s, "pausing", step[s], log[s], photo[s])
    BY <1>0, <1>1 DEF Sound
  <2>3. "pausing" \in Places \ Flying /\ Queues(s, "pausing")
    BY <1>0, <1>3 DEF Places, Flying, Waiting, Queues
  <2>4. /\ photo' = [photo EXCEPT ![s] = photo[s]] /\ step' = [step EXCEPT ![s] = step[s]]
        /\ log' = [log EXCEPT ![s] = log[s]] /\ cache' \in {"none", "broken", "checked"}
        /\ at' = [at EXCEPT ![s] = "pausing"]
    BY <1>0, <1>1, <1>3
  <2> QED BY <1>0, <1>1, <2>1, <2>2, <2>3, <2>4, <2>5, MoveKeeps
<1>4. CASE \E c \in Contents(s) : Settle(s, c)
  BY <1>0, <1>1, <1>4, ContentsAreResults, SettleKeeps
<1>5. CASE Settle(s, "error")
  BY <1>0, <1>1, <1>5, SettleKeeps DEF Results
<1> QED BY <1>2, <1>3, <1>4, <1>5

LEMMA WakeKeeps ==
  ASSUME CInv, NEW s \in Steps, Wake(s)
  PROVE  CInv'
<1>0. /\ at[s] = "pausing" /\ call[s] \in CallRecords /\ Behind(at[s], call[s])
      /\ Sound(s, at[s], step[s], log[s], photo[s])
      /\ photo = [photo EXCEPT ![s] = photo[s]] /\ step = [step EXCEPT ![s] = step[s]]
      /\ log = [log EXCEPT ![s] = log[s]] /\ cache \in {"none", "broken", "checked"}
  BY StepFacts DEF Wake
<1> DEFINE c == [call[s] EXCEPT !.tries = IF @ < MaxRetries THEN @ + 1 ELSE @]
<1>1. c \in CallRecords /\ Behind("queued", c)
  <2>1. c \in CallRecords /\ c.charged = call[s].charged /\ c.tries = call[s].tries + 1
    BY <1>0 DEF CallRecords, Behind
  <2>2. call[s].tries \in Nat /\ call[s].charged \subseteq [try : Nat, reply : Replies]
    BY <1>0 DEF CallRecords
  <2> HIDE DEF c
  <2> QED BY <1>0, <2>1, <2>2, RetriesAssumption DEF Behind
<1>2. call' = [call EXCEPT ![s] = c]
  BY DEF Wake
<1> HIDE DEF c
<1>3. Sound(s, "queued", step[s], log[s], photo[s])
  BY <1>0 DEF Sound
<1>4. "queued" \in Places \ Flying /\ Queues(s, "queued") /\ GivesBack(s)
  BY <1>0 DEF Wake, Places, Flying, Waiting, Queues, GivesBack
<1>5. /\ photo' = [photo EXCEPT ![s] = photo[s]] /\ step' = [step EXCEPT ![s] = step[s]]
      /\ log' = [log EXCEPT ![s] = log[s]] /\ cache' \in {"none", "broken", "checked"}
      /\ at' = [at EXCEPT ![s] = "queued"] /\ UNCHANGED job
  BY <1>0 DEF Wake
<1> QED BY <1>1, <1>2, <1>3, <1>4, <1>5, MoveKeeps

LEMMA UploadedKeeps ==
  ASSUME CInv, NEW s \in Steps, Uploaded(s)
  PROVE  CInv'
<1>0. /\ at[s] = "uploading" /\ call[s] \in CallRecords /\ Behind(at[s], call[s])
      /\ Sound(s, at[s], step[s], log[s], photo[s])
      /\ photo = [photo EXCEPT ![s] = photo[s]] /\ step = [step EXCEPT ![s] = step[s]]
      /\ log = [log EXCEPT ![s] = log[s]] /\ call = [call EXCEPT ![s] = call[s]]
      /\ cache \in {"none", "broken", "checked"}
  BY StepFacts DEF Uploaded
<1>1. GivesBack(s) /\ UNCHANGED job /\ Via(s) = "gigachat" /\ ~photo[s]
  BY <1>0 DEF Uploaded, GivesBack, Release, Flying, Sound
<1>2. CASE /\ at' = [at EXCEPT ![s] = "queued"]
           /\ photo' = [photo EXCEPT ![s] = TRUE]
           /\ line' = [line EXCEPT !["gigachat"] = Append(@, s)]
           /\ UNCHANGED <<call, step, log, cache>>
  <2>1. Sound(s, "queued", step[s], log[s], TRUE)
    BY <1>0 DEF Sound
  <2>2. "queued" \in Places \ Flying /\ Queues(s, "queued")
    BY <1>0, <1>1, <1>2 DEF Places, Flying, Waiting, Queues
  <2>3. /\ step' = [step EXCEPT ![s] = step[s]] /\ call' = [call EXCEPT ![s] = call[s]]
        /\ log' = [log EXCEPT ![s] = log[s]] /\ cache' \in {"none", "broken", "checked"}
        /\ at' = [at EXCEPT ![s] = "queued"] /\ photo' = [photo EXCEPT ![s] = TRUE]
    BY <1>0, <1>2
  <2>4. Behind("queued", call[s])
    BY <1>0, CalmElsewhere
  <2> QED BY <1>0, <1>1, <2>1, <2>2, <2>3, <2>4, MoveKeeps
<1>3. CASE Settle(s, "error") /\ UNCHANGED photo
  <2>1. photo' = [photo EXCEPT ![s] = FALSE] /\ "error" \in Results
    BY <1>0, <1>1, <1>3 DEF Results
  <2> QED BY <1>0, <1>1, <1>3, <2>1, SettleKeeps
<1> QED BY <1>2, <1>3 DEF Uploaded

LEMMA GigaChatKeeps ==
  ASSUME CInv, NEW s \in Steps, GigaChatReplies(s)
  PROVE  CInv'
<1>1. at[s] = "sent" /\ UNCHANGED <<job, photo>> /\ GivesBack(s)
  BY DEF GigaChatReplies, Release, GivesBack, Flying
<1>2. PICK outcome \in Results : AfterQuestion(s, outcome)
  <2>1. "error" \in Results
    BY DEF Results
  <2> QED BY <2>1, ContentsAreResults DEF GigaChatReplies
<1> QED BY <1>1, <1>2, QuestionKeeps

LEMMA CleanedKeeps ==
  ASSUME CInv, NEW s \in Steps, at[s] # "over", NEW outcome \in Results, Cleaned(s, outcome),
         GivesBack(s)
  PROVE  CInv'
BY SettleKeeps DEF Cleaned

LEMMA RemovalKeeps ==
  ASSUME CInv, NEW s \in Steps, Deleted(s) \/ CleanupTimesOut(s)
  PROVE  CInv'
<1>1. at[s] # "over" /\ Cleaned(s, call[s].outcome) /\ GivesBack(s)
  BY DEF Deleted, CleanupTimesOut, Release, GivesBack, Flying
<1>2. call[s].outcome \in Results
  BY StepFacts DEF CallRecords
<1> QED BY <1>1, <1>2, CleanedKeeps

LEMMA CancelKeeps ==
  ASSUME CInv, NEW s \in Steps, Cancel(s)
  PROVE  CInv'
<1>1. at[s] # "over" /\ GivesBack(s) /\ "cancelled" \in Results
  BY DEF Cancel, SlotAfterCancel, Release, GivesBack, Results
<1>2. CASE /\ at[s] \in {"queued", "sent", "pausing"}
           /\ AfterQuestion(s, "cancelled") /\ UNCHANGED <<job, photo>>
  BY <1>1, <1>2, QuestionKeeps
<1>3. CASE Cleaned(s, "cancelled")
  BY <1>1, <1>3, CleanedKeeps
<1> QED BY <1>2, <1>3 DEF Cancel

\* The first step in the line of provider q takes a free slot.
LEMMA GrantKeeps ==
  ASSUME CInv, NEW q \in Providers, Grant(q)
  PROVE  CInv'
<1> DEFINE s == Head(line[q])
           w == Takeoff[at[s]]
<1>1. line[q] \in Seq(Steps) /\ line[q] # <<>> /\ Once(line[q])
  BY DEF CInv, Types, Lines, Grant
<1>2. s = line[q][1] /\ 1 \in 1..Len(line[q])
  BY <1>1
<1>3. s \in Steps /\ Via(s) = q /\ at[s] \in Waiting
  BY <1>1, <1>2 DEF CInv, Lines
<1>4. /\ w \in Flying
      /\ at[s] = "queued" => w = "sent"
      /\ at[s] = "upload queued" => w = "uploading"
      /\ at[s] = "delete queued" => w = "deleting"
  BY <1>3 DEF Takeoff, Waiting, Flying
<1>5. at \in [Steps -> Places] /\ free \in [Providers -> Nat] /\ line \in [Providers -> Seq(Steps)]
  BY DEF CInv, Types
<1>6. /\ at' = [at EXCEPT ![s] = w] /\ free[q] > 0
      /\ free' = [free EXCEPT ![q] = @ - 1] /\ line' = [line EXCEPT ![q] = Tail(@)]
      /\ UNCHANGED <<job, call, step, photo, log, cache>>
  BY DEF Grant
<1> HIDE DEF s, w
<1>7. \A t \in Steps : at'[t] = IF t = s THEN w ELSE at[t]
  BY <1>5, <1>6
<1>8. /\ line' \in [Providers -> Seq(Steps)]
      /\ line'[q] = Tail(line[q]) /\ \A p \in Providers \ {q} : line'[p] = line[p]
  BY <1>1, <1>5, <1>6
<1>9. /\ free' \in [Providers -> Nat]
      /\ free'[q] = free[q] - 1 /\ \A p \in Providers \ {q} : free'[p] = free[p]
  BY <1>5, <1>6
<1>10. \A t : Via(t)' = Via(t)
  BY <1>6 DEF Via
<1>11. Lines'
  <2>1. ASSUME NEW p \in Providers \ {q}
        PROVE  LineOf(p, line'[p], at')
    <3>1. LineOf(p, line[p], at)
      BY <1>5 DEF CInv, Lines, LineOf
    <3>2. \A i \in 1..Len(line[p]) : line[p][i] \in Steps \ {s}
      BY <1>3, <3>1 DEF LineOf
    <3> QED BY <1>7, <1>8, <3>1, <3>2 DEF LineOf
  <2>2. LineOf(q, line'[q], at')
    <3>1. LineOf(q, line[q], at)
      BY <1>5 DEF CInv, Lines, LineOf
    <3>2. /\ Tail(line[q]) \in Seq(Steps) /\ Len(Tail(line[q])) = Len(line[q]) - 1
          /\ \A i \in 1..(Len(line[q]) - 1) : Tail(line[q])[i] = line[q][i + 1]
      BY <1>1
    <3>3. \A i, j \in 1..Len(line[q]) : line[q][i] = line[q][j] => i = j
      BY <1>1 DEF Once
    <3>4. Once(Tail(line[q]))
      BY <1>1, <3>2, <3>3 DEF Once
    <3>5. \A i \in 1..Len(Tail(line[q])) :
             /\ Tail(line[q])[i] \in Steps /\ Tail(line[q])[i] # s
             /\ Via(Tail(line[q])[i]) = q /\ at[Tail(line[q])[i]] \in Waiting
      BY <1>1, <1>2, <3>1, <3>2, <3>3 DEF LineOf
    <3> QED BY <1>7, <1>8, <3>2, <3>4, <3>5 DEF LineOf
  <2> QED BY <1>10, <2>1, <2>2 DEF Lines, LineOf
<1>12. SlotsAreRequests'
  <2>1. ASSUME NEW p \in Providers
        PROVE  Balance(p, free', at')
    <3>0. Balance(p, free, at)
      BY BalanceMeaning DEF CInv
    <3>1. CASE p = q
      <4>1. Holders(p, at') = Holders(p, at) \cup {s} /\ s \notin Holders(p, at)
        BY <1>3, <1>4, <1>7, <3>1 DEF Holders, Waiting, Flying
      <4>2. Cardinality(Holders(p, at')) = Cardinality(Holders(p, at)) + 1
        BY <4>1, HoldersFinite, FS_AddElement
      <4> QED BY <1>5, <1>9, <3>0, <3>1, <4>2, HoldersFinite DEF Balance
    <3>2. CASE p # q
      <4>1. Holders(p, at') = Holders(p, at)
        BY <1>3, <1>7, <3>2 DEF Holders
      <4> QED BY <1>9, <3>0, <3>2, <4>1 DEF Balance
    <3> QED BY <3>1, <3>2
  <2> QED BY <1>6, <2>1, BalanceMeaning
<1>13. Types'
  <2>1. at' \in [Steps -> Places]
    BY <1>4, <1>5, <1>6 DEF Places
  <2> QED BY <1>6, <1>8, <1>9, <2>1 DEF CInv, Types
<1>14. ASSUME NEW t \in Steps
       PROVE  Sound(t, at'[t], step[t], log[t], photo[t])
  <2>1. Sound(t, at[t], step[t], log[t], photo[t])
    BY SoundSteps DEF CInv
  <2>2. CASE t = s
    <3>1. at[t] \in {"queued", "upload queued", "delete queued"} /\ at'[t] = w
      BY <1>3, <1>7, <2>2 DEF Waiting
    <3> QED BY <1>4, <2>1, <2>2, <3>1 DEF Sound
  <2>3. CASE t # s
    BY <1>7, <2>1, <2>3
  <2> QED BY <2>2, <2>3
<1>15. Books' /\ PhotosOnTheWay'
  BY <1>6, <1>10, <1>14 DEF Books, PhotosOnTheWay, Sound
<1>16. SentAgain'
  <2>1. ASSUME NEW t \in Steps
        PROVE  Behind(at'[t], call[t])
    <3>1. Behind(at[t], call[t])
      BY DEF CInv, SentAgain
    <3>2. at'[t] = at[t] \/ (at'[t] # "pausing" /\ at[t] # "pausing")
      BY <1>3, <1>4, <1>7 DEF Waiting, Flying
    <3> QED BY <3>1, <3>2 DEF Behind
  <2> QED BY <1>6, <2>1 DEF SentAgain
<1> QED BY <1>11, <1>12, <1>13, <1>15, <1>16 DEF CInv

-----------------------------------------------------------------------------
(* The theorems.                                                           *)

LEMMA InitHolds ==
  ASSUME Init
  PROVE  CInv
<1>1. ASSUME NEW k
      PROVE  /\ NewStep(k) \in StepRecords /\ Going(NewStep(k), 0)
             /\ NewStep(k).stage # "again"
  BY DEF NewStep, StepRecords, Going, Results
<1>2. job \in [Steps -> Jobs] /\ at = [s \in Steps |-> "idle"]
  BY DEF Init
<1>3. Types
  BY <1>1, SlotsAssumption DEF Init, Types, Places, NoCall, CallRecords, Results
<1>4. Lines
  BY DEF Init, Lines, Once
<1>5. SlotsAreRequests
  <2>1. ASSUME NEW q \in Providers
        PROVE  Balance(q, free, at)
    <3>1. Holders(q, at) = {}
      BY <1>2 DEF Holders, Flying
    <3>2. free[q] = Slots[q] /\ Slots[q] \in Nat
      BY SlotsAssumption DEF Init
    <3> QED BY <3>1, <3>2, FS_EmptySet DEF Balance
  <2> QED BY <2>1, BalanceMeaning
<1>6. SentAgain
  BY RetriesAssumption DEF Init, SentAgain, Behind, NoCall
<1>7. Books
  BY <1>1, <1>2 DEF Init, Books
<1>8. PhotosOnTheWay
  BY DEF Init, PhotosOnTheWay
<1> QED BY <1>3, <1>4, <1>5, <1>6, <1>7, <1>8 DEF CInv

LEMMA NextKeeps ==
  ASSUME CInv, [Next]_vars
  PROVE  CInv'
<1>1. CASE UNCHANGED vars
  <2>1. \A t : Via(t)' = Via(t)
    BY <1>1 DEF vars, Via
  <2>2. UNCHANGED <<job, at, call, step, free, line, photo, log, cache>>
    BY <1>1 DEF vars
  <2>3. Types' /\ SentAgain' /\ Lines'
    BY <2>1, <2>2 DEF CInv, Types, Lines, SentAgain
  <2>4. Books' /\ PhotosOnTheWay'
    BY <2>1, <2>2 DEF CInv, Books, PhotosOnTheWay
  <2>5. SlotsAreRequests'
    BY <2>2, BalanceMeaning DEF CInv
  <2> QED BY <2>3, <2>4, <2>5 DEF CInv
<1>2. ASSUME NEW s \in Steps,
             \/ Begin(s) \/ GatewayReplies(s) \/ Wake(s) \/ Uploaded(s) \/ GigaChatReplies(s)
             \/ Deleted(s) \/ CleanupTimesOut(s) \/ Cancel(s)
      PROVE  CInv'
  BY <1>2, BeginKeeps, GatewayKeeps, WakeKeeps, UploadedKeeps, GigaChatKeeps, RemovalKeeps,
     CancelKeeps
<1>3. CASE \E q \in Providers : Grant(q)
  BY <1>3, GrantKeeps
<1> QED BY <1>1, <1>2, <1>3 DEF Next, Done

\* In every state of every behaviour: the lines, the slots, the books and the photos are as CInv
\* says.
THEOREM CallsInvariant == Spec => []CInv
<1>1. Init => CInv
  BY InitHolds
<1>2. CInv /\ [Next]_vars => CInv'
  BY NextKeeps
<1> QED BY <1>1, <1>2, PTL DEF Spec

\* The semaphore of a provider, the journal and the expense a step reports agree whatever the
\* replies, retries, timeouts and cancellations: no slot is lost or given back twice, no answer is
\* left out of the expense, and of a call's requests only those that a lost connection or a failure
\* of the gateway ended, one for each retry at most, may have been paid without an entry of their
\* own: one that timed out or was answered is not sent again.
THEOREM CallsBalance == Spec => []CallsAccounted
<1>1. CInv => CallsAccounted
  <2>1. CInv => TypeOK
    BY DEF CInv, Types, TypeOK, Places
  <2>2. CInv => ExpenseIsWhole
    BY DEF CInv, Books, Ended, ExpenseIsWhole, Over
  <2>3. CInv => HiddenChargesBounded
    <3>1. ASSUME CInv, NEW s \in Steps, NEW c \in call[s].charged, NEW d \in call[s].charged
          PROVE  c.reply \in {"lost", "failed"} /\ c.try < MaxRetries /\ (c.try = d.try => c = d)
      <4>1. Behind(at[s], call[s]) /\ call[s].tries \in Nat /\ c.try \in Nat
        BY <3>1 DEF CInv, SentAgain, Types, CallRecords
      <4> QED BY <4>1, RetriesAssumption DEF Behind
    <3> QED BY <3>1 DEF HiddenChargesBounded
  <2> QED BY <2>1, <2>2, <2>3 DEF CInv, CallsAccounted
<1> QED BY <1>1, CallsInvariant, PTL

\* A photo uploaded to GigaChat is there only while its question is asked or its removal is tried
\* (the finally of analyze_image).
THEOREM PhotosAreRemoved == Spec => []NoPhotoForgotten
<1>1. CInv => NoPhotoForgotten
  BY DEF CInv, PhotosOnTheWay, NoPhotoForgotten
<1> QED BY <1>1, CallsInvariant, PTL

\* Recognition never ends with a page without tasks when it has read one with tasks, and the
\* solver never keeps a solution its validator refused.
THEOREM BestPageWins == Spec => []BestOfWhatWasRead
<1>1. CInv => BestOfWhatWasRead
  BY DEF CInv, Types, Books, Ended, Going, BestOfWhatWasRead
<1> QED BY <1>1, CallsInvariant, PTL
=============================================================================
