--------------------------- MODULE HomeworkProofs ---------------------------
(***************************************************************************)
(* Proofs about what is done with a homework: the tutor, the album and the *)
(* verdict on a page of mathematics.                                       *)
(*                                                                         *)
(* The tutor: Tutored adds to its properties the count of the replies,     *)
(* which the level, the actions found and the end make up (Counts).        *)
(*                                                                         *)
(* The album: AlbumInv says of a chat with homework in one subject that    *)
(* what it remembers is of the homework of now for as long as it may be    *)
(* used (OnlyMath, OnlyWords).  It rests on what the algorithms on pages   *)
(* do with the homework a condition or a task is of: nothing that is       *)
(* merged, joined or chosen among the pages of an album comes out with     *)
(* another one than it went in with (TextbookIn, NotebookIn, AttachedIn,   *)
(* CheckedIn, ExercisesIn).  Where conditions and answers go (InPlace):    *)
(* the rule that gives a condition to a task asks what was given to better *)
(* pairs, so it says something only because pairs can be settled by how    *)
(* many are better (BetterIsOrder, GivenExists); then of two pairs that    *)
(* are given one came first (ChosenApart).  A page with an answer alone is *)
(* joined only to the one task it can be the end of (AttachedOwned).       *)
(*                                                                         *)
(* The verdict: what holds of it holds of any page (GState), so the work   *)
(* is in the lines. A column is found by a search down the page, so an     *)
(* induction says what the search takes (Picked): nothing that overlaps    *)
(* (TakenApart). Whatever stands in the way of a clear column begins       *)
(* inside another one, so the first clear column that is missed can not be *)
(* (ClearIsTaken); hence what is taken on a page where columns stand out   *)
(* is the child's (TakenAreOwn). Four more inductions say what reaches     *)
(* line n from those above it: the value that a line which starts with "=" *)
(* goes on from (TailIs), and the open chain of an equation, which has its *)
(* equation and its variable above it and the root of its last line        *)
(* (ChainBegan, ChainVariable, ChainRoot). So the check of a line says     *)
(* what the child wrote there, before the condition is looked at           *)
(* (ArithmeticIs, AlgebraIs, ColumnIs, OthersAre) and after it             *)
(* (LineJudged); the rest is the three grades.                             *)
(***************************************************************************)
EXTENDS MCHomework, FiniteSetTheorems, SequenceTheorems, WellFoundedInduction, NaturalsInduction, TLAPS

-----------------------------------------------------------------------------
(* The tutor.                                                              *)

\* Every message of a dialogue about mathematics raises the level, names a new right action or ends
\* it, so the replies are counted by the level and by what the child has found.
Ends == IF resolved \/ closed THEN 1 ELSE 0
Counts ==
    /\ known \cap T!Target = {}
    /\ T!Math => replies = level + Cardinality(known) + Ends
    /\ replies >= level
    /\ shown <=> level = T!MaxHintLevel
    /\ closed => T!Math /\ ~resolved /\ level = T!MaxHintLevel

Tutored == T!TypeOK /\ T!NothingToldEarly /\ T!PraiseIsEarned /\ Counts

USE DEF T!MaxHintLevel

LEMMA ActionsAreFew ==
    /\ T!Actions \subseteq {"step", "line"} /\ IsFiniteSet(T!Actions)
    /\ \A S \in SUBSET T!Actions : IsFiniteSet(S) /\ Cardinality(S) \in Nat
<1>1. T!Actions \subseteq {"step", "line"}
  BY DEF T!Actions
<1>2. IsFiniteSet({"step", "line"})
  <2>1. IsFiniteSet({}) /\ {"step", "line"} = ({} \cup {"step"}) \cup {"line"}
    BY FS_EmptySet
  <2>2. IsFiniteSet({} \cup {"step"})
    BY <2>1, FS_AddElement
  <2>3. IsFiniteSet(({} \cup {"step"}) \cup {"line"})
    BY <2>2, FS_AddElement
  <2> QED BY <2>1, <2>3
<1> QED BY <1>1, <1>2, FS_Subset, FS_CardinalityType

LEMMA TutoredInit == ASSUME T!Init PROVE Tutored
<1>1. known = {} /\ Cardinality({}) = 0
  BY FS_EmptySet DEF T!Init
<1>2. T!TypeOK
  <2>1. level \in 0..3 /\ replies \in Nat
    BY DEF T!Init
  <2>2. resolved \in BOOLEAN /\ closed \in BOOLEAN /\ shown \in BOOLEAN
    BY DEF T!Init
  <2>3. topic \in T!Tasks /\ known \subseteq T!Actions /\ early \subseteq T!Numbers \cup T!Hints
    BY DEF T!Init
  <2> QED BY <2>1, <2>2, <2>3 DEF T!TypeOK
<1>3. T!NothingToldEarly /\ T!PraiseIsEarned
  BY DEF T!Init, T!NothingToldEarly, T!PraiseIsEarned
<1>4. Counts
  BY <1>1 DEF T!Init, Counts, Ends
<1> QED BY <1>2, <1>3, <1>4 DEF Tutored

\* What the guard lets through below the last level says no secret, and praises only an action.
LEMMA GuardedIsSafe ==
    ASSUME NEW first \in T!Outcomes, NEW second \in T!Outcomes, NEW m, NEW secrets, NEW l,
           NEW r, r = T!Guarded(first, second, m, secrets, l)
    PROVE  /\ r \in T!Texts \cup {T!Safe}
           /\ l < 3 => r.says \cap secrets = {}
           /\ T!Math /\ r.praise => T!ActionStep(m)
<1>1. CASE r = T!Safe
  BY <1>1 DEF T!Safe
<1>2. CASE r \in T!Texts /\ ~T!Violates(r, m, secrets, l)
  BY <1>2 DEF T!Violates, T!Leaks, T!FalsePraise
<1>3. r = T!Safe \/ (r \in T!Texts /\ ~T!Violates(r, m, secrets, l))
  BY DEF T!Guarded, T!Outcomes
<1> QED BY <1>1, <1>2, <1>3

LEMMA SolveStep ==
    ASSUME Tutored, T!TutorReply, NEW m \in T!Messages, T!Solve(m)
    PROVE  Tutored'
<1>1. /\ ~resolved /\ ~closed /\ topic' = topic /\ replies' = replies + 1 /\ resolved'
      /\ UNCHANGED <<level, known, closed, shown, early>> /\ reply'.earned
  BY DEF T!TutorReply, T!Solve, T!Said
<1>2. T!TypeOK'
  BY <1>1 DEF Tutored, T!TypeOK, T!Actions
<1>3. T!NothingToldEarly' /\ T!PraiseIsEarned'
  BY <1>1 DEF Tutored, T!NothingToldEarly, T!PraiseIsEarned, T!Math, T!Actions
<1>4. Counts'
  <2>1. Cardinality(known) \in Nat /\ level \in Nat /\ replies \in Nat
    BY ActionsAreFew DEF Tutored, T!TypeOK
  <2>2. T!Target' = T!Target /\ (T!Math' <=> T!Math)
    BY <1>1 DEF T!Target, T!Math
  <2> QED BY <1>1, <2>1, <2>2 DEF Tutored, Counts, Ends
<1> QED BY <1>2, <1>3, <1>4 DEF Tutored

LEMMA CloseStep ==
    ASSUME Tutored, T!TutorReply, NEW m \in T!Messages, T!Close(m)
    PROVE  Tutored'
<1>1. /\ ~resolved /\ ~closed /\ topic' = topic /\ replies' = replies + 1 /\ closed'
      /\ T!Math /\ level >= 3
      /\ UNCHANGED <<level, known, resolved, shown, early>> /\ ~reply'.praise
  BY DEF T!TutorReply, T!Close, T!Closes, T!Said, T!Safe
<1>2. T!TypeOK'
  BY <1>1 DEF Tutored, T!TypeOK, T!Actions
<1>3. T!NothingToldEarly' /\ T!PraiseIsEarned'
  BY <1>1 DEF Tutored, T!NothingToldEarly, T!PraiseIsEarned, T!Math, T!Actions
<1>4. Counts'
  <2>1. Cardinality(known) \in Nat /\ level \in 0..3 /\ replies \in Nat
    BY ActionsAreFew DEF Tutored, T!TypeOK
  <2>2. T!Target' = T!Target /\ (T!Math' <=> T!Math)
    BY <1>1 DEF T!Target, T!Math
  <2> QED BY <1>1, <2>1, <2>2 DEF Tutored, Counts, Ends
<1> QED BY <1>2, <1>3, <1>4 DEF Tutored

LEMMA HintStep ==
    ASSUME Tutored, T!TutorReply, NEW m \in T!Messages, T!Hint(m)
    PROVE  Tutored'
<1> DEFINE step == T!ActionStep(m)
           l == IF step \/ level = 3 THEN level ELSE level + 1
<1>1. /\ ~resolved /\ ~closed /\ topic' = topic /\ replies' = replies + 1
      /\ m \notin T!Target /\ (T!Math /\ ~step => level < 3) /\ level' = l
      /\ known' = (IF step THEN known \cup {m} ELSE known) /\ shown' = (shown \/ l = 3)
      /\ UNCHANGED <<resolved, closed>>
  BY DEF T!TutorReply, T!Hint, T!Solves
<1>2. PICK r : /\ r \in T!Texts \cup {T!Safe}
               /\ l < 3 => r.says \cap T!Secrets' = {}
               /\ T!Math /\ r.praise => step
               /\ reply' = [praise |-> r.praise, earned |-> step]
               /\ early' = IF l < 3 THEN early \cup r.says ELSE early
  <2>1. PICK first \in T!Outcomes, second \in T!Outcomes :
           /\ T!Said(T!Guarded(first, second, m, T!Secrets', l), step)
           /\ early' = IF l < 3 THEN early \cup T!Guarded(first, second, m, T!Secrets', l).says ELSE early
    BY DEF T!Hint
  <2> HIDE DEF l
  <2>2. PICK r : r = T!Guarded(first, second, m, T!Secrets', l)
    OBVIOUS
  <2>3. /\ r \in T!Texts \cup {T!Safe} /\ (l < 3 => r.says \cap T!Secrets' = {})
        /\ T!Math /\ r.praise => step
    BY <2>2, GuardedIsSafe
  <2> HIDE DEF step
  <2> QED BY <2>1, <2>2, <2>3 DEF T!Said
<1>3. step => T!Math /\ m \in T!Actions /\ m \notin known
  BY DEF T!ActionStep
<1>4. /\ (T!Math' <=> T!Math) /\ T!Actions' = T!Actions /\ T!Target' = T!Target
      /\ level \in 0..3 /\ replies \in Nat /\ l \in 0..3
  BY <1>1 DEF T!Math, T!Actions, T!Target, Tutored, T!TypeOK
<1>5. r.says \subseteq T!Numbers \cup T!Hints
  BY <1>2 DEF T!Texts, T!Safe
<1> HIDE DEF step, l
<1>6. T!TypeOK'
  <2>1. known' \subseteq T!Actions' /\ early' \subseteq T!Numbers \cup T!Hints
    BY <1>1, <1>2, <1>3, <1>4, <1>5 DEF Tutored, T!TypeOK
  <2>2. topic' \in T!Tasks' /\ resolved' \in BOOLEAN /\ closed' \in BOOLEAN
    BY <1>1 DEF Tutored, T!TypeOK, T!Tasks
  <2>3. shown' \in BOOLEAN /\ level' \in 0..3 /\ replies' \in Nat
    BY <1>1, <1>4 DEF Tutored, T!TypeOK
  <2> QED BY <2>1, <2>2, <2>3 DEF T!TypeOK
<1>7. T!NothingToldEarly'
  <2>1. early \cap T!Secrets = {}
    BY DEF Tutored, T!NothingToldEarly, T!Secrets
  <2>2. T!Secrets' \subseteq T!Secrets
    <3>1. known \subseteq known'
      BY <1>1
    <3> QED BY <1>1, <1>4, <3>1 DEF T!Secrets
  <2>3. early' \cap T!Secrets' = {}
    BY <1>2, <2>1, <2>2
  <2> QED BY <2>3 DEF T!NothingToldEarly, T!Secrets
<1>8. T!PraiseIsEarned'
  BY <1>2, <1>4 DEF T!PraiseIsEarned
<1>9. Counts'
  <2>1. Cardinality(known) \in Nat /\ IsFiniteSet(known)
    BY ActionsAreFew DEF Tutored, T!TypeOK
  <2>2. Ends' = 0 /\ Ends = 0
    BY <1>1 DEF Ends
  <2>3. CASE step
    <3>1. Cardinality(known') = Cardinality(known) + 1
      BY <1>1, <1>3, <2>1, <2>3, FS_AddElement
    <3>2. level' = level
      BY <1>1, <2>3 DEF l
    <3>3. known' \cap T!Target' = {}
      BY <1>1, <1>4, <2>3 DEF Tutored, Counts
    <3>4. shown' <=> level' = 3
      BY <1>1, <3>2 DEF Tutored, Counts
    <3> QED BY <1>1, <1>4, <2>1, <2>2, <3>1, <3>2, <3>3, <3>4 DEF Tutored, Counts
  <2>4. CASE ~step
    <3>1. known' = known /\ level' = IF level = 3 THEN 3 ELSE level + 1
      BY <1>1, <2>4 DEF l
    <3>2. shown' <=> level' = 3
      BY <1>1, <1>4, <3>1 DEF Tutored, Counts
    <3> QED BY <1>1, <1>4, <2>1, <2>2, <2>4, <3>1, <3>2 DEF Tutored, Counts
  <2> QED BY <2>3, <2>4
<1> QED BY <1>6, <1>7, <1>8, <1>9 DEF Tutored

LEMMA TutoredStep == ASSUME Tutored, T!Next PROVE Tutored'
<1>1. PICK m \in T!Messages : T!Solve(m) \/ T!Hint(m) \/ T!Close(m)
  BY DEF T!Next, T!TutorReply
<1> QED BY <1>1, SolveStep, HintStep, CloseStep DEF T!Next

LEMMA TutoredStays ==
    ASSUME Tutored, UNCHANGED tvars
    PROVE  Tutored'
BY DEF Tutored, tvars, T!TypeOK, T!NothingToldEarly, T!PraiseIsEarned, Counts, Ends, T!Math, T!Actions, T!Target

TutorInv == part = "tutoring" => Tutored

LEMMA TutorInvariant == HSpec => []TutorInv
<1>1. HInit => TutorInv
  BY TutoredInit DEF HInit, TutorInv
<1>2. TutorInv /\ [HNext]_hvars => TutorInv'
  <2> SUFFICES ASSUME TutorInv, [HNext]_hvars, part' = "tutoring"
               PROVE  Tutored'
    BY DEF TutorInv
  <2>1. part = "tutoring" /\ Tutored /\ (T!Next \/ UNCHANGED tvars)
    BY DEF HNext, hvars, TutorInv
  <2> QED BY <2>1, TutoredStep, TutoredStays
<1> QED BY <1>1, <1>2, PTL DEF HSpec

\* Before the last level of hints the tutor has not given the solution away, and it praises only
\* what the child has earned, whatever the model writes.
THEOREM TutorIsSafe == HSpec => []RepliesAreSafe
<1>1. TutorInv => RepliesAreSafe
  BY DEF TutorInv, Tutored, RepliesAreSafe
<1> QED BY <1>1, TutorInvariant, PTL

\* A dialogue about mathematics has at most four replies more than the child has actions to find, and
\* the code names the answer only after a reply that could show the solution.
THEOREM TutorEnds == HSpec => []EndsAfterShowing
<1>1. TutorInv => EndsAfterShowing
  <2> SUFFICES ASSUME Tutored PROVE T!EndsAfterShowing
    BY DEF TutorInv, EndsAfterShowing
  <2>1. /\ known \subseteq T!Actions \ T!Target /\ IsFiniteSet(T!Actions \ T!Target)
        /\ Cardinality(T!Actions \ T!Target) \in Nat
    BY ActionsAreFew DEF Tutored, T!TypeOK, Counts
  <2>2. Cardinality(known) \in Nat /\ Cardinality(known) <= Cardinality(T!Actions \ T!Target)
    BY <2>1, FS_Subset, FS_CardinalityType
  <2>3. level \in 0..3 /\ replies \in Nat
    BY DEF Tutored, T!TypeOK
  <2>4. Ends \in {0, 1} /\ (T!Math => replies = level + Cardinality(known) + Ends)
    BY DEF Tutored, Counts, Ends
  <2>5. T!Math => replies <= 3 + 1 + Cardinality(T!Actions \ T!Target)
    BY <2>1, <2>2, <2>3, <2>4
  <2>6. closed => shown /\ ~resolved /\ replies > 3
    <3> SUFFICES ASSUME closed PROVE shown /\ ~resolved /\ replies > 3
      OBVIOUS
    <3>1. T!Math /\ ~resolved /\ level = 3 /\ shown /\ Ends = 1
      BY DEF Tutored, Counts, Ends
    <3> QED BY <2>2, <2>3, <2>4, <3>1
  <2>7. T!Cardinality(T!Actions \ T!Target) = Cardinality(T!Actions \ T!Target)
    BY DEF T!Cardinality, Cardinality
  <2> QED BY <2>5, <2>6, <2>7 DEF T!EndsAfterShowing
<1> QED BY <1>1, TutorInvariant, PTL

-----------------------------------------------------------------------------
(* Recursive functions: there is one, and what its steps keep holds of all its values.             *)

LEMMA LeastNumber ==
    ASSUME NEW S, S \subseteq Nat, S # {}
    PROVE  \E n \in S : \A m \in S : n <= m
<1> DEFINE R == OpToRel(<, Nat)
<1>1. IsWellFoundedOn(R, Nat)
  BY NatLessThanWellFounded
<1> HIDE DEF R
<1>2. PICK n \in S : \A m \in S : ~(<<m, n>> \in R)
  BY <1>1, WFMin
<1>3. ASSUME NEW m \in S PROVE n <= m
  <2>1. m \in Nat /\ n \in Nat /\ <<m, n>> \notin R
    BY <1>2
  <2>2. ~(m < n)
    BY <2>1 DEF R, OpToRel
  <2> QED BY <2>1, <2>2
<1> QED BY <1>3

LEMMA AllValues ==
    ASSUME NEW low \in Nat, NEW high \in Nat, NEW g, NEW S, g[low] \in S,
           \A n \in (low + 1)..high : g[n - 1] \in S => g[n] \in S
    PROVE  \A n \in low..high : g[n] \in S
<1> DEFINE Bad == {n \in low..high : g[n] \notin S}
<1> SUFFICES ASSUME Bad # {} PROVE FALSE
  OBVIOUS
<1>1. PICK n \in Bad : \A m \in Bad : n <= m
  <2>1. Bad \subseteq Nat
    OBVIOUS
  <2> HIDE DEF Bad
  <2> QED BY <2>1, LeastNumber
<1>2. n \in low..high /\ g[n] \notin S /\ n # low
  OBVIOUS
<1>3. n - 1 \in low..high /\ ~(n <= n - 1) /\ n \in (low + 1)..high
  BY <1>2
<1>4. n - 1 \notin Bad
  BY <1>1, <1>3
<1> QED BY <1>2, <1>3, <1>4

\* g starts with `base`, and each value is made by `step` of the one before.
Follows(g, low, high, base, step) ==
    /\ g = [n \in low..high |-> g[n]] /\ g[low] = base
    /\ \A n \in (low + 1)..high : g[n] = step[<<n, g[n - 1]>>]

LEMMA FollowsExists ==
    ASSUME NEW low \in Nat, NEW high \in Nat, low <= high, NEW base, NEW step
    PROVE  \E g : Follows(g, low, high, base, step)
<1> DEFINE Bad == {k \in low..high : ~\E g : Follows(g, low, k, base, step)}
<1> SUFFICES ASSUME Bad # {} PROVE FALSE
  OBVIOUS
<1>1. PICK k \in Bad : \A m \in Bad : k <= m
  <2>1. Bad \subseteq Nat
    OBVIOUS
  <2> HIDE DEF Bad
  <2> QED BY <2>1, LeastNumber
<1>2. k \in low..high /\ ~\E g : Follows(g, low, k, base, step)
  OBVIOUS
<1>3. CASE k = low
  <2> DEFINE g == [n \in low..k |-> base]
  <2>1. g = [n \in low..k |-> g[n]] /\ g[low] = base /\ (low + 1)..k = {}
    BY <1>3
  <2> HIDE DEF g
  <2> QED BY <1>2, <2>1 DEF Follows
<1>4. CASE k # low
  <2>1. k - 1 \in low..high /\ ~(k <= k - 1)
    BY <1>2, <1>4
  <2>2. k - 1 \notin Bad
    BY <1>1, <2>1
  <2>3. PICK f : Follows(f, low, k - 1, base, step)
    BY <2>1, <2>2
  <2> DEFINE g == [n \in low..k |-> IF n = k THEN step[<<k, f[k - 1]>>] ELSE f[n]]
  <2>4. g = [n \in low..k |-> g[n]]
    OBVIOUS
  <2>5. g[low] = base
    BY <1>2, <1>4, <2>3 DEF Follows
  <2>6. ASSUME NEW n \in (low + 1)..k PROVE g[n] = step[<<n, g[n - 1]>>]
    <3>1. n \in low..k /\ n - 1 \in low..k /\ n - 1 # k
      BY <1>2
    <3>2. g[n - 1] = f[n - 1]
      BY <3>1
    <3>3. CASE n = k
      BY <3>1, <3>2, <3>3
    <3>4. CASE n # k
      <4>1. n \in (low + 1)..(k - 1)
        BY <1>2, <3>4
      <4>2. f[n] = step[<<n, f[n - 1]>>]
        BY <2>3, <4>1 DEF Follows
      <4> QED BY <3>1, <3>2, <3>4, <4>2
    <3> QED BY <3>3, <3>4
  <2> HIDE DEF g
  <2> QED BY <1>2, <2>4, <2>5, <2>6 DEF Follows
<1> QED BY <1>3, <1>4

LEMMA RecursionExists ==
    ASSUME NEW low \in Nat, NEW high \in Nat, low <= high, NEW S, NEW base \in S, NEW step,
           \A n \in (low + 1)..high, x \in S : step[<<n, x>>] \in S
    PROVE  \E g : Follows(g, low, high, base, step) /\ \A n \in low..high : g[n] \in S
<1>1. PICK g : Follows(g, low, high, base, step)
  BY FollowsExists
<1>2. g[low] \in S /\ \A n \in (low + 1)..high : g[n - 1] \in S => g[n] \in S
  BY <1>1 DEF Follows
<1>3. \A n \in low..high : g[n] \in S
  BY <1>2, AllValues
<1> QED BY <1>1, <1>3

-----------------------------------------------------------------------------
(* The conditions of a textbook: merging a page into them keeps them those of one homework.        *)

\* Those of the homeworks in H.
ConditionsOf(H) == [of : H \X Nat, number : Nat, written : BOOLEAN, nums : Numbers]

LEMMA InsertIn ==
    ASSUME NEW C, NEW old \in Seq(C), NEW c \in C
    PROVE  Insert(old, c) \in Seq(C)
<1> DEFINE earlier == {i \in DOMAIN old : ~After(old[i], c)}
           before == Cardinality(earlier)
<1>1. Len(old) \in Nat /\ DOMAIN old = 1..Len(old)
  BY LenProperties
<1>2. before \in Nat /\ before <= Len(old)
  <2>1. IsFiniteSet(1..Len(old)) /\ Cardinality(1..Len(old)) = Len(old)
    BY <1>1, FS_Interval, SMTT(60)
  <2>2. earlier \subseteq 1..Len(old)
    BY <1>1
  <2> HIDE DEF earlier
  <2> QED BY <2>1, <2>2, FS_Subset, FS_CardinalityType
<1> HIDE DEF before
<1>3. SubSeq(old, 1, before) \in Seq(C)
  <2>1. \A i \in 1..before : old[i] \in C
    BY <1>1, <1>2, ElementOfSeq
  <2> QED BY <1>2, <2>1, SubSeqProperties
<1>4. SubSeq(old, before + 1, Len(old)) \in Seq(C)
  <2>1. \A i \in (before + 1)..Len(old) : old[i] \in C
    BY <1>1, <1>2, ElementOfSeq
  <2> QED BY <1>1, <1>2, <2>1, SubSeqProperties
<1>5. <<c>> \in Seq(C)
  OBVIOUS
<1>6. SubSeq(old, 1, before) \o <<c>> \in Seq(C)
  BY <1>3, <1>5, ConcatProperties
<1>7. (SubSeq(old, 1, before) \o <<c>>) \o SubSeq(old, before + 1, Len(old)) \in Seq(C)
  BY <1>4, <1>6, ConcatProperties
<1> QED BY <1>7 DEF Insert, before

LEMMA MergeIn ==
    ASSUME NEW C, NEW old \in Seq(C), NEW c \in C
    PROVE  Merge(old, c) \in Seq(C)
<1> DEFINE same == {i \in DOMAIN old : /\ old[i].written = c.written
                                       /\ IF c.written THEN old[i].number = c.number
                                          ELSE old[i].of = c.of}
           replaced == [i \in DOMAIN old |-> IF c.written /\ i \in same THEN c ELSE old[i]]
<1>1. Merge(old, c) = Insert(old, c) \/ Merge(old, c) = replaced
  BY DEF Merge
<1>2. replaced \in Seq(C)
  <2>1. Len(old) \in Nat /\ DOMAIN old = 1..Len(old) /\ \A i \in DOMAIN old : old[i] \in C
    BY LenProperties, ElementOfSeq
  <2> HIDE DEF same
  <2>2. replaced \in [1..Len(old) -> C]
    BY <2>1
  <2> QED BY <2>1, <2>2, SeqDef
<1> QED BY <1>1, <1>2, InsertIn

LEMMA MergePageIn ==
    ASSUME NEW H, NEW hw \in H, NEW old \in Seq(ConditionsOf(H)), NEW tasks \in Seq(Tasks)
    PROVE  MergePage(old, tasks, hw) \in Seq(ConditionsOf(H))
<1> DEFINE S == Seq(ConditionsOf(H))
           Then(n, x) == IF tasks[n].text \/ tasks[n].lines THEN Merge(x, Condition(tasks[n], hw)) ELSE x
           step == [p \in (1..Len(tasks)) \X S |-> Then(p[1], p[2])]
           IsUpTo(g) == g = [n \in 0..Len(tasks) |->
                               IF n = 0 THEN old
                               ELSE IF tasks[n].text \/ tasks[n].lines
                               THEN Merge(g[n - 1], Condition(tasks[n], hw)) ELSE g[n - 1]]
           upTo == CHOOSE g : IsUpTo(g)
<1>1. Len(tasks) \in Nat
  BY LenProperties
<1>2. \A n \in 1..Len(tasks), x \in S : Then(n, x) \in S
  <2> SUFFICES ASSUME NEW n \in 1..Len(tasks), NEW x \in S PROVE Then(n, x) \in S
    OBVIOUS
  <2>1. Condition(tasks[n], hw) \in ConditionsOf(H)
    <3>1. tasks[n] \in Tasks
      BY <1>1, ElementOfSeq
    <3>2. <<hw, tasks[n].exercise>> \in H \X Nat
      BY <3>1 DEF Tasks
    <3> QED BY <3>1, <3>2 DEF Condition, ConditionsOf, Tasks
  <2> QED BY <2>1, MergeIn
<1> HIDE DEF S
<1>3. \A n \in 1..Len(tasks), x \in S : step[<<n, x>>] = Then(n, x)
  OBVIOUS
<1> HIDE DEF step
<1>4. PICK g : Follows(g, 0, Len(tasks), old, step) /\ \A n \in 0..Len(tasks) : g[n] \in S
  <2>1. \A n \in (0 + 1)..Len(tasks), x \in S : step[<<n, x>>] \in S
    <3>1. (0 + 1)..Len(tasks) = 1..Len(tasks)
      OBVIOUS
    <3> HIDE DEF Then
    <3> QED BY <1>2, <1>3, <3>1
  <2>2. old \in S /\ 0 <= Len(tasks)
    BY <1>1 DEF S
  <2> QED BY <1>1, <2>1, <2>2, RecursionExists
<1>5. IsUpTo(g)
  <2>1. ASSUME NEW n \in 0..Len(tasks)
        PROVE  g[n] = IF n = 0 THEN old ELSE Then(n, g[n - 1])
    <3>1. CASE n = 0
      BY <1>4, <3>1 DEF Follows
    <3>2. CASE n # 0
      <4>1. n \in 1..Len(tasks) /\ n \in (0 + 1)..Len(tasks) /\ n - 1 \in 0..Len(tasks)
        BY <1>1, <3>2
      <4>2. g[n] = step[<<n, g[n - 1]>>] /\ g[n - 1] \in S
        BY <1>4, <4>1 DEF Follows
      <4> HIDE DEF Then
      <4> QED BY <1>3, <3>2, <4>1, <4>2
    <3> QED BY <3>1, <3>2
  <2>2. g = [n \in 0..Len(tasks) |-> g[n]]
    BY <1>4 DEF Follows
  <2> QED BY <2>1, <2>2
<1>6. IsUpTo(upTo)
  <2> HIDE DEF IsUpTo
  <2> QED BY <1>5
<1>7. MergePage(old, tasks, hw) = upTo[Len(tasks)]
  BY DEF MergePage
<1> HIDE DEF upTo
<1>8. upTo[0] \in S
  BY <1>1, <1>6 DEF S
<1>9. ASSUME NEW n \in (0 + 1)..Len(tasks), upTo[n - 1] \in S
      PROVE  upTo[n] \in S
  <2>1. n \in 1..Len(tasks) /\ n \in 0..Len(tasks) /\ n # 0
    BY <1>1
  <2>2. upTo[n] = Then(n, upTo[n - 1])
    BY <1>6, <2>1
  <2> HIDE DEF Then
  <2> QED BY <1>2, <1>9, <2>1, <2>2
<1>10. \A n \in 0..Len(tasks) : upTo[n] \in S
  BY <1>1, <1>8, <1>9, AllValues
<1> QED BY <1>1, <1>7, <1>10 DEF S

LEMMA AlbumTypes ==
    ASSUME NEW s \in Subjects, NEW album \in Albums(s)
    PROVE  /\ album \in Seq(Photos(s)) /\ Len(album) \in Nat /\ DOMAIN album = 1..Len(album)
           /\ \A i \in DOMAIN album : album[i].page.tasks \in Seq(Tasks)
<1>1. PICK n \in 1..MaxPhotos : album \in [1..n -> Photos(s)]
  BY DEF Albums
<1>2. album \in Seq(Photos(s))
  BY <1>1, AlbumAssumption, SeqDef
<1>3. \A p \in Photos(s) : p.page \in Pages
  <2> DEFINE pages == {p \in Pages : p.subject = s}
             one == CHOOSE p \in pages : TRUE
  <2>1. one \in Pages /\ pages \subseteq Pages
    BY AlbumAssumption
  <2>2. PICK fates : Photos(s) = [page : pages, fate : fates] \cup {[page |-> one, fate |-> "failed"]}
    BY DEF Photos
  <2> HIDE DEF pages, one
  <2>3. ASSUME NEW p \in [page : pages, fate : fates] PROVE p.page \in Pages
    BY <2>1
  <2> QED BY <2>1, <2>2, <2>3
<1>4. Len(album) \in Nat /\ DOMAIN album = 1..Len(album)
  BY <1>2, LenProperties
<1>5. \A i \in DOMAIN album : album[i].page \in Pages
  BY <1>2, <1>3, <1>4, ElementOfSeq
<1>6. \A p \in Pages : p.tasks \in Seq(Tasks)
  BY AlbumAssumption
<1> QED BY <1>2, <1>4, <1>5, <1>6

LEMMA TextbookIn ==
    ASSUME NEW album \in MathAlbums, NEW H, homework["math"] \in H, NEW old \in Seq(ConditionsOf(H))
    PROVE  Textbook(album, old) \in Seq(ConditionsOf(H))
<1> DEFINE hw == homework["math"]
           S == Seq(ConditionsOf(H))
           Then(n, x) == IF n \in TextbookPages(album) THEN MergePage(x, album[n].page.tasks, hw) ELSE x
           step == [p \in (1..Len(album)) \X S |-> Then(p[1], p[2])]
           IsUpTo(g) == g = [n \in 0..Len(album) |->
                               IF n = 0 THEN old
                               ELSE IF n \in TextbookPages(album)
                               THEN MergePage(g[n - 1], album[n].page.tasks, hw) ELSE g[n - 1]]
           upTo == CHOOSE g : IsUpTo(g)
<1>1. Len(album) \in Nat /\ \A n \in 1..Len(album) : album[n].page.tasks \in Seq(Tasks)
  BY AlbumTypes DEF MathAlbums, Subjects
<1>2. \A n \in 1..Len(album), x \in S : Then(n, x) \in S
  BY <1>1, MergePageIn
<1>7. Textbook(album, old) = upTo[Len(album)]
  BY DEF Textbook
<1> HIDE DEF S, hw
<1>3. \A n \in 1..Len(album), x \in S : step[<<n, x>>] = Then(n, x)
  OBVIOUS
<1> HIDE DEF step
<1>4. PICK g : Follows(g, 0, Len(album), old, step) /\ \A n \in 0..Len(album) : g[n] \in S
  <2>1. \A n \in (0 + 1)..Len(album), x \in S : step[<<n, x>>] \in S
    <3>1. (0 + 1)..Len(album) = 1..Len(album)
      OBVIOUS
    <3> HIDE DEF Then
    <3> QED BY <1>2, <1>3, <3>1
  <2>2. old \in S /\ 0 <= Len(album)
    BY <1>1 DEF S, hw
  <2> QED BY <1>1, <2>1, <2>2, RecursionExists
<1>5. IsUpTo(g)
  <2>1. ASSUME NEW n \in 0..Len(album)
        PROVE  g[n] = IF n = 0 THEN old ELSE Then(n, g[n - 1])
    <3>1. CASE n = 0
      BY <1>4, <3>1 DEF Follows
    <3>2. CASE n # 0
      <4>1. n \in 1..Len(album) /\ n \in (0 + 1)..Len(album) /\ n - 1 \in 0..Len(album)
        BY <1>1, <3>2
      <4>2. g[n] = step[<<n, g[n - 1]>>] /\ g[n - 1] \in S
        BY <1>4, <4>1 DEF Follows
      <4> HIDE DEF Then
      <4> QED BY <1>3, <3>2, <4>1, <4>2
    <3> QED BY <3>1, <3>2
  <2>2. g = [n \in 0..Len(album) |-> g[n]]
    BY <1>4 DEF Follows
  <2> QED BY <2>1, <2>2
<1>6. IsUpTo(upTo)
  <2> HIDE DEF IsUpTo
  <2> QED BY <1>5
<1> HIDE DEF upTo
<1>8. upTo[0] \in S
  BY <1>1, <1>6 DEF S, hw
<1>9. ASSUME NEW n \in (0 + 1)..Len(album), upTo[n - 1] \in S
      PROVE  upTo[n] \in S
  <2>1. n \in 1..Len(album) /\ n \in 0..Len(album) /\ n # 0
    BY <1>1
  <2>2. upTo[n] = Then(n, upTo[n - 1])
    BY <1>6, <2>1
  <2> HIDE DEF Then
  <2> QED BY <1>2, <1>9, <2>1, <2>2
<1>10. \A n \in 0..Len(album) : upTo[n] \in S
  BY <1>1, <1>8, <1>9, AllValues
<1> QED BY <1>1, <1>7, <1>10 DEF S, hw

-----------------------------------------------------------------------------
(* The tasks of a notebook: glued or not, they are of the homework of their album.                 *)

LEMMA FlattenIn ==
    ASSUME NEW S, NEW seqs \in Seq(Seq(S))
    PROVE  FlattenSeq(seqs) \in Seq(S)
<1> DEFINE IsFlat(g) == g = [i \in 1..Len(seqs) |-> IF i = 1 THEN seqs[i] ELSE g[i - 1] \o seqs[i]]
           flat == CHOOSE g : IsFlat(g)
           step == [p \in (2..Len(seqs)) \X Seq(S) |-> p[2] \o seqs[p[1]]]
<1>1. Len(seqs) \in Nat /\ \A i \in 1..Len(seqs) : seqs[i] \in Seq(S)
  BY LenProperties, ElementOfSeq
<1>2. CASE Len(seqs) = 0
  BY <1>2, EmptySeq DEF FlattenSeq
<1>3. CASE Len(seqs) # 0
  <2>1. FlattenSeq(seqs) = flat[Len(seqs)]
    BY <1>3 DEF FlattenSeq
  <2>2. \A n \in 2..Len(seqs), x \in Seq(S) : step[<<n, x>>] = x \o seqs[n] /\ x \o seqs[n] \in Seq(S)
    <3> SUFFICES ASSUME NEW n \in 2..Len(seqs), NEW x \in Seq(S)
                 PROVE  step[<<n, x>>] = x \o seqs[n] /\ x \o seqs[n] \in Seq(S)
      OBVIOUS
    <3>1. seqs[n] \in Seq(S)
      BY <1>1
    <3>2. x \o seqs[n] \in Seq(S)
      BY <3>1, ConcatProperties
    <3> QED BY <3>2
  <2> HIDE DEF step
  <2>3. PICK g : Follows(g, 1, Len(seqs), seqs[1], step) /\ \A n \in 1..Len(seqs) : g[n] \in Seq(S)
    <3>1. (1 + 1)..Len(seqs) = 2..Len(seqs) /\ 1 <= Len(seqs) /\ 1 \in 1..Len(seqs)
      BY <1>1, <1>3
    <3>2. \A n \in (1 + 1)..Len(seqs), x \in Seq(S) : step[<<n, x>>] \in Seq(S)
      BY <2>2, <3>1
    <3> QED BY <1>1, <3>1, <3>2, RecursionExists
  <2>4. IsFlat(g)
    <3>1. ASSUME NEW n \in 1..Len(seqs)
          PROVE  g[n] = IF n = 1 THEN seqs[n] ELSE g[n - 1] \o seqs[n]
      <4>1. CASE n = 1
        BY <2>3, <4>1 DEF Follows
      <4>2. CASE n # 1
        <5>1. n \in 2..Len(seqs) /\ n \in (1 + 1)..Len(seqs) /\ n - 1 \in 1..Len(seqs)
          BY <1>1, <4>2
        <5>2. g[n] = step[<<n, g[n - 1]>>] /\ g[n - 1] \in Seq(S)
          BY <2>3, <5>1 DEF Follows
        <5> QED BY <2>2, <4>2, <5>1, <5>2
      <4> QED BY <4>1, <4>2
    <3>2. g = [n \in 1..Len(seqs) |-> g[n]]
      BY <2>3 DEF Follows
    <3> QED BY <3>1, <3>2
  <2>5. IsFlat(flat)
    <3> HIDE DEF IsFlat
    <3> QED BY <2>4
  <2> HIDE DEF flat
  <2>6. flat[1] \in Seq(S)
    BY <1>1, <1>3, <2>5
  <2>7. ASSUME NEW n \in (1 + 1)..Len(seqs), flat[n - 1] \in Seq(S)
        PROVE  flat[n] \in Seq(S)
    <3>1. n \in 1..Len(seqs) /\ n # 1
      BY <1>1
    <3>2. flat[n] = flat[n - 1] \o seqs[n]
      BY <2>5, <3>1
    <3> QED BY <1>1, <2>7, <3>1, <3>2, ConcatProperties
  <2>8. \A n \in 1..Len(seqs) : flat[n] \in Seq(S)
    BY <1>1, <2>6, <2>7, AllValues
  <2> QED BY <1>1, <1>3, <2>1, <2>8
<1> QED BY <1>2, <1>3

Stampeds(hw) ==
    [of : {hw} \X Nat, number : Nat, written : BOOLEAN,
     nums : Numbers, lines : BOOLEAN, computed : BOOLEAN,
     right : BOOLEAN, flaw : {"none", "doubt", "error"}, answerOf : ({hw} \X Nat) \cup {NoExercise}]
\* Those without an answer to another exercise.
Owned(hw) == {task \in Stampeds(hw) : task.answerOf \in {NoExercise, task.of}}

LEMMA StampedIn ==
    ASSUME NEW hw \in Nat, NEW task \in Tasks
    PROVE  Stamped(task, hw) \in Owned(hw)
<1>1. PICK e : e = <<hw, task.exercise>> /\ e \in {hw} \X Nat
  <2>1. task.exercise \in Nat
    BY DEF Tasks
  <2>2. <<hw, task.exercise>> \in {hw} \X Nat
    BY <2>1
  <2> QED BY <2>2
<1>2. PICK a : a = (IF task.answer THEN e ELSE NoExercise) /\ a \in {NoExercise, e}
  OBVIOUS
<1>3. Stamped(task, hw) = [of |-> e, number |-> task.number, written |-> task.written,
                           nums |-> task.nums, lines |-> task.lines, computed |-> task.computed,
                           right |-> task.right, flaw |-> task.flaw, answerOf |-> a]
  BY <1>1, <1>2 DEF Stamped
<1> QED BY <1>1, <1>2, <1>3 DEF Owned, Stampeds, Tasks

LEMMA NotebookIn ==
    ASSUME NEW album \in MathAlbums, homework["math"] \in Nat
    PROVE  Notebook(album) \in Seq(Seq(Owned(homework["math"])))
<1> DEFINE hw == homework["math"]
           of(i) == [t \in DOMAIN album[i].page.tasks |-> Stamped(album[i].page.tasks[t], hw)]
<1>1. Len(album) \in Nat /\ DOMAIN album = 1..Len(album)
      /\ \A n \in 1..Len(album) : album[n].page.tasks \in Seq(Tasks)
  BY AlbumTypes DEF MathAlbums, Subjects
<1>2. ASSUME NEW i \in 1..Len(album) PROVE of(i) \in Seq(Owned(hw))
  <2> DEFINE tasks == album[i].page.tasks
  <2>1. tasks \in Seq(Tasks)
    BY <1>1
  <2>2. Len(tasks) \in Nat /\ DOMAIN tasks = 1..Len(tasks) /\ \A t \in 1..Len(tasks) : tasks[t] \in Tasks
    BY <2>1, LenProperties, ElementOfSeq
  <2>3. of(i) \in [1..Len(tasks) -> Owned(hw)]
    BY <2>2, StampedIn
  <2> QED BY <2>2, <2>3, SeqDef
<1>3. \A i \in 1..Len(album) : Notebook(album)[i] \in Seq(Owned(hw))
  <2> SUFFICES ASSUME NEW i \in 1..Len(album) PROVE Notebook(album)[i] \in Seq(Owned(hw))
    OBVIOUS
  <2>1. Notebook(album)[i] = of(i) \/ Notebook(album)[i] = <<>>
    BY DEF Notebook
  <2> QED BY <1>2, <2>1, EmptySeq
<1>4. Notebook(album) = [i \in 1..Len(album) |-> Notebook(album)[i]]
  BY DEF Notebook
<1>5. Notebook(album) \in [1..Len(album) -> Seq(Owned(hw))]
  BY <1>3, <1>4
<1> QED BY <1>1, <1>5, SeqDef

LEMMA GluedIn ==
    ASSUME NEW hw, NEW task \in Stampeds(hw), NEW end \in Stampeds(hw)
    PROVE  Glued(task, end) \in Stampeds(hw)
<1>1. PICK a \in ({hw} \X Nat) \cup {NoExercise}, r \in BOOLEAN, l \in BOOLEAN, c \in BOOLEAN,
           n \in Numbers, w \in {"none", "doubt", "error"} :
        Glued(task, end) = [task EXCEPT !.answerOf = a, !.right = r, !.lines = l, !.computed = c,
                                        !.nums = n, !.flaw = w]
  <2>1. /\ end.answerOf \in ({hw} \X Nat) \cup {NoExercise}
        /\ task.nums \cup end.nums \in Numbers
    <3>1. /\ task.nums \in SUBSET Nat /\ IsFiniteSet(task.nums)
          /\ end.nums \in SUBSET Nat /\ IsFiniteSet(end.nums)
      <4>1. task.nums \in Numbers /\ end.nums \in Numbers
        BY DEF Stampeds
      <4> QED BY <4>1 DEF Numbers
    <3>2. IsFiniteSet(task.nums \cup end.nums)
      BY <3>1, FS_Union
    <3>3. end.answerOf \in ({hw} \X Nat) \cup {NoExercise}
      BY DEF Stampeds
    <3> QED BY <3>1, <3>2, <3>3 DEF Numbers
  <2>2. /\ (task.right /\ end.right) \in BOOLEAN /\ (task.lines \/ end.lines) \in BOOLEAN
        /\ (task.computed \/ end.computed) \in BOOLEAN
    OBVIOUS
  <2>3. PICK w \in {"none", "doubt", "error"} :
          w = IF task.flaw = "none" \/ end.flaw = "error" THEN end.flaw ELSE task.flaw
    BY DEF Stampeds
  <2> DEFINE r == task.right /\ end.right
             l == task.lines \/ end.lines
             c == task.computed \/ end.computed
             n == task.nums \cup end.nums
  <2>4. Glued(task, end) = [task EXCEPT !.answerOf = end.answerOf, !.right = r, !.lines = l, !.computed = c,
                                        !.nums = n, !.flaw = w]
    BY <2>3 DEF Glued
  <2>5. r \in BOOLEAN /\ l \in BOOLEAN /\ c \in BOOLEAN /\ n \in Numbers
    BY <2>1, <2>2
  <2> HIDE DEF r, l, c, n
  <2> QED BY <2>1, <2>4, <2>5, ZenonT(60)
<1> QED BY <1>1 DEF Stampeds

LEMMA FunctionIsSeq ==
    ASSUME NEW S, NEW n \in Nat, NEW f \in [1..n -> S]
    PROVE  f \in Seq(S)
BY SeqDef

LEMMA AttachedTo ==
    ASSUME NEW C, NEW pages \in Seq(Seq(C)),
           \A e \in DOMAIN pages, s \in DOMAIN pages :
              /\ {p \in DOMAIN pages : Continues(pages[p])} = {e}
              /\ {p \in DOMAIN pages : Unfinished(pages[p])} = {s}
              => Glued(Last(pages[s]), pages[e][1]) \in C
    PROVE  AttachContinuations(pages) \in Seq(C)
<1> DEFINE S == Seq(C)
           ends == {p \in DOMAIN pages : Continues(pages[p])}
           starts == {p \in DOMAIN pages : Unfinished(pages[p])}
           end == CHOOSE p \in ends : \A q \in ends : p <= q
           start == CHOOSE p \in starts : \A q \in starts : p <= q
           glued == Append(Front(pages[start]), Glued(Last(pages[start]), pages[end][1]))
           joined == [pages EXCEPT ![end] = <<>>, ![start] = glued]
<1>1. Len(pages) \in Nat /\ DOMAIN pages = 1..Len(pages) /\ \A p \in 1..Len(pages) : pages[p] \in S
  BY LenProperties, ElementOfSeq
<1>2. ASSUME Pairs(ends, starts) PROVE joined \in Seq(S)
  <2> HIDE DEF ends, starts
  <2>0. IsFiniteSet(ends) /\ IsFiniteSet(starts)
    <3>1. IsFiniteSet(1..Len(pages))
      BY <1>1, FS_Interval
    <3>2. ends \subseteq 1..Len(pages) /\ starts \subseteq 1..Len(pages)
      BY <1>1 DEF ends, starts
    <3> QED BY <3>1, <3>2, FS_Subset
  <2>1. PICK e : ends = {e}
    BY <1>2, <2>0, FS_Singleton DEF Pairs
  <2>2. PICK s : starts = {s}
    BY <1>2, <2>0, FS_Singleton DEF Pairs
  <2> USE DEF ends, starts
  <2>3. e \in 1..Len(pages) /\ s \in 1..Len(pages) /\ Continues(pages[e]) /\ Unfinished(pages[s]) /\ e # s
    BY <1>1, <2>1, <2>2 DEF Unfinished
  <2>4. end = e /\ start = s
    BY <2>1, <2>2, <2>3
  <2>5. pages[e][1] \in C
    <3>1. pages[e] \in Seq(C) /\ Len(pages[e]) = 1 /\ 1 \in 1..1
      BY <1>1, <2>3 DEF Continues
    <3> QED BY <3>1, ElementOfSeq
  <2>6. Front(pages[s]) \in Seq(C) /\ Last(pages[s]) \in C
    <3>1. pages[s] \in Seq(C) /\ pages[s] # <<>>
      BY <1>1, <2>3 DEF Unfinished
    <3>2. Len(pages[s]) \in Nat \ {0}
      BY <3>1, EmptySeq
    <3>3. Last(pages[s]) \in C
      BY <3>1, <3>2, ElementOfSeq DEF Last
    <3>4. \A i \in 1..(Len(pages[s]) - 1) : pages[s][i] \in C
      BY <3>1, <3>2, ElementOfSeq
    <3>5. Front(pages[s]) \in Seq(C)
      BY <3>2, <3>4, SubSeqProperties DEF Front
    <3> QED BY <3>3, <3>5
  <2>7. glued \in S
    <3>1. Glued(Last(pages[s]), pages[e][1]) \in C
      BY <1>1, <2>1, <2>2, <2>3
    <3>2. Append(Front(pages[s]), Glued(Last(pages[s]), pages[e][1])) \in Seq(C)
      BY <2>6, <3>1, AppendProperties
    <3> HIDE DEF end, start
    <3> QED BY <2>4, <3>2
  <2> HIDE DEF glued
  <2>8. joined = [p \in 1..Len(pages) |-> IF p = s THEN glued ELSE IF p = e THEN <<>> ELSE pages[p]]
    <3> HIDE DEF end, start
    <3> QED BY <1>1, <2>3, <2>4
  <2>9. joined \in [1..Len(pages) -> S]
    <3> HIDE DEF joined
    <3> QED BY <1>1, <2>7, <2>8, EmptySeq
  <2> HIDE DEF joined, S
  <2> QED BY <1>1, <2>9, FunctionIsSeq
<1>3. AttachContinuations(pages) = FlattenSeq(IF Pairs(ends, starts) THEN joined ELSE pages)
  BY DEF AttachContinuations
<1> HIDE DEF joined, ends, starts
<1>4. (IF Pairs(ends, starts) THEN joined ELSE pages) \in Seq(S)
  BY <1>2
<1> QED BY <1>3, <1>4, FlattenIn

LEMMA AttachedIn ==
    ASSUME NEW hw, NEW pages \in Seq(Seq(Stampeds(hw)))
    PROVE  AttachContinuations(pages) \in Seq(Stampeds(hw))
<1>1. ASSUME NEW e \in DOMAIN pages, NEW s \in DOMAIN pages, Continues(pages[e]), Unfinished(pages[s])
      PROVE  Glued(Last(pages[s]), pages[e][1]) \in Stampeds(hw)
  <2>1. /\ pages[e] \in Seq(Stampeds(hw)) /\ Len(pages[e]) = 1 /\ 1 \in 1..1
        /\ pages[s] \in Seq(Stampeds(hw)) /\ pages[s] # <<>>
    BY <1>1, LenProperties, ElementOfSeq DEF Continues, Unfinished
  <2>2. pages[e][1] \in Stampeds(hw)
    BY <2>1, ElementOfSeq
  <2>3. Len(pages[s]) \in Nat \ {0}
    BY <2>1, EmptySeq
  <2>4. Last(pages[s]) \in Stampeds(hw)
    BY <2>1, <2>3, ElementOfSeq DEF Last
  <2> QED BY <2>2, <2>4, GluedIn
<1>2. \A e \in DOMAIN pages, s \in DOMAIN pages :
         /\ {p \in DOMAIN pages : Continues(pages[p])} = {e}
         /\ {p \in DOMAIN pages : Unfinished(pages[p])} = {s}
         => Glued(Last(pages[s]), pages[e][1]) \in Stampeds(hw)
  <2> SUFFICES ASSUME NEW e \in DOMAIN pages, NEW s \in DOMAIN pages,
                      {p \in DOMAIN pages : Continues(pages[p])} = {e},
                      {p \in DOMAIN pages : Unfinished(pages[p])} = {s}
               PROVE  Glued(Last(pages[s]), pages[e][1]) \in Stampeds(hw)
    OBVIOUS
  <2> QED BY <1>1, Zenon
<1> QED BY <1>2, AttachedTo

LEMMA OwnedPages == ASSUME NEW hw PROVE Seq(Seq(Owned(hw))) \subseteq Seq(Seq(Stampeds(hw)))
<1>1. ASSUME NEW A, NEW B, A \subseteq B, NEW q \in Seq(A) PROVE q \in Seq(B)
  <2>1. Len(q) \in Nat /\ q \in [1..Len(q) -> A]
    BY LenProperties
  <2>2. q \in [1..Len(q) -> B]
    BY <1>1, <2>1
  <2> QED BY <2>1, <2>2, SeqDef
<1>2. Owned(hw) \subseteq Stampeds(hw)
  BY DEF Owned
<1>3. Seq(Owned(hw)) \subseteq Seq(Stampeds(hw))
  BY <1>1, <1>2
<1> QED BY <1>1, <1>3

\* A page of the notebook that has tasks was read and taken for one, and is its tasks as they came.
LEMMA NotebookPage ==
    ASSUME NEW album \in MathAlbums, NEW i \in DOMAIN album, homework["math"] \in Nat,
           Notebook(album)[i] # <<>> \/ (i \in Recognized(album) /\ PageRole(album[i].page.tasks) = "notebook")
    PROVE  LET tasks == album[i].page.tasks
               stamped == Notebook(album)[i]
           IN /\ i \in Recognized(album) /\ PageRole(tasks) = "notebook" /\ stamped # <<>>
              /\ Len(stamped) = Len(tasks) /\ Len(tasks) \in Nat \ {0}
              /\ \A t \in 1..Len(tasks) : tasks[t] \in Tasks /\ stamped[t] = Stamped(tasks[t], homework["math"])
<1> DEFINE hw == homework["math"]
           tasks == album[i].page.tasks
           stamped == [t \in DOMAIN tasks |-> Stamped(tasks[t], hw)]
<1>1. /\ Len(album) \in Nat /\ DOMAIN album = 1..Len(album) /\ tasks \in Seq(Tasks)
  BY AlbumTypes DEF MathAlbums, Subjects
<1>2. Notebook(album)[i] = IF i \in Recognized(album) /\ PageRole(tasks) = "notebook" THEN stamped ELSE <<>>
  BY <1>1 DEF Notebook
<1> HIDE DEF stamped
<1>3. i \in Recognized(album) /\ PageRole(tasks) = "notebook" /\ Notebook(album)[i] = stamped
  BY <1>2
<1>4. tasks # <<>>
  <2>1. PageRole(<<>>) = "empty"
    <3>1. DOMAIN <<>> = {}
      OBVIOUS
    <3>2. /\ {t \in DOMAIN <<>> : <<>>[t].answer \/ <<>>[t].computed} = {}
          /\ {t \in DOMAIN <<>> : <<>>[t].text} = {}
      BY <3>1
    <3> QED BY <3>2 DEF PageRole
  <2> QED BY <1>3, <2>1
<1> HIDE DEF tasks
<1>5. /\ Len(tasks) \in Nat \ {0} /\ DOMAIN tasks = 1..Len(tasks)
      /\ \A t \in 1..Len(tasks) : tasks[t] \in Tasks
  BY <1>1, <1>4, EmptySeq, LenProperties, ElementOfSeq
<1>6. stamped \in [1..Len(tasks) -> Owned(hw)]
  BY <1>5, StampedIn DEF stamped
<1>7. stamped \in Seq(Owned(hw)) /\ Len(stamped) = Len(tasks)
  <2>1. stamped \in Seq(Owned(hw))
    BY <1>5, <1>6, FunctionIsSeq
  <2>2. DOMAIN stamped = 1..Len(stamped) /\ Len(stamped) \in Nat /\ DOMAIN stamped = 1..Len(tasks)
    BY <1>6, <2>1, LenProperties
  <2>3. PICK m \in Nat, n \in Nat \ {0} : m = Len(stamped) /\ n = Len(tasks) /\ 1..m = 1..n
    BY <1>5, <2>2
  <2>4. n \in 1..m
    BY <2>3
  <2>5. m \in 1..n
    BY <2>3, <2>4
  <2>6. m = n
    BY <2>4, <2>5
  <2> QED BY <2>1, <2>3, <2>6
<1>8. stamped # <<>>
  BY <1>5, <1>7, EmptySeq
<1>9. \A t \in 1..Len(tasks) : stamped[t] = Stamped(tasks[t], hw)
  BY <1>5 DEF stamped
<1> QED BY <1>3, <1>5, <1>7, <1>8, <1>9 DEF tasks

\* The one page with nothing but an answer is joined to the one unfinished task, so when that is of
\* the same exercise no task gets the answer to another one.
LEMMA AttachedOwned ==
    ASSUME NEW album \in MathAlbums, homework["math"] \in Nat, EndsFollowStarts(album)
    PROVE  AttachContinuations(Notebook(album)) \in Seq(Owned(homework["math"]))
<1> DEFINE hw == homework["math"]
           pages == Notebook(album)
<1>1. pages \in Seq(Seq(Owned(hw))) /\ DOMAIN pages = DOMAIN album
  <2>1. DOMAIN pages = DOMAIN album
    BY AlbumTypes DEF MathAlbums, Subjects, Notebook
  <2> QED BY <2>1, NotebookIn
<1>2. ASSUME NEW e \in DOMAIN album, NEW s \in DOMAIN album,
             {p \in DOMAIN pages : Continues(pages[p])} = {e},
             {p \in DOMAIN pages : Unfinished(pages[p])} = {s}
      PROVE  Glued(Last(pages[s]), pages[e][1]) \in Owned(hw)
  <2> HIDE DEF pages, hw
  <2>1. Continues(pages[e]) /\ Unfinished(pages[s]) /\ \A j \in DOMAIN album : Unfinished(pages[j]) => j = s
    BY <1>1, <1>2
  <2>2. Len(pages[e]) = 1 /\ ~pages[e][1].written /\ pages[e][1].answerOf # NoExercise
    BY <2>1 DEF Continues
  <2>3. pages[e] # <<>> /\ pages[s] # <<>>
    BY <2>1, <2>2 DEF Unfinished
  <2> USE DEF pages, hw
  <2>4. PICK end \in Tasks : /\ e \in Recognized(album) /\ PageRole(album[e].page.tasks) = "notebook"
                             /\ Len(album[e].page.tasks) = 1 /\ end = album[e].page.tasks[1]
                             /\ end = Last(album[e].page.tasks) /\ pages[e][1] = Stamped(end, hw)
    <3>1. /\ e \in Recognized(album) /\ PageRole(album[e].page.tasks) = "notebook"
          /\ Len(pages[e]) = Len(album[e].page.tasks)
          /\ \A t \in 1..Len(album[e].page.tasks) : /\ album[e].page.tasks[t] \in Tasks
                                                    /\ pages[e][t] = Stamped(album[e].page.tasks[t], hw)
      BY <2>3, NotebookPage
    <3> HIDE DEF pages, hw
    <3>2. Len(album[e].page.tasks) = 1 /\ 1 \in 1..1
      BY <2>2, <3>1
    <3> QED BY <3>1, <3>2 DEF Last
  <2> HIDE DEF pages
  <2>5. ~end.written /\ end.answer
    BY <2>2, <2>4 DEF Stamped
  <2>6. PICK j \in Recognized(album) :
          /\ PageRole(album[j].page.tasks) = "notebook"
          /\ end.exercise = Last(album[j].page.tasks).exercise
          /\ Last(album[j].page.tasks).written /\ ~Last(album[j].page.tasks).answer
    BY <2>4, <2>5, Zenon DEF EndsFollowStarts
  <2>7. PICK start \in Tasks : /\ start = Last(album[j].page.tasks) /\ pages[j] # <<>>
                               /\ Last(pages[j]) = Stamped(start, hw)
                               /\ (Len(pages[j]) = 1 => pages[j][1] = Stamped(start, hw))
    <3>1. /\ j \in DOMAIN album /\ pages[j] # <<>>
          /\ Len(pages[j]) = Len(album[j].page.tasks) /\ Len(album[j].page.tasks) \in Nat \ {0}
          /\ \A t \in 1..Len(album[j].page.tasks) : /\ album[j].page.tasks[t] \in Tasks
                                                    /\ pages[j][t] = Stamped(album[j].page.tasks[t], hw)
      <4>1. j \in DOMAIN album
        BY DEF Recognized
      <4> QED BY <2>6, <4>1, NotebookPage DEF pages
    <3>2. PICK n \in Nat \ {0} : n = Len(pages[j]) /\ n = Len(album[j].page.tasks) /\ n \in 1..n
      BY <3>1
    <3>3. album[j].page.tasks[n] \in Tasks /\ pages[j][n] = Stamped(album[j].page.tasks[n], hw)
      BY <3>1, <3>2
    <3> QED BY <3>1, <3>2, <3>3 DEF Last
  <2>8. start.written /\ ~start.answer /\ start.exercise = end.exercise
    BY <2>6, <2>7
  <2>9. Stamped(start, hw).written /\ Stamped(start, hw).answerOf = NoExercise
    BY <2>8 DEF Stamped
  <2>10. Unfinished(pages[j])
    BY <2>7, <2>9 DEF Unfinished, Continues
  <2>11. j = s
    <3>1. j \in DOMAIN album
      BY DEF Recognized
    <3> QED BY <2>1, <2>10, <3>1
  <2>12. Stamped(start, hw) \in Owned(hw) /\ Stamped(end, hw) \in Owned(hw)
    BY StampedIn DEF hw
  <2>13. Stamped(start, hw).of = Stamped(end, hw).of
    BY <2>8 DEF Stamped
  <2>14. Glued(Stamped(start, hw), Stamped(end, hw)) \in Owned(hw)
    <3>1. PICK t \in Owned(hw), u \in Owned(hw) : t = Stamped(start, hw) /\ u = Stamped(end, hw) /\ t.of = u.of
      BY <2>12, <2>13
    <3>2. t \in Stampeds(hw) /\ u \in Stampeds(hw) /\ u.answerOf \in {NoExercise, u.of}
      BY DEF Owned
    <3>3. Glued(t, u) \in Stampeds(hw)
      BY <3>2, GluedIn
    <3>4. Glued(t, u).of = t.of /\ Glued(t, u).answerOf = u.answerOf
      BY <3>2 DEF Glued, Stampeds
    <3> QED BY <3>1, <3>2, <3>3, <3>4 DEF Owned
  <2> QED BY <2>4, <2>7, <2>11, <2>14
<1>3. \A e \in DOMAIN pages, s \in DOMAIN pages :
         /\ {p \in DOMAIN pages : Continues(pages[p])} = {e}
         /\ {p \in DOMAIN pages : Unfinished(pages[p])} = {s}
         => Glued(Last(pages[s]), pages[e][1]) \in Owned(hw)
  <2> SUFFICES ASSUME NEW e \in DOMAIN pages, NEW s \in DOMAIN pages,
                      {p \in DOMAIN pages : Continues(pages[p])} = {e},
                      {p \in DOMAIN pages : Unfinished(pages[p])} = {s}
               PROVE  Glued(Last(pages[s]), pages[e][1]) \in Owned(hw)
    OBVIOUS
  <2> HIDE DEF pages, hw
  <2> QED BY <1>1, <1>2
<1> HIDE DEF pages, hw
<1>4. AttachContinuations(pages) \in Seq(Owned(hw))
  BY <1>1, <1>3, AttachedTo
<1> QED BY <1>4 DEF pages, hw

-----------------------------------------------------------------------------
(* What a task of the notebook is checked against, and what it is praised with.                    *)

IsChecked(c) ==
    c = [of |-> c.of, answerOf |-> c.answerOf, printed |-> c.printed, exact |-> c.exact,
         right |-> c.right, against |-> c.against, verdict |-> c.verdict, lines |-> c.lines,
         flaw |-> c.flaw, praise |-> c.praise]

LEMMA ChosenIn ==
    ASSUME NEW tasks, NEW conditions
    PROVE  Chosen(tasks, conditions) \subseteq (DOMAIN tasks) \X (DOMAIN conditions)
BY DEF Chosen

\* The pairs that have something in common, and which of two is the better one.
Candidates(tasks, conditions) ==
    {p \in (DOMAIN tasks) \X (DOMAIN conditions) : Score(tasks, conditions, p[1], p[2]) >= 2}
ExactPair(tasks, conditions, p) == ExactNumber(tasks[p[1]], conditions[p[2]])
Precedes(p, s, e, q, t, f) ==
    \/ s > t
    \/ s = t /\ e /\ ~f
    \/ s = t /\ e = f /\ (p[1] < q[1] \/ (p[1] = q[1] /\ p[2] < q[2]))
Better(tasks, conditions, p, q) ==
    Precedes(p, Score(tasks, conditions, p[1], p[2]), ExactPair(tasks, conditions, p),
             q, Score(tasks, conditions, q[1], q[2]), ExactPair(tasks, conditions, q))

LEMMA ScoreIsNat ==
    ASSUME NEW hw, NEW tasks \in Seq(Stampeds(hw)), NEW conditions, NEW i \in DOMAIN tasks, NEW j
    PROVE  Score(tasks, conditions, i, j) \in Nat
<1>1. tasks[i] \in Stampeds(hw)
  BY LenProperties, ElementOfSeq
<1>2. IsFiniteSet(tasks[i].nums)
  <2>1. tasks[i].nums \in Numbers
    BY <1>1 DEF Stampeds
  <2> QED BY <2>1 DEF Numbers
<1>3. PICK common : /\ common = tasks[i].nums \cap Distinctive(conditions, j)
                    /\ common \subseteq tasks[i].nums
  OBVIOUS
<1>4. Cardinality(common) \in Nat
  BY <1>2, <1>3, FS_Subset, FS_CardinalityType
<1> QED BY <1>3, <1>4 DEF Score

LEMMA BetterIsOrder ==
    ASSUME NEW hw, NEW tasks \in Seq(Stampeds(hw)), NEW C, NEW conditions \in Seq(C),
           NEW p \in Candidates(tasks, conditions), NEW q \in Candidates(tasks, conditions),
           NEW r \in Candidates(tasks, conditions)
    PROVE  /\ ~Better(tasks, conditions, p, p)
           /\ Better(tasks, conditions, p, q) /\ Better(tasks, conditions, q, r)
              => Better(tasks, conditions, p, r)
           /\ p # q => Better(tasks, conditions, p, q) \/ Better(tasks, conditions, q, p)
<1>1. /\ DOMAIN tasks = 1..Len(tasks) /\ DOMAIN conditions = 1..Len(conditions)
      /\ Len(tasks) \in Nat /\ Len(conditions) \in Nat
  BY LenProperties
<1>2. \A x \in Candidates(tasks, conditions) :
         /\ x = <<x[1], x[2]>> /\ x[1] \in DOMAIN tasks /\ x[2] \in DOMAIN conditions
         /\ x[1] \in Nat /\ x[2] \in Nat /\ Score(tasks, conditions, x[1], x[2]) \in Nat
  <2> SUFFICES ASSUME NEW x \in Candidates(tasks, conditions)
               PROVE  /\ x = <<x[1], x[2]>> /\ x[1] \in DOMAIN tasks /\ x[2] \in DOMAIN conditions
                      /\ x[1] \in Nat /\ x[2] \in Nat /\ Score(tasks, conditions, x[1], x[2]) \in Nat
    OBVIOUS
  <2>1. x = <<x[1], x[2]>> /\ x[1] \in DOMAIN tasks /\ x[2] \in DOMAIN conditions
    BY DEF Candidates
  <2> QED BY <1>1, <2>1, ScoreIsNat
<1>3. PICK sp \in Nat, sq \in Nat, sr \in Nat :
        /\ sp = Score(tasks, conditions, p[1], p[2]) /\ sq = Score(tasks, conditions, q[1], q[2])
        /\ sr = Score(tasks, conditions, r[1], r[2])
  BY <1>2
<1>4. PICK ep \in BOOLEAN, eq \in BOOLEAN, er \in BOOLEAN :
        /\ ep = ExactPair(tasks, conditions, p) /\ eq = ExactPair(tasks, conditions, q)
        /\ er = ExactPair(tasks, conditions, r)
  BY DEF ExactPair, ExactNumber
<1>5. /\ Better(tasks, conditions, p, p) <=> Precedes(p, sp, ep, p, sp, ep)
      /\ Better(tasks, conditions, p, q) <=> Precedes(p, sp, ep, q, sq, eq)
      /\ Better(tasks, conditions, q, p) <=> Precedes(q, sq, eq, p, sp, ep)
      /\ Better(tasks, conditions, q, r) <=> Precedes(q, sq, eq, r, sr, er)
      /\ Better(tasks, conditions, p, r) <=> Precedes(p, sp, ep, r, sr, er)
  BY <1>3, <1>4, Zenon DEF Better
<1>6. /\ ~Precedes(p, sp, ep, p, sp, ep)
      /\ Precedes(p, sp, ep, q, sq, eq) /\ Precedes(q, sq, eq, r, sr, er) => Precedes(p, sp, ep, r, sr, er)
      /\ p # q => Precedes(p, sp, ep, q, sq, eq) \/ Precedes(q, sq, eq, p, sp, ep)
  <2>1. PICK i \in Nat, j \in Nat, k \in Nat, l \in Nat, m \in Nat, n \in Nat :
          /\ p = <<i, j>> /\ q = <<k, l>> /\ r = <<m, n>>
          /\ p[1] = i /\ p[2] = j /\ q[1] = k /\ q[2] = l /\ r[1] = m /\ r[2] = n
    BY <1>2
  <2>2. p # q => i # k \/ j # l
    BY <2>1
  <2> QED BY <2>1, <2>2 DEF Precedes
<1> QED BY <1>5, <1>6

\* Giving in the order of a relation, each in view of what is given before it, can be done for any
\* finite set: the values are settled in the order of how many come before.
GivenBy(f, S, R, X) == f = [p \in S |-> \A q \in S : <<q, p>> \in R /\ f[q] => <<q, p>> \notin X]

LEMMA GivenExists ==
    ASSUME NEW S, IsFiniteSet(S), NEW R, NEW X,
           \A p \in S : <<p, p>> \notin R,
           \A p \in S, q \in S, r \in S : <<p, q>> \in R /\ <<q, r>> \in R => <<p, r>> \in R
    PROVE  \E f : GivenBy(f, S, R, X)
<1> DEFINE Above(p) == {q \in S : <<q, p>> \in R}
           rank == [p \in S |-> Cardinality(Above(p))]
           Rule(f, p) == \A q \in S : <<q, p>> \in R /\ f[q] => <<q, p>> \notin X
           Settled(f, n) == \A p \in S : rank[p] < n => f[p] = Rule(f, p)
           Bad == {n \in Nat : ~\E f : Settled(f, n)}
<1>1. ASSUME NEW p \in S
      PROVE  IsFiniteSet(Above(p)) /\ rank[p] \in Nat /\ rank[p] <= Cardinality(S)
  <2>1. Above(p) \in SUBSET S
    OBVIOUS
  <2> HIDE DEF Above
  <2> QED BY <2>1, FS_Subset, FS_CardinalityType
<1>2. ASSUME NEW p \in S, NEW q \in S, <<q, p>> \in R PROVE rank[q] < rank[p]
  <2>1. Above(q) \in SUBSET Above(p) /\ q \in Above(p) /\ q \notin Above(q)
    BY <1>2
  <2>2. IsFiniteSet(Above(p)) /\ rank[p] \in Nat /\ rank[q] \in Nat
    BY <1>1
  <2> HIDE DEF Above
  <2>3. Cardinality(Above(q)) <= Cardinality(Above(p)) /\ Cardinality(Above(q)) # Cardinality(Above(p))
    BY <2>1, <2>2, FS_Subset
  <2> QED BY <2>2, <2>3
<1> HIDE DEF rank, Above
<1>3. ASSUME Bad # {} PROVE FALSE
  <2>1. PICK n \in Bad : \A m \in Bad : n <= m
    <3>1. Bad \subseteq Nat
      OBVIOUS
    <3> HIDE DEF Bad
    <3> QED BY <1>3, <3>1, LeastNumber
  <2>2. n \in Nat /\ ~\E f : Settled(f, n)
    OBVIOUS
  <2>3. CASE n = 0
    <3>1. \A p \in S : ~(rank[p] < n)
      BY <1>1, <2>3
    <3>2. Settled(<<>>, n)
      <4> HIDE DEF Rule
      <4> QED BY <3>1
    <3> HIDE DEF Settled
    <3> QED BY <2>2, <3>2
  <2>4. CASE n # 0
    <3>1. n - 1 \in Nat /\ n - 1 \notin Bad
      <4> HIDE DEF Bad
      <4>1. n - 1 \in Nat /\ ~(n <= n - 1)
        BY <2>2, <2>4
      <4> QED BY <2>1, <4>1
    <3>2. PICK g : Settled(g, n - 1)
      BY <3>1
    <3> DEFINE f == [p \in S |-> Rule(g, p)]
    <3>3. ASSUME NEW p \in S, rank[p] < n PROVE f[p] = Rule(f, p)
      <4>1. ASSUME NEW q \in S, <<q, p>> \in R PROVE f[q] = g[q]
        <5>1. rank[q] < rank[p] /\ rank[q] \in Nat /\ rank[p] \in Nat
          BY <1>1, <1>2, <4>1
        <5>2. rank[q] < n - 1
          BY <2>2, <3>3, <5>1
        <5>3. g[q] = Rule(g, q)
          BY <3>2, <5>2
        <5> HIDE DEF Rule
        <5> QED BY <5>3
      <4>2. Rule(f, p) = Rule(g, p)
        <5> HIDE DEF f
        <5> QED BY <4>1
      <4>3. f[p] = Rule(g, p)
        <5> HIDE DEF Rule
        <5> QED OBVIOUS
      <4> HIDE DEF f, Rule
      <4> QED BY <4>2, <4>3
    <3>4. Settled(f, n)
      <4> HIDE DEF f, Rule
      <4> QED BY <3>3
    <3> HIDE DEF Settled, f
    <3> QED BY <2>2, <3>4
  <2> QED BY <2>3, <2>4
<1>4. Cardinality(S) \in Nat /\ Cardinality(S) + 1 \in Nat
  BY FS_CardinalityType
<1>5. PICK f : Settled(f, Cardinality(S) + 1)
  <2> HIDE DEF Settled
  <2>1. \E f : Settled(f, Cardinality(S) + 1)
    BY <1>3, <1>4
  <2> QED BY <2>1
<1> DEFINE h == [p \in S |-> f[p]]
<1>6. ASSUME NEW p \in S PROVE h[p] = Rule(h, p)
  <2>1. rank[p] < Cardinality(S) + 1
    BY <1>1, <1>4
  <2>2. f[p] = Rule(f, p)
    BY <1>5, <2>1
  <2>3. Rule(h, p) = Rule(f, p)
    OBVIOUS
  <2> HIDE DEF Rule
  <2> QED BY <2>2, <2>3
<1>7. h = [p \in S |-> Rule(h, p)]
  <2>1. h = [p \in S |-> h[p]]
    OBVIOUS
  <2> HIDE DEF h, Rule
  <2> QED BY <1>6, <2>1
<1>8. GivenBy(h, S, R, X)
  <2> HIDE DEF h
  <2> QED BY <1>7 DEF GivenBy
<1> HIDE DEF h
<1> QED BY <1>8

\* Of two pairs that are given, one came first: they are of two tasks, and of one condition only
\* when the number matches.
LEMMA ChosenApart ==
    ASSUME NEW hw, NEW tasks \in Seq(Stampeds(hw)), NEW C, NEW conditions \in Seq(C),
           NEW p \in Chosen(tasks, conditions), NEW q \in Chosen(tasks, conditions), p # q
    PROVE  /\ p[1] # q[1]
           /\ p[2] = q[2] => ExactPair(tasks, conditions, p) \/ ExactPair(tasks, conditions, q)
<1> DEFINE S == Candidates(tasks, conditions)
           Comes(x, y) == Better(tasks, conditions, x, y)
           Stops(x, y) == Excludes(x, y, ExactPair(tasks, conditions, y))
           R == {xy \in S \X S : Comes(xy[1], xy[2])}
           X == {xy \in S \X S : Stops(xy[1], xy[2])}
           IsGiven(f) == f = [y \in S |-> \A x \in S : Comes(x, y) /\ f[x] => ~Stops(x, y)]
           granted == CHOOSE f : IsGiven(f)
<1>1. Chosen(tasks, conditions) = {x \in S : granted[x]}
  BY DEF Chosen, Candidates, Better, Precedes, ExactPair
<1> HIDE DEF granted
<1>2. IsFiniteSet(S)
  <2>1. DOMAIN tasks = 1..Len(tasks) /\ DOMAIN conditions = 1..Len(conditions) /\ Len(tasks) \in Nat /\ Len(conditions) \in Nat
    BY LenProperties
  <2>2. IsFiniteSet(DOMAIN tasks) /\ IsFiniteSet(DOMAIN conditions)
    BY <2>1, FS_Interval
  <2>3. IsFiniteSet((DOMAIN tasks) \X (DOMAIN conditions))
    BY <2>2, FS_Product
  <2>4. S \in SUBSET ((DOMAIN tasks) \X (DOMAIN conditions))
    BY DEF Candidates
  <2> QED BY <2>3, <2>4, FS_Subset
<1> HIDE DEF S
<1>3. \A x \in S, y \in S, z \in S :
         /\ ~Comes(x, x) /\ (Comes(x, y) /\ Comes(y, z) => Comes(x, z))
         /\ x # y => Comes(x, y) \/ Comes(y, x)
  BY BetterIsOrder DEF S
<1> HIDE DEF Comes, Stops
<1>4. \A x \in S, y \in S : (<<x, y>> \in R <=> Comes(x, y)) /\ (<<x, y>> \in X <=> Stops(x, y))
  OBVIOUS
<1> HIDE DEF R, X
<1>5. PICK f : GivenBy(f, S, R, X)
  <2>1. \A x \in S : <<x, x>> \notin R
    BY <1>3, <1>4
  <2>2. \A x \in S, y \in S, z \in S : <<x, y>> \in R /\ <<y, z>> \in R => <<x, z>> \in R
    BY <1>3, <1>4
  <2>3. \E f : GivenBy(f, S, R, X)
    BY <1>2, <2>1, <2>2, GivenExists
  <2> QED BY <2>3
<1>6. IsGiven(f)
  BY <1>4, <1>5 DEF GivenBy
<1>7. IsGiven(granted)
  <2> HIDE DEF IsGiven
  <2> QED BY <1>6 DEF granted
<1>8. \A x \in S, y \in S : granted[x] /\ granted[y] /\ Comes(x, y) => ~Stops(x, y)
  <2>1. \A y \in S : granted[y] = (\A x \in S : Comes(x, y) /\ granted[x] => ~Stops(x, y))
    BY <1>7
  <2> QED BY <2>1
<1>9. p \in S /\ q \in S /\ granted[p] /\ granted[q]
  BY <1>1
<1>10. ~Stops(p, q) \/ ~Stops(q, p)
  BY <1>3, <1>8, <1>9
<1> QED BY <1>10 DEF Stops, Excludes

LEMMA CheckedFields ==
    ASSUME NEW task, NEW of, NEW j, NEW exact, NEW solved
    PROVE  LET c == Checked(task, of, j, exact, solved)
           IN /\ IsChecked(c)
              /\ c.of = task.of /\ c.answerOf = task.answerOf /\ c.printed = j /\ c.exact = exact
              /\ c.against = {of} \ {NoExercise}
<1>1. PICK v : v = Verdict(task, of, solved)
  OBVIOUS
<1>2. PICK against : against = {of} \ {NoExercise}
  OBVIOUS
<1> QED BY <1>1, <1>2 DEF Checked, IsChecked

\* A task of the notebook is checked against the condition it was given, if any.
GivenTo(tasks, conditions, i, of, j, exact) ==
    \E p \in Chosen(tasks, conditions) :
       /\ p[1] = i /\ p[2] = j /\ of = conditions[j].of
       /\ exact = ExactPair(tasks, conditions, p)

LEMMA CheckedOf ==
    ASSUME NEW tasks, NEW conditions, NEW solved, NEW i \in DOMAIN tasks
    PROVE  \E of, j, exact :
              /\ CheckedAlbum(tasks, conditions, solved)[i] = Checked(tasks[i], of, j, exact, solved)
              /\ (of = NoExercise /\ j = 0) \/ GivenTo(tasks, conditions, i, of, j, exact)
<1> DEFINE chosenFor == {p \in Chosen(tasks, conditions) : p[1] = i}
           one == CHOOSE p \in chosenFor : TRUE
<1>1. PICK no \in BOOLEAN : no = FALSE
  OBVIOUS
<1>2. PICK exact \in BOOLEAN : exact = ExactNumber(tasks[i], conditions[one[2]])
  BY DEF ExactNumber
<1>3. CheckedAlbum(tasks, conditions, solved)[i] =
        IF chosenFor # {}
        THEN Checked(tasks[i], conditions[one[2]].of, one[2], exact, solved)
        ELSE Checked(tasks[i], NoExercise, 0, no, solved)
  <2>1. CheckedAlbum(tasks, conditions, solved)[i] =
          IF chosenFor # {}
          THEN Checked(tasks[i], conditions[one[2]].of, one[2], ExactNumber(tasks[i], conditions[one[2]]), solved)
          ELSE Checked(tasks[i], NoExercise, 0, FALSE, solved)
    BY DEF CheckedAlbum
  <2> HIDE DEF chosenFor, one
  <2> QED BY <1>1, <1>2, <2>1
<1>4. CASE chosenFor # {}
  <2>1. one \in Chosen(tasks, conditions) /\ one[1] = i
    BY <1>4
  <2>2. exact = ExactPair(tasks, conditions, one)
    BY <1>2, <2>1 DEF ExactPair
  <2> HIDE DEF chosenFor, one
  <2>3. GivenTo(tasks, conditions, i, conditions[one[2]].of, one[2], exact)
    BY <2>1, <2>2 DEF GivenTo
  <2> QED BY <1>3, <1>4, <2>3
<1>5. CASE chosenFor = {}
  <2> HIDE DEF chosenFor, one
  <2>1. CheckedAlbum(tasks, conditions, solved)[i] = Checked(tasks[i], NoExercise, 0, no, solved)
    BY <1>3, <1>5
  <2> QED BY <2>1
<1> QED BY <1>4, <1>5

LEMMA CheckedShape ==
    ASSUME NEW tasks, NEW conditions, NEW solved
    PROVE  /\ DOMAIN CheckedAlbum(tasks, conditions, solved) = DOMAIN tasks
           /\ \A i \in DOMAIN tasks :
                 LET c == CheckedAlbum(tasks, conditions, solved)[i]
                 IN IsChecked(c) /\ c.of = tasks[i].of /\ c.answerOf = tasks[i].answerOf
<1>1. DOMAIN CheckedAlbum(tasks, conditions, solved) = DOMAIN tasks
  BY DEF CheckedAlbum
<1>2. ASSUME NEW i \in DOMAIN tasks
      PROVE  LET c == CheckedAlbum(tasks, conditions, solved)[i]
             IN IsChecked(c) /\ c.of = tasks[i].of /\ c.answerOf = tasks[i].answerOf
  <2>1. PICK of, j, exact : CheckedAlbum(tasks, conditions, solved)[i] = Checked(tasks[i], of, j, exact, solved)
    BY CheckedOf
  <2>2. LET c == Checked(tasks[i], of, j, exact, solved)
        IN IsChecked(c) /\ c.of = tasks[i].of /\ c.answerOf = tasks[i].answerOf
    BY CheckedFields
  <2> QED BY <2>1, <2>2, Zenon
<1> QED BY <1>1, <1>2

LEMMA CheckedIn ==
    ASSUME NEW hw \in Nat, NEW tasks \in Seq(Stampeds(hw)), NEW conditions \in Seq(ConditionsOf({hw})), NEW solved
    PROVE  \A i \in DOMAIN tasks :
              LET c == CheckedAlbum(tasks, conditions, solved)[i]
              IN c.of[1] = hw /\ \A e \in c.against : e[1] = hw
<1>1. \A i \in DOMAIN tasks : tasks[i].of[1] = hw
  <2>1. \A i \in DOMAIN tasks : tasks[i] \in Stampeds(hw)
    BY LenProperties, ElementOfSeq
  <2> QED BY <2>1 DEF Stampeds
<1>2. \A j \in DOMAIN conditions : conditions[j].of[1] = hw
  <2>1. \A j \in DOMAIN conditions : conditions[j] \in ConditionsOf({hw})
    BY LenProperties, ElementOfSeq
  <2> QED BY <2>1 DEF ConditionsOf
<1>3. ASSUME NEW i \in DOMAIN tasks
      PROVE  LET c == CheckedAlbum(tasks, conditions, solved)[i]
             IN c.of[1] = hw /\ \A e \in c.against : e[1] = hw
  <2>1. PICK of, j, exact :
          /\ CheckedAlbum(tasks, conditions, solved)[i] = Checked(tasks[i], of, j, exact, solved)
          /\ (of = NoExercise /\ j = 0) \/ GivenTo(tasks, conditions, i, of, j, exact)
    BY CheckedOf
  <2>2. of = NoExercise \/ of[1] = hw
    BY <1>2, <2>1, ChosenIn DEF GivenTo
  <2>3. PICK c : c = CheckedAlbum(tasks, conditions, solved)[i]
    OBVIOUS
  <2>4. c.of = tasks[i].of /\ c.against = {of} \ {NoExercise}
    <3>1. LET d == Checked(tasks[i], of, j, exact, solved)
          IN d.of = tasks[i].of /\ d.against = {of} \ {NoExercise}
      BY CheckedFields
    <3> QED BY <2>1, <2>3, <3>1, Zenon
  <2>5. c.of[1] = hw /\ \A e \in c.against : e[1] = hw
    BY <1>1, <2>2, <2>4
  <2> QED BY <2>3, <2>5, Zenon
<1> QED BY <1>3

\* One condition of the textbook is what two tasks are checked against only when the number of one
\* of them matches.
LEMMA CheckedApart ==
    ASSUME NEW hw, NEW tasks \in Seq(Stampeds(hw)), NEW C, NEW conditions \in Seq(C), NEW solved,
           NEW i \in DOMAIN tasks, NEW j \in DOMAIN tasks, i # j
    PROVE  LET c == CheckedAlbum(tasks, conditions, solved)[i]
               d == CheckedAlbum(tasks, conditions, solved)[j]
           IN c.printed = d.printed /\ c.printed # 0 => c.exact \/ d.exact
<1>1. ASSUME NEW k \in DOMAIN tasks, NEW e, e = CheckedAlbum(tasks, conditions, solved)[k], e.printed # 0
      PROVE  \E p \in Chosen(tasks, conditions) :
                p[1] = k /\ e.printed = p[2] /\ e.exact = ExactPair(tasks, conditions, p)
  <2>1. PICK of, m, exact :
          /\ e = Checked(tasks[k], of, m, exact, solved)
          /\ (of = NoExercise /\ m = 0) \/ GivenTo(tasks, conditions, k, of, m, exact)
    BY <1>1, CheckedOf
  <2>2. e.printed = m /\ e.exact = exact
    <3>1. LET d == Checked(tasks[k], of, m, exact, solved) IN d.printed = m /\ d.exact = exact
      BY CheckedFields
    <3> QED BY <2>1, <3>1, Zenon
  <2> QED BY <1>1, <2>1, <2>2 DEF GivenTo
<1>2. PICK c, d : /\ c = CheckedAlbum(tasks, conditions, solved)[i]
                  /\ d = CheckedAlbum(tasks, conditions, solved)[j]
  OBVIOUS
<1>3. ASSUME c.printed = d.printed, c.printed # 0 PROVE c.exact \/ d.exact
  <2>1. PICK p \in Chosen(tasks, conditions) :
          p[1] = i /\ c.printed = p[2] /\ c.exact = ExactPair(tasks, conditions, p)
    BY <1>1, <1>2, <1>3
  <2>2. PICK q \in Chosen(tasks, conditions) :
          q[1] = j /\ d.printed = q[2] /\ d.exact = ExactPair(tasks, conditions, q)
    BY <1>1, <1>2, <1>3
  <2>3. p # q /\ p[2] = q[2]
    BY <1>3, <2>1, <2>2
  <2>4. ExactPair(tasks, conditions, p) \/ ExactPair(tasks, conditions, q)
    BY <2>3, ChosenApart
  <2> QED BY <2>1, <2>2, <2>4
<1> QED BY <1>2, <1>3, Zenon

LEMMA PraisedKeeps ==
    ASSUME NEW checked, \A i \in DOMAIN checked : IsChecked(checked[i]), NEW answer
    PROVE  /\ DOMAIN Praised(checked, answer) = DOMAIN checked
           /\ \A i \in DOMAIN checked :
                 LET c == Praised(checked, answer)[i]
                 IN /\ c.of = checked[i].of /\ c.against = checked[i].against
                    /\ c.answerOf = checked[i].answerOf /\ c.printed = checked[i].printed
                    /\ c.exact = checked[i].exact
                    /\ (c.praise # "none") <=> (c.verdict = "correct")
                    /\ c.praise = "model" => c.flaw = "none"
<1>1. PICK by : /\ by \subseteq Told(checked)
                /\ Praised(checked, answer) = [i \in DOMAIN checked |-> [checked[i] EXCEPT !.praise =
                     CASE i \in by -> "model"
                       [] i \in Correct(checked) \ by -> "own"
                       [] OTHER -> "none"]]
  <2> DEFINE told == Told(checked)
             items == IF told = {} \/ answer = Failed THEN <<>> ELSE answer
             by == {items[k].index : k \in Accepted(items, told)}
  <2>1. by \subseteq told
    <3> HIDE DEF items, told
    <3> QED BY DEF Accepted
  <2>2. told = Told(checked)
    OBVIOUS
  <2>3. Praised(checked, answer) = [i \in DOMAIN checked |-> [checked[i] EXCEPT !.praise =
                     CASE i \in by -> "model"
                       [] i \in Correct(checked) \ by -> "own"
                       [] OTHER -> "none"]]
    BY DEF Praised
  <2> HIDE DEF by, told
  <2> QED BY <2>1, <2>2, <2>3
<1>2. ASSUME NEW i \in DOMAIN checked, NEW c, c = Praised(checked, answer)[i]
      PROVE  /\ c.of = checked[i].of /\ c.against = checked[i].against
             /\ c.answerOf = checked[i].answerOf /\ c.printed = checked[i].printed
             /\ c.exact = checked[i].exact
             /\ (c.praise # "none") <=> (c.verdict = "correct")
             /\ c.praise = "model" => c.flaw = "none"
  <2>1. PICK words : /\ c = [checked[i] EXCEPT !.praise = words]
                     /\ (words # "none") <=> i \in Correct(checked)
                     /\ words = "model" => i \in Told(checked)
    <3> DEFINE words == CASE i \in by -> "model"
                          [] i \in Correct(checked) \ by -> "own"
                          [] OTHER -> "none"
    <3>1. c = [checked[i] EXCEPT !.praise = words]
      BY <1>1, <1>2
    <3>2. ((words # "none") <=> i \in Correct(checked)) /\ (words = "model" => i \in Told(checked))
      BY <1>1 DEF Told
    <3> HIDE DEF words
    <3> QED BY <3>1, <3>2
  <2>2. /\ i \in Correct(checked) <=> checked[i].verdict = "correct"
        /\ i \in Told(checked) => checked[i].flaw = "none"
    BY DEF Correct, Told
  <2>3. IsChecked(checked[i])
    OBVIOUS
  <2>4. /\ c.of = checked[i].of /\ c.against = checked[i].against /\ c.praise = words
        /\ c.verdict = checked[i].verdict /\ c.answerOf = checked[i].answerOf
        /\ c.printed = checked[i].printed /\ c.exact = checked[i].exact /\ c.flaw = checked[i].flaw
    BY <2>1, <2>3 DEF IsChecked
  <2> QED BY <2>1, <2>2, <2>4
<1> QED BY <1>1, <1>2

-----------------------------------------------------------------------------
(* The album.                                                                                      *)

\* The conditions of a chat are remembered, and for how long they were.
Fresh == chat.saved # Never /\ now - chat.saved < Ttl
Shaped ==
    /\ chat = [subject |-> chat.subject, textbook |-> chat.textbook, conditions |-> chat.conditions,
               saved |-> chat.saved, checked |-> chat.checked, paths |-> chat.paths]
    /\ chat.saved \in Nat \cup {Never}
Clocked ==
    /\ now \in Nat /\ homework \in [Subjects -> Nat] /\ last \in [Subjects -> Nat \cup {Never}]
    /\ \A s \in Subjects : last[s] <= now
\* A homework ends when nothing of it came for as long as conditions are remembered, so in a chat
\* with homework in one subject those that are fresh are of the homework of now.
OnlyMath ==
    last["russian"] = Never =>
        /\ chat.subject = "math" /\ chat.saved <= last["math"]
        /\ Fresh => chat.textbook \in Seq(ConditionsOf({homework["math"]}))
        /\ OneHomeworkOf(chat.checked)
OnlyWords ==
    last["math"] = Never =>
        /\ chat.saved <= last["russian"]
        /\ Fresh /\ chat.subject = "russian" =>
              \A n \in DOMAIN chat.conditions : chat.conditions[n][1] = homework["russian"]
        /\ OneHomeworkOf(chat.checked)

\* What was checked is in its place, against a sequence of conditions of whichever homeworks.
InPlace == chat.textbook \in Seq(ConditionsOf(Nat)) /\ AnswersInPlace

AlbumInv == Shaped /\ Clocked /\ OnlyMath /\ OnlyWords /\ ShownRight /\ InPlace

\* What leaves the review alone leaves it in place; a review of words has nothing to place.
LEMMA PlacedKept ==
    ASSUME InPlace, sent' = sent, chat'.subject = chat.subject, chat'.checked = chat.checked,
           chat'.textbook \in Seq(ConditionsOf(Nat))
    PROVE  InPlace'
<1>1. EndsFollowStarts(sent)' = EndsFollowStarts(sent)
  BY DEF EndsFollowStarts, Recognized
<1> QED BY <1>1 DEF InPlace, AnswersInPlace, OneConditionOneTask, NoForeignAnswer

LEMMA WordsPlaced ==
    ASSUME chat'.subject = "russian", chat'.textbook \in Seq(ConditionsOf(Nat))
    PROVE  InPlace'
BY DEF InPlace, AnswersInPlace, OneConditionOneTask, NoForeignAnswer

LEMMA AlbumInit == ASSUME Init PROVE AlbumInv
<1> USE DEF Init, ChatState, Never
<1>1. Shaped
  BY DEF Shaped
<1>2. Clocked
  BY DEF Clocked, Subjects
<1>3. OnlyMath /\ OnlyWords
  BY DEF OnlyMath, OnlyWords, Fresh, OneHomeworkOf, Subjects
<1>4. ShownRight
  BY DEF ShownRight, WordsInTheirPhoto, PraiseForCorrect
<1>5. InPlace
  BY EmptySeq DEF InPlace, AnswersInPlace, OneConditionOneTask, NoForeignAnswer
<1> QED BY <1>1, <1>2, <1>3, <1>4, <1>5 DEF AlbumInv

\* Time passes.
LEMMA TickStep == ASSUME AlbumInv, Tick PROVE AlbumInv'
<1>1. now' = now + 1 /\ UNCHANGED <<homework, last, photos, chat, sent>> /\ now \in Nat
  BY SMTT(60) DEF Tick, AlbumInv, Clocked
<1>2. Shaped' /\ ShownRight'
  BY <1>1 DEF AlbumInv, Shaped, ShownRight, WordsInTheirPhoto, PraiseForCorrect
<1>3. Clocked'
  BY <1>1 DEF AlbumInv, Clocked, Never
<1>4. Fresh' => Fresh
  BY <1>1, AlbumAssumption DEF AlbumInv, Shaped, Fresh, Never
<1>5. OnlyMath'
  BY <1>1, <1>4 DEF AlbumInv, OnlyMath
<1>6. OnlyWords'
  BY <1>1, <1>4 DEF AlbumInv, OnlyWords
<1>7. InPlace'
  BY <1>1, PlacedKept DEF AlbumInv, InPlace
<1> QED BY <1>2, <1>3, <1>5, <1>6, <1>7 DEF AlbumInv

\* The next homework: what was remembered of the last one is not fresh any more.
LEMMA NextHomeworkStep ==
    ASSUME AlbumInv, NEW s \in Subjects, NextHomework(s)
    PROVE  AlbumInv'
<1>1. /\ last[s] # Never /\ now - last[s] >= Ttl /\ homework' = [homework EXCEPT ![s] = @ + 1]
      /\ UNCHANGED <<now, last, photos, chat, sent>>
  BY SMTT(60) DEF NextHomework
<1>2. Shaped' /\ ShownRight'
  BY <1>1 DEF AlbumInv, Shaped, ShownRight, WordsInTheirPhoto, PraiseForCorrect
<1>3. Clocked'
  BY <1>1 DEF AlbumInv, Clocked
<1>4. now \in Nat /\ last[s] \in Nat \cup {Never} /\ chat.saved \in Nat \cup {Never} /\ Ttl \in Nat
  BY AlbumAssumption DEF AlbumInv, Clocked, Shaped
<1>5. chat.saved <= last[s] => ~Fresh'
  BY <1>1, <1>4 DEF Fresh, Never
<1>6. OnlyMath'
  <2> SUFFICES ASSUME last["russian"] = Never PROVE OnlyMath'
    BY <1>1 DEF OnlyMath
  <2>1. s = "math"
    BY <1>1 DEF Subjects
  <2> QED BY <1>1, <1>5, <2>1 DEF AlbumInv, OnlyMath
<1>7. OnlyWords'
  <2> SUFFICES ASSUME last["math"] = Never PROVE OnlyWords'
    BY <1>1 DEF OnlyWords
  <2>1. s = "russian"
    BY <1>1 DEF Subjects
  <2> QED BY <1>1, <1>5, <2>1 DEF AlbumInv, OnlyWords
<1>8. InPlace'
  BY <1>1, PlacedKept DEF AlbumInv, InPlace
<1> QED BY <1>2, <1>3, <1>6, <1>7, <1>8 DEF AlbumInv

LEMMA KnownMath ==
    ASSUME AlbumInv, last["russian"] = Never
    PROVE  Known("math") \in Seq(ConditionsOf({homework["math"]}))
<1>1. CASE Fresh
  <2>1. Known("math") = chat.textbook
    BY <1>1, AlbumAssumption DEF Known, Fresh, AlbumInv, Shaped, Clocked, Never
  <2> QED BY <1>1, <2>1 DEF AlbumInv, OnlyMath
<1>2. CASE ~Fresh
  <2>1. Known("math") = <<>>
    BY <1>2, AlbumAssumption DEF Known, Fresh, AlbumInv, Shaped, Clocked, Never
  <2> QED BY <2>1, EmptySeq
<1> QED BY <1>1, <1>2

LEMMA KnownIsTextbook == ASSUME AlbumInv PROVE Known("math") \in Seq(ConditionsOf(Nat))
<1>1. Known("math") \in {<<>>, chat.textbook}
  BY AlbumAssumption DEF Known, AlbumInv, Shaped, Clocked, Never
<1> QED BY <1>1, EmptySeq DEF AlbumInv, InPlace

LEMMA MathAlbumStep == ASSUME AlbumInv, MathAlbum PROVE AlbumInv'
<1> DEFINE hw == homework["math"]
<1>1. PICK album \in MathAlbums :
        LET book == Textbook(album, Known("math"))
            tasks == AttachContinuations(Notebook(album))
        IN /\ Arrives("math", album)
           /\ \/ /\ tasks # <<>>
                 /\ \E solved \in BOOLEAN, answer \in Praises :
                      chat' = [ChatState EXCEPT
                                 !.textbook = book, !.saved = SavedIf(book),
                                 !.checked = Praised(CheckedAlbum(tasks, book, solved), answer),
                                 !.paths = [i \in DOMAIN album |-> MathPath(album, i)]]
                 /\ sent' = album
              \/ /\ tasks = <<>> /\ TextbookPages(album) # {}
                 /\ chat' = [chat EXCEPT !.textbook = book, !.saved = now]
                 /\ UNCHANGED sent
              \/ /\ tasks = <<>> /\ TextbookPages(album) = {}
                 /\ UNCHANGED <<chat, sent>>
  BY DEF MathAlbum
<1> DEFINE book == Textbook(album, Known("math"))
           tasks == AttachContinuations(Notebook(album))
           notebook == /\ tasks # <<>>
                       /\ \E solved \in BOOLEAN, answer \in Praises :
                            chat' = [ChatState EXCEPT
                                       !.textbook = book, !.saved = SavedIf(book),
                                       !.checked = Praised(CheckedAlbum(tasks, book, solved), answer),
                                       !.paths = [i \in DOMAIN album |-> MathPath(album, i)]]
                       /\ sent' = album
           pages == chat' = [chat EXCEPT !.textbook = book, !.saved = now] /\ sent' = sent
           nothing == chat' = chat /\ sent' = sent
<1>2. /\ last' = [last EXCEPT !["math"] = now] /\ now' = now /\ homework' = homework
      /\ notebook \/ pages \/ nothing
  BY <1>1 DEF Arrives
<1> HIDE DEF notebook, pages, nothing
<1>3. /\ now \in Nat /\ hw \in Nat /\ last["math"] \in Nat \cup {Never} /\ last["math"] <= now
      /\ last' \in [Subjects -> Nat \cup {Never}] /\ last'["math"] = now /\ last'["russian"] = last["russian"]
      /\ now # Never /\ chat.saved \in Nat \cup {Never}
  <2>1. now \in Nat /\ homework \in [Subjects -> Nat] /\ last \in [Subjects -> Nat \cup {Never}]
        /\ "math" \in Subjects /\ "russian" \in Subjects
    BY DEF AlbumInv, Clocked, Subjects
  <2>2. last' \in [Subjects -> Nat \cup {Never}] /\ last'["math"] = now /\ last'["russian"] = last["russian"]
    BY <1>2, <2>1
  <2>3. last["math"] <= now
    BY <2>1 DEF AlbumInv, Clocked
  <2>4. chat.saved \in Nat \cup {Never} /\ now # Never
    BY <2>1 DEF AlbumInv, Shaped, Never
  <2> QED BY <2>1, <2>2, <2>3, <2>4
<1>4. Clocked'
  <2>1. now' \in Nat /\ homework' \in [Subjects -> Nat] /\ last["russian"] <= now
    BY <1>2, <1>3 DEF AlbumInv, Clocked, Subjects
  <2>2. \A s \in Subjects : last'[s] <= now'
    BY <1>2, <1>3, <2>1 DEF Subjects
  <2> QED BY <1>3, <2>1, <2>2 DEF Clocked
<1>5. OnlyWords'
  BY <1>2, <1>3 DEF OnlyWords
<1>6. ASSUME last["russian"] = Never
      PROVE  book \in Seq(ConditionsOf({hw}))
  BY <1>3, <1>6, KnownMath, TextbookIn
<1>7. book \in Seq(ConditionsOf(Nat))
  BY <1>3, KnownIsTextbook, TextbookIn
<1>8. tasks \in Seq(Stampeds(hw)) /\ (EndsFollowStarts(album) => tasks \in Seq(Owned(hw)))
  <2>1. Notebook(album) \in Seq(Seq(Stampeds(hw)))
    BY <1>3, NotebookIn, OwnedPages
  <2> QED BY <1>3, <2>1, AttachedIn, AttachedOwned
<1> HIDE DEF book, tasks
<1>9. CASE notebook
  <2> USE DEF notebook
  <2>1. PICK solved, answer, paths :
          chat' = [ChatState EXCEPT !.textbook = book, !.saved = SavedIf(book),
                                    !.checked = Praised(CheckedAlbum(tasks, book, solved), answer),
                                    !.paths = paths]
    BY <1>9
  <2> DEFINE checked == CheckedAlbum(tasks, book, solved)
  <2>2. PICK praised : praised = Praised(checked, answer)
    OBVIOUS
  <2>3. /\ DOMAIN praised = DOMAIN tasks /\ DOMAIN checked = DOMAIN tasks
        /\ \A i \in DOMAIN praised : /\ praised[i].of = checked[i].of /\ praised[i].against = checked[i].against
                                     /\ praised[i].answerOf = checked[i].answerOf
                                     /\ praised[i].printed = checked[i].printed
                                     /\ praised[i].exact = checked[i].exact
                                     /\ (praised[i].praise # "none") <=> (praised[i].verdict = "correct")
                                     /\ praised[i].praise = "model" => praised[i].flaw = "none"
    <3>1. DOMAIN checked = DOMAIN tasks /\ \A i \in DOMAIN checked : IsChecked(checked[i])
      BY CheckedShape
    <3> HIDE DEF checked
    <3> QED BY <2>2, <3>1, PraisedKeeps
  <2>4. PICK saved \in {now, Never} : saved = SavedIf(book)
    BY DEF SavedIf
  <2>5. /\ chat' = [subject |-> "math", textbook |-> book, conditions |-> <<>>, saved |-> saved,
                    checked |-> praised, paths |-> paths]
    BY <2>1, <2>2, <2>4 DEF ChatState
  <2>6. Shaped'
    BY <1>3, <2>5 DEF Shaped, Never
  <2>7. ShownRight'
    BY <2>3, <2>5 DEF ShownRight, WordsInTheirPhoto, PraiseForCorrect
  <2>8. OnlyMath'
    <3> SUFFICES ASSUME last["russian"] = Never
                 PROVE  /\ chat'.subject = "math" /\ chat'.saved <= last'["math"]
                        /\ chat'.textbook \in Seq(ConditionsOf({hw}))
                        /\ OneHomeworkOf(chat'.checked)
      BY <1>2, <1>3 DEF OnlyMath
    <3>1. chat'.saved <= last'["math"]
      BY <1>3, <2>4, <2>5 DEF Never
    <3>2. \A i \in DOMAIN tasks : checked[i].of[1] = hw /\ \A e \in checked[i].against : e[1] = hw
      BY <1>3, <1>6, <1>8, CheckedIn
    <3>3. OneHomeworkOf(praised)
      <4> HIDE DEF checked
      <4> QED BY <2>3, <3>2 DEF OneHomeworkOf
    <3> QED BY <1>6, <2>5, <3>1, <3>3
  <2>9. InPlace'
    <3>1. \A i \in DOMAIN tasks : checked[i].of = tasks[i].of /\ checked[i].answerOf = tasks[i].answerOf
      BY CheckedShape
    <3>2. \A i \in DOMAIN tasks, j \in DOMAIN tasks :
             i # j /\ checked[i].printed = checked[j].printed /\ checked[i].printed # 0
             => checked[i].exact \/ checked[j].exact
      BY <1>7, <1>8, CheckedApart
    <3>3. EndsFollowStarts(album) =>
             \A i \in DOMAIN tasks : tasks[i].answerOf \in {NoExercise, tasks[i].of}
      <4>1. ASSUME tasks \in Seq(Owned(hw)), NEW i \in DOMAIN tasks PROVE tasks[i] \in Owned(hw)
        BY <4>1, LenProperties, ElementOfSeq
      <4> QED BY <1>8, <4>1 DEF Owned
    <3> HIDE DEF checked
    <3>4. OneConditionOneTask'
      BY <2>3, <2>5, <3>2 DEF OneConditionOneTask
    <3>5. sent' = album
      BY <1>9
    <3>6. EndsFollowStarts(sent)' = EndsFollowStarts(album)
      BY <3>5 DEF EndsFollowStarts, Recognized
    <3>7. NoForeignAnswer'
      BY <2>3, <2>5, <3>1, <3>3, <3>6 DEF NoForeignAnswer
    <3>8. chat'.textbook \in Seq(ConditionsOf(Nat))
      BY <1>7, <2>5
    <3> QED BY <3>4, <3>7, <3>8 DEF InPlace, AnswersInPlace
  <2> QED BY <1>4, <1>5, <2>6, <2>7, <2>8, <2>9, SMTT(60) DEF AlbumInv
<1>10. CASE pages
  <2> USE DEF pages
  <2>1. chat' = [subject |-> chat.subject, textbook |-> book, conditions |-> chat.conditions,
                 saved |-> now, checked |-> chat.checked, paths |-> chat.paths]
    BY <1>10 DEF AlbumInv, Shaped
  <2>2. Shaped'
    BY <1>3, <2>1 DEF Shaped
  <2>3. ShownRight'
    BY <1>10, <2>1 DEF AlbumInv, ShownRight, WordsInTheirPhoto, PraiseForCorrect
  <2>4. OnlyMath'
    <3> SUFFICES ASSUME last["russian"] = Never
                 PROVE  /\ chat'.subject = "math" /\ chat'.saved <= last'["math"]
                        /\ chat'.textbook \in Seq(ConditionsOf({hw}))
                        /\ OneHomeworkOf(chat'.checked)
      BY <1>2, <1>3 DEF OnlyMath
    <3> QED BY <1>3, <1>6, <2>1 DEF AlbumInv, OnlyMath
  <2>5. InPlace'
    BY <1>10, <1>7, <2>1, PlacedKept DEF AlbumInv
  <2> QED BY <1>4, <1>5, <2>2, <2>3, <2>4, <2>5 DEF AlbumInv
<1>11. CASE nothing
  <2> USE DEF nothing
  <2>1. Shaped' /\ ShownRight'
    BY <1>11 DEF AlbumInv, Shaped, ShownRight, WordsInTheirPhoto, PraiseForCorrect
  <2>2. OnlyMath'
    BY <1>2, <1>3, <1>11 DEF AlbumInv, OnlyMath, Fresh, Never
  <2>3. InPlace'
    BY <1>11, PlacedKept DEF AlbumInv, InPlace
  <2> QED BY <1>4, <1>5, <2>1, <2>2, <2>3, SMTT(60) DEF AlbumInv
<1> QED BY <1>2, <1>9, <1>10, <1>11, SMTT(60)

LEMMA KnownWords ==
    ASSUME AlbumInv, last["math"] = Never
    PROVE  \A n \in DOMAIN Known("russian") : Known("russian")[n][1] = homework["russian"]
<1>1. CASE Fresh /\ chat.subject = "russian"
  <2>1. Known("russian") = chat.conditions
    BY <1>1, AlbumAssumption DEF Known, Fresh, AlbumInv, Shaped, Clocked, Never
  <2> QED BY <1>1, <2>1 DEF AlbumInv, OnlyWords
<1>2. CASE ~(Fresh /\ chat.subject = "russian")
  <2>1. Known("russian") = <<>>
    BY <1>2, AlbumAssumption DEF Known, Fresh, AlbumInv, Shaped, Clocked, Never
  <2> QED BY <2>1
<1> QED BY <1>1, <1>2

LEMMA ExercisesIn ==
    ASSUME NEW album, NEW remembered, NEW hw, hw = homework["russian"],
           \A n \in DOMAIN remembered : remembered[n][1] = hw
    PROVE  \A n \in DOMAIN Exercises(album, remembered) : Exercises(album, remembered)[n][1] = hw
<1> DEFINE printedOn == {i \in Recognized(album) : album[i].page.role = "textbook"}
           printed == UNION {{<<i, t>> : t \in DOMAIN album[i].page.tasks} : i \in printedOn}
           task(p) == album[p[1]].page.tasks[p[2]]
           of(n) == {p \in printed : task(p).number = n}
           latest(n) == CHOOSE p \in of(n) : \A q \in of(n) : q[1] < p[1] \/ (q[1] = p[1] /\ q[2] <= p[2])
<1>1. Exercises(album, remembered) = [n \in DOMAIN remembered \cup {task(p).number : p \in printed} |->
          IF of(n) # {} THEN <<hw, task(latest(n)).exercise>> ELSE remembered[n]]
  BY SMTT(60) DEF Exercises
<1>2. ASSUME NEW p \in printed PROVE p \in of(task(p).number)
  <2> HIDE DEF printed, task
  <2> QED BY Zenon
<1>3. \A n : <<hw, task(latest(n)).exercise>>[1] = hw
  OBVIOUS
<1> HIDE DEF printed, of, latest, task
<1>4. ASSUME NEW n \in DOMAIN Exercises(album, remembered)
      PROVE  Exercises(album, remembered)[n][1] = hw
  <2>1. n \in DOMAIN remembered \/ n \in {task(p).number : p \in printed}
    BY <1>1
  <2>2. ASSUME NEW p \in printed, n = task(p).number PROVE of(n) # {}
    BY <1>2, <2>2
  <2>3. Exercises(album, remembered)[n] = IF of(n) # {} THEN <<hw, task(latest(n)).exercise>> ELSE remembered[n]
    BY <1>1
  <2> QED BY <1>3, <2>1, <2>2, <2>3
<1> QED BY <1>4

\* Only a page that was read has words, and its photo is shown in the position they were read in.
LEMMA WordShown ==
    ASSUME NEW album, NEW i \in WordPages(album)
    PROVE  i \in DOMAIN album /\ WordPath(album[i], i) \in {NoPath, <<i, album[i].page.rotation>>}
BY DEF WordPages, Recognized, WordPath

LEMMA WordAlbumStep == ASSUME AlbumInv, WordAlbum PROVE AlbumInv'
<1> DEFINE hw == homework["russian"]
           kept == IF chat.subject = "russian" THEN chat ELSE ChatState
<1>1. PICK album \in WordAlbums :
        LET exercises == Exercises(album, Known("russian"))
            tasks == WordTasks(album, exercises)
        IN /\ Arrives("russian", album)
           /\ \/ /\ tasks # <<>>
                 /\ chat' = [ChatState EXCEPT
                               !.subject = "russian", !.conditions = exercises,
                               !.saved = SavedIf(exercises), !.checked = tasks,
                               !.paths = [i \in DOMAIN album |-> WordPath(album[i], i)]]
                 /\ sent' = album
              \/ /\ tasks = <<>> /\ Recognized(album) # {} /\ exercises # <<>>
                 /\ chat' = [kept EXCEPT !.subject = "russian", !.conditions = exercises,
                                         !.saved = now]
                 /\ sent' = IF chat.subject = "russian" THEN sent ELSE <<>>
              \/ /\ tasks = <<>> /\ (Recognized(album) = {} \/ exercises = <<>>)
                 /\ UNCHANGED <<chat, sent>>
  BY DEF WordAlbum
<1> DEFINE exercises == Exercises(album, Known("russian"))
           tasks == WordTasks(album, exercises)
           paths == [i \in DOMAIN album |-> WordPath(album[i], i)]
           notebook == /\ chat' = [ChatState EXCEPT
                                     !.subject = "russian", !.conditions = exercises,
                                     !.saved = SavedIf(exercises), !.checked = tasks, !.paths = paths]
                       /\ sent' = album
           pages == /\ chat' = [kept EXCEPT !.subject = "russian", !.conditions = exercises, !.saved = now]
                    /\ sent' = IF chat.subject = "russian" THEN sent ELSE <<>>
           nothing == chat' = chat /\ sent' = sent
<1>2. /\ last' = [last EXCEPT !["russian"] = now] /\ now' = now /\ homework' = homework
      /\ notebook \/ pages \/ nothing
  BY <1>1 DEF Arrives
<1> HIDE DEF notebook, pages, nothing
<1>3. /\ now \in Nat /\ hw \in Nat /\ last["russian"] \in Nat \cup {Never} /\ last["russian"] <= now
      /\ last' \in [Subjects -> Nat \cup {Never}] /\ last'["russian"] = now /\ last'["math"] = last["math"]
      /\ now # Never /\ chat.saved \in Nat \cup {Never}
  <2>1. now \in Nat /\ homework \in [Subjects -> Nat] /\ last \in [Subjects -> Nat \cup {Never}]
        /\ "math" \in Subjects /\ "russian" \in Subjects
    BY DEF AlbumInv, Clocked, Subjects
  <2>2. last' \in [Subjects -> Nat \cup {Never}] /\ last'["russian"] = now /\ last'["math"] = last["math"]
    BY <1>2, <2>1
  <2>3. last["russian"] <= now
    BY <2>1 DEF AlbumInv, Clocked
  <2>4. chat.saved \in Nat \cup {Never} /\ now # Never
    BY <2>1 DEF AlbumInv, Shaped, Never
  <2> QED BY <2>1, <2>2, <2>3, <2>4
<1>4. Clocked'
  <2>1. now' \in Nat /\ homework' \in [Subjects -> Nat] /\ last["math"] <= now
    BY <1>2, <1>3 DEF AlbumInv, Clocked, Subjects
  <2>2. \A s \in Subjects : last'[s] <= now'
    BY <1>2, <1>3, <2>1 DEF Subjects
  <2> QED BY <1>3, <2>1, <2>2 DEF Clocked
<1>5. OnlyMath'
  BY <1>2, <1>3 DEF OnlyMath
<1>6. ASSUME last["math"] = Never
      PROVE  /\ \A n \in DOMAIN exercises : exercises[n][1] = hw
             /\ OneHomeworkOf(tasks)
  <2>1. \A n \in DOMAIN exercises : exercises[n][1] = hw
    BY <1>6, KnownWords, ExercisesIn
  <2> HIDE DEF exercises
  <2>2. OneHomeworkOf(tasks)
    BY <2>1 DEF OneHomeworkOf, WordTasks
  <2> QED BY <2>1, <2>2
<1>7. /\ DOMAIN tasks = WordPages(album)
      /\ \A i \in DOMAIN tasks : tasks[i].index = i /\ tasks[i].of[2] = album[i].page.tasks[1].exercise
  <2> HIDE DEF exercises
  <2> QED BY DEF WordTasks
<1> HIDE DEF exercises, tasks
<1>8. CASE notebook
  <2>1. PICK saved \in {now, Never} : saved = SavedIf(exercises)
    BY DEF SavedIf
  <2> HIDE DEF paths
  <2>2. /\ chat' = [subject |-> "russian", textbook |-> <<>>, conditions |-> exercises, saved |-> saved,
                    checked |-> tasks, paths |-> paths]
        /\ sent' = album
    BY <1>8, <2>1 DEF ChatState, notebook
  <2>3. Shaped'
    BY <1>3, <2>2 DEF Shaped, Never
  <2>4. ShownRight'
    <3>1. \A i \in WordPages(album) : paths[i] \in {NoPath, <<i, album[i].page.rotation>>}
      BY WordShown DEF paths
    <3>2. WordsInTheirPhoto'
      BY <1>7, <2>2, <3>1 DEF WordsInTheirPhoto, NoPath
    <3>3. PraiseForCorrect'
      BY <2>2 DEF PraiseForCorrect
    <3> QED BY <3>2, <3>3 DEF ShownRight
  <2>5. OnlyWords'
    <3> SUFFICES ASSUME last["math"] = Never
                 PROVE  /\ chat'.saved <= last'["russian"]
                        /\ \A n \in DOMAIN chat'.conditions : chat'.conditions[n][1] = hw
                        /\ OneHomeworkOf(chat'.checked)
      BY <1>2, <1>3 DEF OnlyWords
    <3>1. chat'.saved <= last'["russian"]
      BY <1>3, <2>1, <2>2 DEF Never
    <3>2. chat'.conditions = exercises /\ chat'.checked = tasks
      BY <2>2
    <3> QED BY <1>6, <3>1, <3>2
  <2>6. InPlace'
    BY <2>2, EmptySeq, WordsPlaced
  <2> QED BY <1>4, <1>5, <2>3, <2>4, <2>5, <2>6 DEF AlbumInv
<1>9. CASE pages /\ chat.subject = "russian"
  <2>1. /\ chat' = [subject |-> "russian", textbook |-> chat.textbook, conditions |-> exercises,
                    saved |-> now, checked |-> chat.checked, paths |-> chat.paths]
        /\ sent' = sent
    BY <1>9 DEF AlbumInv, Shaped, pages
  <2>2. Shaped'
    BY <1>3, <2>1 DEF Shaped
  <2>3. ShownRight'
    BY <1>9, <2>1 DEF AlbumInv, ShownRight, WordsInTheirPhoto, PraiseForCorrect
  <2>4. OnlyWords'
    <3> SUFFICES ASSUME last["math"] = Never
                 PROVE  /\ chat'.saved <= last'["russian"]
                        /\ \A n \in DOMAIN chat'.conditions : chat'.conditions[n][1] = hw
                        /\ OneHomeworkOf(chat'.checked)
      BY <1>2, <1>3 DEF OnlyWords
    <3>1. chat'.saved = now /\ chat'.conditions = exercises /\ chat'.checked = chat.checked
      BY <2>1
    <3>2. OneHomeworkOf(chat.checked)
      BY DEF AlbumInv, OnlyWords
    <3> QED BY <1>3, <1>6, <3>1, <3>2
  <2>5. InPlace'
    <3>1. chat'.subject = "russian" /\ chat'.textbook = chat.textbook
      BY <2>1
    <3> QED BY <3>1, WordsPlaced DEF AlbumInv, InPlace
  <2> QED BY <1>4, <1>5, <2>2, <2>3, <2>4, <2>5 DEF AlbumInv
<1>10. CASE pages /\ chat.subject # "russian"
  <2>1. chat' = [subject |-> "russian", textbook |-> <<>>, conditions |-> exercises, saved |-> now,
                 checked |-> <<>>, paths |-> <<>>]
    BY <1>10 DEF ChatState, pages
  <2>2. Shaped'
    BY <1>3, <2>1 DEF Shaped
  <2>3. ShownRight'
    BY <2>1 DEF ShownRight, WordsInTheirPhoto, PraiseForCorrect
  <2>4. OnlyWords'
    <3> SUFFICES ASSUME last["math"] = Never
                 PROVE  /\ chat'.saved <= last'["russian"]
                        /\ \A n \in DOMAIN chat'.conditions : chat'.conditions[n][1] = hw
                        /\ OneHomeworkOf(chat'.checked)
      BY <1>2, <1>3 DEF OnlyWords
    <3>1. chat'.saved = now /\ chat'.conditions = exercises /\ chat'.checked = <<>>
      BY <2>1
    <3>2. OneHomeworkOf(<<>>)
      BY DEF OneHomeworkOf
    <3> QED BY <1>3, <1>6, <3>1, <3>2
  <2>5. InPlace'
    BY <2>1, EmptySeq, WordsPlaced
  <2> QED BY <1>4, <1>5, <2>2, <2>3, <2>4, <2>5 DEF AlbumInv
<1>11. CASE nothing
  <2>1. Shaped' /\ ShownRight'
    BY <1>11 DEF AlbumInv, Shaped, ShownRight, WordsInTheirPhoto, PraiseForCorrect, nothing
  <2>2. OnlyWords'
    BY <1>2, <1>3, <1>11 DEF AlbumInv, OnlyWords, Fresh, Never, nothing
  <2>3. InPlace'
    BY <1>11, PlacedKept DEF AlbumInv, InPlace, nothing
  <2> QED BY <1>4, <1>5, <2>1, <2>2, <2>3 DEF AlbumInv
<1> QED BY <1>2, <1>8, <1>9, <1>10, <1>11, SMTT(60)

LEMMA AlbumStays == ASSUME AlbumInv, UNCHANGED avars PROVE AlbumInv'
<1> USE DEF avars
<1>1. Shaped' /\ Clocked'
  BY DEF AlbumInv, Shaped, Clocked
<1>2. OnlyMath'
  BY DEF AlbumInv, OnlyMath, Fresh
<1>3. OnlyWords'
  BY SMTT(60) DEF AlbumInv, OnlyWords, Fresh
<1>4. ShownRight'
  BY DEF AlbumInv, ShownRight, WordsInTheirPhoto, PraiseForCorrect
<1>5. InPlace'
  BY PlacedKept DEF AlbumInv, InPlace
<1> QED BY <1>1, <1>2, <1>3, <1>4, <1>5 DEF AlbumInv

LEMMA AlbumInvariant == HSpec => []AlbumInv
<1>1. HInit => AlbumInv
  BY AlbumInit DEF HInit
<1>2. AlbumInv /\ [HNext]_hvars => AlbumInv'
  <2> SUFFICES ASSUME AlbumInv, [HNext]_hvars PROVE AlbumInv'
    OBVIOUS
  <2>1. CASE Next
    BY <2>1, MathAlbumStep, WordAlbumStep, TickStep, NextHomeworkStep DEF Next
  <2>2. CASE UNCHANGED avars
    BY <2>2, AlbumStays
  <2>3. Next \/ UNCHANGED avars
    BY DEF HNext, hvars
  <2> QED BY <2>1, <2>2, <2>3
<1> QED BY <1>1, <1>2, PTL DEF HSpec

\* In a chat with homework in one subject nothing is ever checked against a condition of another
\* homework, however long its textbook is remembered and however its photos come (textbook_is_fresh,
\* merge_textbook, attach_conditions, _split_language_album).
THEOREM OneHomeworkAtATime == HSpec => []OneHomework
<1>1. AlbumInv => OneHomework
  BY DEF AlbumInv, OneHomework, OnlyMath, OnlyWords, Subjects
<1> QED BY <1>1, AlbumInvariant, PTL

\* A word is shown in the photo it was read from, in the position it was read in, or in none, and
\* praise is for right work and for all of it, whatever fails on the way and whatever the model
\* answers (_recognize_language_album, accepted_praise, explain_correct).
THEOREM ShownIsRight == HSpec => []ShownRight
<1>1. AlbumInv => ShownRight
  BY DEF AlbumInv
<1> QED BY <1>1, AlbumInvariant, PTL

\* What the child wrote stays where it belongs, whatever the photos show: of two tasks checked against
\* one condition of the textbook one has its number in writing, and no task gets the answer to another
\* exercise when the pages with answers alone belong to unfinished tasks (attach_conditions,
\* _attach_continuations).
THEOREM AnswersStayInPlace == HSpec => []AnswersInPlace
<1>1. AlbumInv => AnswersInPlace
  BY DEF AlbumInv, InPlace
<1> QED BY <1>1, AlbumInvariant, PTL

-----------------------------------------------------------------------------
(* The verdict on a page of mathematics.                                   *)

\* Two fractions that equal a third one are equal.
LEMMA SameThrough ==
    ASSUME NEW u \in G!Fractions, NEW v \in G!Fractions, NEW w \in G!Fractions, G!Same(u, v), G!Same(w, v)
    PROVE  G!Same(u, w)
<1> DEFINE a == u[1]
           b == u[2]
           c == v[1]
           d == v[2]
           e == w[1]
           g == w[2]
<1>1. /\ a \in Int /\ b \in Int /\ c \in Int /\ d \in Int /\ d # 0 /\ e \in Int /\ g \in Int
      /\ a * d = c * b /\ e * d = c * g
  BY DEF G!Fractions, G!Same
<1>2. G!Same(u, w) <=> a * g = e * b
  BY DEF G!Same
<1> HIDE DEF a, b, c, d, e, g
<1>3. (a * g) * d = (e * b) * d
  <2>1. (a * g) * d = (a * d) * g
    BY <1>1
  <2>2. (e * b) * d = (e * d) * b
    BY <1>1
  <2>3. (c * b) * g = (c * g) * b
    BY <1>1
  <2> QED BY <1>1, <2>1, <2>2, <2>3
<1>4. ASSUME NEW x \in Int, NEW y \in Int, x * d = y * d PROVE x = y
  <2>1. (x - y) * d = 0
    BY <1>1, <1>4
  <2>2. \A z \in Int : z * d = 0 => z = 0
    BY <1>1
  <2> QED BY <1>4, <2>1, <2>2
<1>5. a * g \in Int /\ e * b \in Int
  BY <1>1
<1> QED BY <1>2, <1>3, <1>4, <1>5, Zenon

\* What the parser and the album make of a homework.
GState == given \in Works /\ page \in Seq(given.lines)

LEMMA LineIs ==
    ASSUME GState, NEW n \in DOMAIN page
    PROVE  page[n] \in given.lines /\ G!WellFormed(page[n]) /\ n \in 1..Len(page) /\ Len(page) \in Nat
<1>1. given \in Works /\ page \in Seq(given.lines)
  BY DEF GState
<1>2. Len(page) \in Nat /\ DOMAIN page = 1..Len(page) /\ page[n] \in given.lines
  BY <1>1, LenProperties, ElementOfSeq
<1> QED BY <1>1, <1>2, GradingAssumption

\* What an induction over the lines of the page needs: the first line of which P does not hold.
LEMMA FirstLine ==
    ASSUME GState, NEW S, S \subseteq 0 .. Len(page), S # {}, 0 \notin S
    PROVE  \E n \in S : n \in DOMAIN page /\ n - 1 \in 0 .. Len(page) /\ \A m \in S : n <= m
<1>1. Len(page) \in Nat /\ DOMAIN page = 1 .. Len(page)
  BY LenProperties DEF GState
<1>2. S \subseteq Nat
  BY <1>1
<1>3. PICK n \in S : \A m \in S : n <= m
  BY <1>2, LeastNumber
<1>4. n \in 0 .. Len(page) /\ n # 0
  BY <1>3
<1>5. n - 1 \in 0 .. Len(page) /\ n \in 1 .. Len(page)
  BY <1>1, <1>4
<1> QED BY <1>1, <1>3, <1>5

-----------------------------------------------------------------------------
(* Columns.                                                                *)

\* A column is three to five lines with its signs and numbers in their places.
LEMMA ShapedIs ==
    ASSUME GState, NEW n \in DOMAIN page, NEW c \in G!Shaped(page, n)
    PROVE  /\ c = [from |-> c.from, last |-> c.last, to |-> n]
           /\ c.to = n /\ c.from \in Nat /\ c.last \in Nat /\ n \in Nat /\ 1 <= c.from
           /\ c.last = n - 1 \/ (c.last = n - 2 /\ G!Kind(page, n - 1) = "rule")
           /\ c.from = c.last - 1 \/ (c.from = c.last - 2 /\ G!Kind(page, c.from + 1) = "sign")
           /\ G!Kind(page, n) = "number"
           /\ G!Kind(page, c.from) \in {"number", "signed"} /\ G!Kind(page, c.last) \in {"number", "signed"}
<1>1. n \in Nat
  BY LineIs
<1>2. c \in [from : 1 .. n, last : 1 .. n, to : {n}]
  BY DEF G!Shaped
<1>3. /\ c = [from |-> c.from, last |-> c.last, to |-> n]
      /\ c.to = n /\ c.from \in Nat /\ c.last \in Nat /\ 1 <= c.from
  BY <1>1, <1>2
<1>4. /\ G!Kind(page, n) = "number"
      /\ c.last = n - 1 \/ (c.last = n - 2 /\ G!Kind(page, n - 1) = "rule")
      /\ \/ /\ c.last = c.from + 1
            /\ {G!Kind(page, c.from), G!Kind(page, c.last)} = {"number", "signed"}
         \/ /\ c.last = c.from + 2
            /\ G!Kind(page, c.from) = "number" /\ G!Kind(page, c.last) = "number"
            /\ G!Kind(page, c.from + 1) = "sign"
  BY DEF G!Shaped
<1>5. G!Kind(page, c.from) \in {"number", "signed"} /\ G!Kind(page, c.last) \in {"number", "signed"}
  BY <1>4
<1> QED BY <1>1, <1>3, <1>4, <1>5

\* Two columns do not have the same result.
LEMMA ShapedOnce ==
    ASSUME GState, NEW n \in DOMAIN page, NEW c \in G!Shaped(page, n), NEW d \in G!Shaped(page, n)
    PROVE  c = d
<1>1. /\ c = [from |-> c.from, last |-> c.last, to |-> n]
      /\ c.from \in Nat /\ c.last \in Nat /\ n \in Nat
      /\ c.last = n - 1 \/ (c.last = n - 2 /\ G!Kind(page, n - 1) = "rule")
      /\ c.from = c.last - 1 \/ (c.from = c.last - 2 /\ G!Kind(page, c.from + 1) = "sign")
      /\ G!Kind(page, c.from) \in {"number", "signed"} /\ G!Kind(page, c.last) \in {"number", "signed"}
  BY ShapedIs
<1>2. /\ d = [from |-> d.from, last |-> d.last, to |-> n]
      /\ d.from \in Nat /\ d.last \in Nat
      /\ d.last = n - 1 \/ (d.last = n - 2 /\ G!Kind(page, n - 1) = "rule")
      /\ d.from = d.last - 1 \/ (d.from = d.last - 2 /\ G!Kind(page, d.from + 1) = "sign")
      /\ G!Kind(page, d.from) \in {"number", "signed"} /\ G!Kind(page, d.last) \in {"number", "signed"}
  BY ShapedIs
<1>3. c.last = d.last
  <2>1. CASE c.last = n - 1
    BY <1>1, <1>2, <2>1
  <2>2. CASE c.last = n - 2 /\ G!Kind(page, n - 1) = "rule"
    BY <1>1, <1>2, <2>2
  <2> QED BY <1>1, <2>1, <2>2
<1>4. c.from = d.from
  <2>1. (c.from + 1) - 1 = c.from /\ (d.from + 1) - 1 = d.from
    BY <1>1, <1>2
  <2>2. CASE c.from = c.last - 1
    <3>1. d.from = d.last - 2 => d.from + 1 = c.from
      BY <1>1, <1>2, <1>3, <2>2
    <3> QED BY <1>1, <1>2, <1>3, <2>2, <3>1
  <2>3. CASE c.from = c.last - 2 /\ G!Kind(page, c.from + 1) = "sign"
    <3>1. d.from = d.last - 1 => c.from + 1 = d.from
      BY <1>1, <1>2, <1>3, <2>3
    <3> QED BY <1>1, <1>2, <1>3, <2>3, <3>1
  <2> QED BY <1>1, <2>2, <2>3
<1> QED BY <1>1, <1>2, <1>3, <1>4

\* A fraction comes out of a column, and its result is the number of the line.
LEMMA ColumnNumbers ==
    ASSUME GState, NEW n \in DOMAIN page, NEW c \in G!Shaped(page, n)
    PROVE  /\ G!Worked(page, c) \in G!Fractions
           /\ page[n].column.number \in G!Fractions
           /\ page[n].form = "number" /\ page[n].values = <<page[n].column.number>>
<1>1. ASSUME NEW i \in DOMAIN page, page[i].column.kind \in {"number", "signed"}
      PROVE  page[i].column.number \in G!Fractions
  BY <1>1, LineIs DEF G!WellFormed
<1>2. page[n].column.kind = "number"
  BY ShapedIs DEF G!Kind
<1>3. page[n].form = "number" /\ page[n].values = <<page[n].column.number>>
  BY <1>2, LineIs DEF G!WellFormed
<1>4. c.from \in DOMAIN page /\ c.last \in DOMAIN page
  <2>1. Len(page) \in Nat /\ DOMAIN page = 1 .. Len(page) /\ n \in 1 .. Len(page)
    BY LineIs, LenProperties DEF GState
  <2>2. c.from \in 1 .. n /\ c.last \in 1 .. n
    BY DEF G!Shaped
  <2> QED BY <2>1, <2>2
<1>5. page[c.from].column.kind \in {"number", "signed"} /\ page[c.last].column.kind \in {"number", "signed"}
  BY ShapedIs DEF G!Kind
<1> DEFINE v == page[c.from].column.number
           w == page[c.last].column.number
<1>6. v \in G!Fractions /\ w \in G!Fractions
  BY <1>1, <1>4, <1>5
<1>7. /\ v[1] \in Int /\ v[2] \in Nat /\ v[2] # 0
      /\ w[1] \in Int /\ w[2] \in Nat /\ w[2] # 0
  BY <1>6 DEF G!Fractions
<1>8. G!Worked(page, c) =
        CASE G!Sign(page, c) = "plus" -> <<v[1] * w[2] + w[1] * v[2], v[2] * w[2]>>
          [] G!Sign(page, c) = "minus" -> <<v[1] * w[2] - w[1] * v[2], v[2] * w[2]>>
          [] OTHER -> <<v[1] * w[1], v[2] * w[2]>>
  BY DEF G!Worked
<1>9. \A x, y \in Nat : x # 0 /\ y # 0 => x * y \in Nat /\ x * y # 0
  OBVIOUS
<1> HIDE DEF v, w
<1>10. \E p \in Int : G!Worked(page, c) = <<p, v[2] * w[2]>>
  <2>1. v[1] * w[2] + w[1] * v[2] \in Int /\ v[1] * w[2] - w[1] * v[2] \in Int /\ v[1] * w[1] \in Int
    BY <1>7
  <2> QED BY <1>8, <2>1, Zenon
<1>11. v[2] * w[2] \in Nat \ {0}
  BY <1>7, <1>9
<1>12. G!Worked(page, c) \in G!Fractions
  BY <1>10, <1>11 DEF G!Fractions
<1> QED BY <1>1, <1>2, <1>3, <1>12

\* What the search has found down to line n: what it took is a column, and lies below what it took
\* before; and it passed nothing over that lies so.
Picked(S, n) ==
    /\ \A c \in S : /\ c.to \in 1 .. n /\ c \in G!Shaped(page, c.to) /\ G!IsColumn(page, c)
                    /\ \A d \in S : d.to < c.to => d.to < c.from
    /\ \A m \in 1 .. n : \A c \in G!Shaped(page, m) :
          G!IsColumn(page, c) /\ (\A d \in S : d.to < m => d.to < c.from) => c \in S

\* f[n] is what was found down to line n.
Fitting(S, n) == {c \in G!Shaped(page, n) : G!IsColumn(page, c) /\ \A d \in S : d.to < c.from}
IsFound(f, k) == f = [n \in 0 .. k |-> IF n = 0 THEN {} ELSE f[n - 1] \cup Fitting(f[n - 1], n)]

LEMMA FoundExists == ASSUME NEW k \in Nat PROVE \E f : IsFound(f, k)
<1> DEFINE Bad == {n \in Nat : ~\E f : IsFound(f, n)}
<1> SUFFICES ASSUME Bad # {} PROVE FALSE
  OBVIOUS
<1>1. PICK n \in Bad : \A m \in Bad : n <= m
  <2>1. Bad \subseteq Nat
    OBVIOUS
  <2> HIDE DEF Bad
  <2> QED BY <2>1, LeastNumber
<1>2. n \in Nat /\ ~\E f : IsFound(f, n)
  OBVIOUS
<1>3. CASE n = 0
  <2>1. IsFound([m \in 0..n |-> {}], n)
    BY <1>3 DEF IsFound
  <2> QED BY <1>2, <2>1
<1>4. CASE n # 0
  <2>1. n - 1 \in Nat /\ n - 1 \notin Bad
    BY <1>1, <1>2, <1>4
  <2>2. PICK g : IsFound(g, n - 1)
    BY <2>1
  <2> DEFINE f == [m \in 0..n |-> IF m = n THEN g[n - 1] \cup Fitting(g[n - 1], n) ELSE g[m]]
  <2>3. ASSUME NEW m \in 0..n
        PROVE  f[m] = IF m = 0 THEN {} ELSE f[m - 1] \cup Fitting(f[m - 1], m)
    <3>1. CASE m = n
      BY <1>4, <2>1, <3>1
    <3>2. CASE m # n
      <4>1. m \in 0..(n - 1) /\ (m # 0 => m - 1 \in 0..(n - 1) /\ m - 1 # n)
        BY <1>2, <3>2
      <4>2. g[m] = IF m = 0 THEN {} ELSE g[m - 1] \cup Fitting(g[m - 1], m)
        BY <2>2, <4>1 DEF IsFound
      <4>3. f[m] = g[m] /\ (m # 0 => f[m - 1] = g[m - 1])
        BY <1>2, <3>2, <4>1
      <4> HIDE DEF f
      <4> QED BY <4>2, <4>3
    <3> QED BY <3>1, <3>2
  <2>4. f = [m \in 0..n |-> f[m]]
    OBVIOUS
  <2> HIDE DEF f
  <2>5. IsFound(f, n)
    BY <2>3, <2>4 DEF IsFound
  <2> QED BY <1>2, <2>5
<1> QED BY <1>3, <1>4

Taken == G!ColumnResults(page)

LEMMA TakenIs == ASSUME GState PROVE Picked(Taken, Len(page))
<1>1. Len(page) \in Nat
  BY LenProperties DEF GState
<1> DEFINE f == CHOOSE g : g = [n \in 0 .. Len(page) |->
                   IF n = 0 THEN {}
                   ELSE LET above == g[n - 1]
                        IN above \cup {c \in G!Shaped(page, n) :
                                          G!IsColumn(page, c) /\ \A d \in above : d.to < c.from}]
<1>2. IsFound(f, Len(page))
  <2>1. \E g : g = [n \in 0 .. Len(page) |-> IF n = 0 THEN {} ELSE g[n - 1] \cup Fitting(g[n - 1], n)]
    BY <1>1, FoundExists DEF IsFound
  <2> QED BY <2>1 DEF IsFound, Fitting
<1>3. Taken = f[Len(page)]
  BY DEF G!ColumnResults, Taken
<1> HIDE DEF f
<1>4. f[0] = {} /\ \A n \in DOMAIN page : f[n] = f[n - 1] \cup Fitting(f[n - 1], n)
  <2>1. \A n \in 0 .. Len(page) : f[n] = IF n = 0 THEN {} ELSE f[n - 1] \cup Fitting(f[n - 1], n)
    BY <1>2 DEF IsFound
  <2>2. 0 \in 0 .. Len(page) /\ \A n \in DOMAIN page : n \in 0 .. Len(page) /\ n # 0
    <3>1. DOMAIN page = 1 .. Len(page)
      BY LenProperties DEF GState
    <3> QED BY <1>1, <3>1
  <2> QED BY <2>1, <2>2, Zenon
<1>5. \A n \in 0 .. Len(page) : Picked(f[n], n)
  <2> DEFINE S == {n \in 0 .. Len(page) : ~Picked(f[n], n)}
  <2> SUFFICES ASSUME S # {} PROVE FALSE
    OBVIOUS
  <2>1. Picked(f[0], 0)
    BY <1>4 DEF Picked
  <2>2. PICK n \in S : n \in DOMAIN page /\ n - 1 \in 0 .. Len(page) /\ \A m \in S : n <= m
    <3>1. S \subseteq 0 .. Len(page) /\ 0 \notin S
      BY <2>1
    <3> HIDE DEF S
    <3> QED BY <3>1, FirstLine
  <2>3. n \in Nat /\ n >= 1 /\ n \in 1 .. n
    BY <2>2, LineIs
  <2>4. PICK old : old = f[n - 1] /\ Picked(old, n - 1)
    <3>1. ~(n <= n - 1)
      BY <2>3
    <3> QED BY <2>2, <3>1
  <2>5. PICK new : new = Fitting(old, n) /\ f[n] = old \cup new
    BY <1>4, <2>2, <2>4
  <2>6. \A c \in old : /\ c.to \in 1 .. n - 1 /\ c \in G!Shaped(page, c.to) /\ G!IsColumn(page, c)
                       /\ \A d \in old : d.to < c.to => d.to < c.from
    BY <2>4 DEF Picked
  <2>7. \A c \in new : /\ c \in G!Shaped(page, n) /\ c.to = n /\ G!IsColumn(page, c)
                       /\ \A d \in old : d.to < c.from
    BY <2>2, <2>5, ShapedIs DEF Fitting
  <2>8. ASSUME NEW c \in old \cup new
        PROVE  /\ c.to \in 1 .. n /\ c \in G!Shaped(page, c.to) /\ G!IsColumn(page, c)
               /\ \A d \in old \cup new : d.to < c.to => d.to < c.from
    <3>1. CASE c \in old
      <4>1. c.to \in 1 .. n - 1
        BY <2>6, <3>1
      <4>2. \A d \in new : ~(d.to < c.to)
        BY <2>3, <2>7, <4>1
      <4> QED BY <2>3, <2>6, <3>1, <4>1, <4>2
    <3>2. CASE c \in new
      <4>1. \A d \in new : ~(d.to < c.to)
        BY <2>3, <2>7, <3>2
      <4> QED BY <2>3, <2>7, <3>2, <4>1
    <3> QED BY <3>1, <3>2
  <2>9. ASSUME NEW m \in 1 .. n, NEW c \in G!Shaped(page, m), G!IsColumn(page, c),
               \A d \in old \cup new : d.to < m => d.to < c.from
        PROVE  c \in old \cup new
    <3>1. CASE m = n
      <4>1. \A d \in old : d.to < m
        BY <2>3, <2>6, <3>1
      <4> QED BY <2>5, <2>9, <3>1, <4>1 DEF Fitting
    <3>2. CASE m # n
      <4>1. m \in 1 .. n - 1
        BY <2>3, <3>2
      <4> QED BY <2>4, <2>9, <4>1 DEF Picked
    <3> QED BY <3>1, <3>2
  <2>10. Picked(old \cup new, n)
    BY <2>8, <2>9 DEF Picked
  <2> QED BY <2>2, <2>5, <2>10
<1> QED BY <1>1, <1>3, <1>5

LEMMA TakenShape ==
    ASSUME GState, NEW c \in Taken
    PROVE  c.to \in DOMAIN page /\ c \in G!Shaped(page, c.to) /\ G!IsColumn(page, c)
<1>1. DOMAIN page = 1 .. Len(page)
  BY LenProperties DEF GState
<1> QED BY <1>1, TakenIs DEF Picked

\* What is taken does not overlap.
LEMMA TakenApart ==
    ASSUME GState, NEW c \in Taken, NEW d \in Taken, c.from < d.from
    PROVE  c.to < d.from
<1>1. /\ c.to \in DOMAIN page /\ c \in G!Shaped(page, c.to)
      /\ d.to \in DOMAIN page /\ d \in G!Shaped(page, d.to)
  BY TakenShape
<1>2. c.from \in Nat /\ c.to \in Nat /\ d.from \in Nat /\ d.to \in Nat /\ d.from <= d.to
  <2>1. c.from \in Nat /\ c.to \in Nat
    BY <1>1, ShapedIs
  <2>2. /\ d.from \in Nat /\ d.to \in Nat /\ d.last \in Nat
        /\ d.last = d.to - 1 \/ d.last = d.to - 2
        /\ d.from = d.last - 1 \/ d.from = d.last - 2
    BY <1>1, ShapedIs
  <2> QED BY <2>1, <2>2
<1>3. (c.to < d.to => c.to < d.from) /\ (d.to < c.to => d.to < c.from)
  BY TakenIs DEF Picked
<1>4. c.to # d.to
  <2> SUFFICES ASSUME c.to = d.to PROVE FALSE
    OBVIOUS
  <2>1. c = d
    BY <1>1, ShapedOnce
  <2> QED BY <1>2, <2>1
<1> QED BY <1>2, <1>3, <1>4

\* The child's own columns do not overlap.
LEMMA OwnApart ==
    ASSUME GState, NEW n \in DOMAIN page, NEW c \in G!Shaped(page, n), G!Own(c),
           NEW m \in DOMAIN page, NEW d \in G!Shaped(page, m), G!Own(d), d.from <= n, n <= m
    PROVE  n = m
<1>1. /\ c.to = n /\ c.from \in Nat /\ n \in Nat /\ c.last \in Nat
      /\ c.last = n - 1 \/ c.last = n - 2
      /\ c.from = c.last - 1 \/ c.from = c.last - 2
  BY ShapedIs
<1>2. d.to = m /\ d.from \in Nat /\ m \in Nat
  BY ShapedIs
<1>3. n \in c.from .. n /\ n \in d.from .. m /\ m \in d.from .. m
  BY <1>1, <1>2
<1>4. {i \in DOMAIN page : page[i].exercise = page[c.from].exercise} = c.from .. n
  BY <1>1 DEF G!Own
<1>5. {i \in DOMAIN page : page[i].exercise = page[d.from].exercise} = d.from .. m
  BY <1>2 DEF G!Own
<1>6. page[n].exercise = page[c.from].exercise /\ page[n].exercise = page[d.from].exercise
      /\ page[m].exercise = page[d.from].exercise
  BY <1>3, <1>4, <1>5
<1>7. m \in c.from .. n
  BY <1>4, <1>6
<1> QED BY <1>1, <1>2, <1>7

\* A clear column is found: what would stand in its way begins inside another clear column.
LEMMA ClearIsTaken ==
    ASSUME GState, G!ColumnsStandOut, NEW n \in DOMAIN page, NEW c \in G!Shaped(page, n), G!Clear(c)
    PROVE  c \in Taken
<1> DEFINE Missed(m) == \E d \in G!Shaped(page, m) : G!Clear(d) /\ d \notin Taken
           S == {m \in 0 .. Len(page) : m \in DOMAIN page /\ Missed(m)}
<1>1. DOMAIN page = 1 .. Len(page) /\ Len(page) \in Nat
  BY LenProperties DEF GState
<1> SUFFICES ASSUME S # {} PROVE FALSE
  BY <1>1
<1>2. PICK m \in S : m \in DOMAIN page /\ \A k \in S : m <= k
  <2>1. S \subseteq 0 .. Len(page) /\ 0 \notin S
    BY <1>1
  <2> HIDE DEF S
  <2> QED BY <2>1, FirstLine
<1>3. PICK d \in G!Shaped(page, m) : G!Clear(d) /\ d \notin Taken
  BY <1>2
<1>4. \A k \in DOMAIN page : k < m => ~Missed(k)
  BY <1>1, <1>2
<1> HIDE DEF S
<1>5. PICK e \in Taken : e.to < m /\ ~(e.to < d.from)
  <2>1. G!IsColumn(page, d)
    BY <1>3 DEF G!Clear, G!IsColumn
  <2>2. \A g \in G!Shaped(page, m) :
          G!IsColumn(page, g) /\ (\A h \in Taken : h.to < m => h.to < g.from) => g \in Taken
    BY <1>1, <1>2, TakenIs DEF Picked
  <2> QED BY <1>3, <2>1, <2>2
<1>6. e.to \in DOMAIN page /\ e \in G!Shaped(page, e.to) /\ G!IsColumn(page, e)
  BY TakenShape
<1>7. /\ d.from \in Nat /\ d.last \in Nat /\ m \in Nat
      /\ d.last = m - 1 \/ d.last = m - 2
      /\ d.from = d.last - 1 \/ (d.from = d.last - 2 /\ G!Kind(page, d.from + 1) = "sign")
  BY <1>2, <1>3, ShapedIs
<1>8. /\ e.from \in Nat /\ e.last \in Nat /\ e.to \in Nat
      /\ e.last = e.to - 1 \/ e.last = e.to - 2
      /\ e.from = e.last - 1 \/ e.from = e.last - 2
      /\ G!Kind(page, e.from) \in {"number", "signed"}
  BY <1>6, ShapedIs
<1>9. ~G!Own(e)
  <2> SUFFICES ASSUME G!Own(e) PROVE FALSE
    OBVIOUS
  <2>1. G!Own(d)
    BY <1>3 DEF G!Clear
  <2>2. d.from <= e.to /\ e.to <= m
    BY <1>5, <1>7, <1>8
  <2>3. e.to = m
    BY <1>2, <1>3, <1>6, <2>1, <2>2, OwnApart
  <2> QED BY <1>5, <1>7, <2>3
<1>10. PICK k \in DOMAIN page : \E g \in G!Shaped(page, k) : G!Clear(g) /\ g.from < e.from /\ e.from <= g.to
  BY <1>6, <1>9 DEF G!ColumnsStandOut, G!IsColumn
<1>11. PICK g \in G!Shaped(page, k) : G!Clear(g) /\ g.from < e.from /\ e.from <= g.to
  BY <1>10
<1>12. g.to = k /\ g.from \in Nat /\ k \in Nat
  BY ShapedIs
<1>13. CASE k < m
  <2>1. g \in Taken
    BY <1>4, <1>11, <1>13
  <2>2. g.to < e.from
    BY <1>11, <2>1, TakenApart
  <2> QED BY <1>8, <1>11, <1>12, <2>2
<1>14. CASE ~(k < m)
  <2>1. m = k
    <3>1. G!Own(d) /\ G!Own(g)
      BY <1>3, <1>11 DEF G!Clear
    <3>2. g.from <= m /\ m <= k
      BY <1>5, <1>7, <1>8, <1>11, <1>12, <1>14
    <3> QED BY <1>2, <1>3, <3>1, <3>2, OwnApart
  <2>2. g = d
    BY <1>2, <1>3, <2>1, ShapedOnce
  <2>3. d.from < e.from /\ e.to < m
    BY <1>5, <1>11, <2>2
  <2>4. e.from = d.from + 1 /\ d.from = d.last - 2
    BY <1>7, <1>8, <2>3
  <2>5. G!Kind(page, d.from + 1) = "sign"
    BY <1>7, <2>4
  <2> QED BY <1>8, <2>4, <2>5
<1> QED BY <1>7, <1>12, <1>13, <1>14

\* What stands like a column and is none is not taken for one.
LEMMA TakenAreOwn ==
    ASSUME GState, G!ColumnsStandOut, NEW c \in Taken
    PROVE  G!Own(c)
<1> SUFFICES ASSUME ~G!Own(c) PROVE FALSE
  OBVIOUS
<1>1. c.to \in DOMAIN page /\ c \in G!Shaped(page, c.to) /\ G!IsColumn(page, c)
  BY TakenShape
<1>2. PICK k \in DOMAIN page : \E g \in G!Shaped(page, k) : G!Clear(g) /\ g.from < c.from /\ c.from <= g.to
  BY <1>1 DEF G!ColumnsStandOut, G!IsColumn
<1>3. PICK g \in G!Shaped(page, k) : G!Clear(g) /\ g.from < c.from /\ c.from <= g.to
  BY <1>2
<1>4. g \in Taken
  BY <1>3, ClearIsTaken
<1>5. g.to < c.from
  BY <1>3, <1>4, TakenApart
<1>6. g.to \in Nat /\ c.from \in Nat
  BY <1>1, ShapedIs
<1> QED BY <1>3, <1>5, <1>6

\* What a column makes of line n: what was worked out above it, if the line is a result.
FromColumn(n) == G!ColumnValue(page, n)

LEMMA ResultIs ==
    ASSUME GState, NEW n \in DOMAIN page
    PROVE  /\ \A c \in Taken : c.to = n => FromColumn(n) = G!Worked(page, c)
           /\ FromColumn(n) # G!NoValue =>
                 \E c \in G!Shaped(page, n) : c \in Taken /\ FromColumn(n) = G!Worked(page, c)
<1> DEFINE ending == {c \in Taken : c.to = n}
           d == CHOOSE c \in ending : TRUE
<1>1. FromColumn(n) = IF ending = {} THEN G!NoValue ELSE G!Worked(page, d)
  BY DEF FromColumn, G!ColumnValue, Taken
<1>2. \A c \in ending : c \in Taken /\ c \in G!Shaped(page, n)
  BY TakenShape
<1>3. ending # {} => d \in ending
  OBVIOUS
<1> HIDE DEF d
<1>4. ASSUME NEW c \in Taken, c.to = n PROVE FromColumn(n) = G!Worked(page, c)
  <2>1. c \in ending
    BY <1>4
  <2>2. c = d
    BY <1>2, <1>3, <2>1, ShapedOnce
  <2> QED BY <1>1, <2>1, <2>2
<1>5. ASSUME FromColumn(n) # G!NoValue
      PROVE  \E c \in G!Shaped(page, n) : c \in Taken /\ FromColumn(n) = G!Worked(page, c)
  <2>1. ending # {}
    BY <1>1, <1>5
  <2> QED BY <1>1, <1>2, <1>3, <2>1
<1> QED BY <1>4, <1>5

\* Only a number alone is the result of a column.
LEMMA ResultForm ==
    ASSUME GState, NEW n \in DOMAIN page, FromColumn(n) # G!NoValue
    PROVE  /\ page[n].form = "number" /\ FromColumn(n) \in G!Fractions
           /\ page[n].column.number \in G!Fractions /\ page[n].values = <<page[n].column.number>>
<1>1. PICK c \in G!Shaped(page, n) : FromColumn(n) = G!Worked(page, c)
  BY ResultIs
<1> QED BY <1>1, ColumnNumbers

-----------------------------------------------------------------------------
(* What reaches a line from those above it.                                *)

\* What is carried from line to line: before the first one, and after each of the first k.
Start == [check |-> G!Check("skipped", <<>>), tail |-> G!NoValue, chain |-> G!NoChain]
IsAfter(f, k, written, worked) ==
    f = [n \in 0..k |-> IF n = 0 THEN Start ELSE G!CheckLine(f[n - 1], written[n], worked[n])]

LEMMA AfterExists ==
    ASSUME NEW written, NEW worked, NEW k \in Nat
    PROVE  \E f : IsAfter(f, k, written, worked)
<1> DEFINE Bad == {n \in Nat : ~\E f : IsAfter(f, n, written, worked)}
<1> SUFFICES ASSUME Bad # {} PROVE FALSE
  OBVIOUS
<1>1. PICK n \in Bad : \A m \in Bad : n <= m
  <2>1. Bad \subseteq Nat
    OBVIOUS
  <2> HIDE DEF Bad
  <2> QED BY <2>1, LeastNumber
<1>2. n \in Nat /\ ~\E f : IsAfter(f, n, written, worked)
  OBVIOUS
<1>3. CASE n = 0
  <2>1. IsAfter([m \in 0..n |-> Start], n, written, worked)
    BY <1>3 DEF IsAfter
  <2> QED BY <1>2, <2>1
<1>4. CASE n # 0
  <2>1. n - 1 \in Nat /\ n - 1 \notin Bad
    BY <1>1, <1>2, <1>4
  <2>2. PICK g : IsAfter(g, n - 1, written, worked)
    BY <2>1
  <2> DEFINE f == [m \in 0..n |-> IF m = n THEN G!CheckLine(g[n - 1], written[n], worked[n]) ELSE g[m]]
  <2>3. ASSUME NEW m \in 0..n
        PROVE  f[m] = IF m = 0 THEN Start ELSE G!CheckLine(f[m - 1], written[m], worked[m])
    <3>1. CASE m = n
      BY <1>4, <2>1, <3>1
    <3>2. CASE m # n
      <4>1. m \in 0..(n - 1) /\ (m # 0 => m - 1 \in 0..(n - 1) /\ m - 1 # n)
        BY <1>2, <3>2
      <4>2. g[m] = IF m = 0 THEN Start ELSE G!CheckLine(g[m - 1], written[m], worked[m])
        BY <2>2, <4>1 DEF IsAfter
      <4>3. f[m] = g[m] /\ (m # 0 => f[m - 1] = g[m - 1])
        BY <1>2, <3>2, <4>1
      <4> HIDE DEF f
      <4> QED BY <4>2, <4>3
    <3> QED BY <3>1, <3>2
  <2>4. f = [m \in 0..n |-> f[m]]
    OBVIOUS
  <2> HIDE DEF f
  <2>5. IsAfter(f, n, written, worked)
    BY <2>3, <2>4 DEF IsAfter
  <2> QED BY <1>2, <2>5
<1> QED BY <1>3, <1>4

\* f[n] is what the checker has after line n of the page.
Columns == [n \in DOMAIN page |-> FromColumn(n)]
Steps(f) == IsAfter(f, Len(page), page, Columns)

LEMMA StepsAre ==
    ASSUME GState
    PROVE  \E f : Steps(f) /\ G!CheckSteps(page) = [n \in DOMAIN page |-> f[n].check]
<1> DEFINE worked == [n \in DOMAIN page |-> G!ColumnValue(page, n)]
           f == CHOOSE g : g = [n \in 0..Len(page) |->
                   IF n = 0 THEN Start ELSE G!CheckLine(g[n - 1], page[n], worked[n])]
<1>1. Len(page) \in Nat
  BY LenProperties DEF GState
<1>2. f = [n \in 0..Len(page) |-> IF n = 0 THEN Start ELSE G!CheckLine(f[n - 1], page[n], worked[n])]
  <2> HIDE DEF worked
  <2>1. \E g : g = [n \in 0..Len(page) |-> IF n = 0 THEN Start ELSE G!CheckLine(g[n - 1], page[n], worked[n])]
    <3>1. \E g : IsAfter(g, Len(page), page, worked)
      BY <1>1, AfterExists, Zenon
    <3> QED BY <3>1 DEF IsAfter
  <2> QED BY <2>1
<1>3. G!CheckSteps(page) = [n \in DOMAIN page |-> f[n].check]
  BY DEF G!CheckSteps, Start
<1>4. worked = Columns
  BY DEF Columns, FromColumn
<1> HIDE DEF f, worked
<1>5. Steps(f)
  BY <1>2, <1>4 DEF Steps, IsAfter
<1> QED BY <1>3, <1>5

\* Line n has a value for the next one to go on from.
Valued(n) == page[n].form \in {"number", "example", "equality"} \/ G!GoesOn(n)

LEMMA GoesOnStep ==
    ASSUME GState, NEW n \in DOMAIN page
    PROVE  G!GoesOn(n) <=> page[n].form = "continued" /\ n > 1 /\ Valued(n - 1)
<1>1. n \in Nat /\ n >= 1
  BY LineIs
<1>2. ASSUME G!GoesOn(n) PROVE n > 1 /\ Valued(n - 1)
  <2>1. PICK j \in 1 .. n - 1 : /\ page[j].form \in {"number", "example", "equality"}
                                /\ \A k \in j + 1 .. n - 1 : page[k].form = "continued"
    BY <1>2 DEF G!GoesOn
  <2>2. CASE j = n - 1
    BY <1>1, <2>1, <2>2 DEF Valued
  <2>3. CASE j # n - 1
    <3>1. j \in 1 .. (n - 1) - 1 /\ n - 1 \in j + 1 .. n - 1 /\ j + 1 .. (n - 1) - 1 \subseteq j + 1 .. n - 1
      BY <1>1, <2>1, <2>3
    <3>2. G!GoesOn(n - 1)
      BY <2>1, <3>1 DEF G!GoesOn
    <3> QED BY <1>1, <2>1, <3>2 DEF Valued
  <2> QED BY <2>2, <2>3
<1>3. ASSUME page[n].form = "continued", n > 1, Valued(n - 1) PROVE G!GoesOn(n)
  <2>1. CASE page[n - 1].form \in {"number", "example", "equality"}
    <3>1. n - 1 \in 1 .. n - 1 /\ \A k \in (n - 1) + 1 .. n - 1 : FALSE
      BY <1>1, <1>3
    <3> QED BY <1>3, <2>1, <3>1 DEF G!GoesOn
  <2>2. CASE G!GoesOn(n - 1)
    <3>1. PICK j \in 1 .. (n - 1) - 1 : /\ page[j].form \in {"number", "example", "equality"}
                                        /\ \A k \in j + 1 .. (n - 1) - 1 : page[k].form = "continued"
      BY <2>2 DEF G!GoesOn
    <3>2. \A k \in j + 1 .. n - 1 : k = n - 1 \/ k \in j + 1 .. (n - 1) - 1
      BY <1>1
    <3>3. page[n - 1].form = "continued"
      BY <2>2 DEF G!GoesOn
    <3>4. j \in 1 .. n - 1
      BY <1>1
    <3> QED BY <1>3, <3>1, <3>2, <3>3, <3>4 DEF G!GoesOn
  <2> QED BY <1>3, <2>1, <2>2 DEF Valued
<1>4. G!GoesOn(n) => page[n].form = "continued"
  BY DEF G!GoesOn
<1> QED BY <1>2, <1>3, <1>4

\* The values that line n is recalculated from.
Written(n) == IF page[n].form = "continued" THEN <<G!Last(page[n - 1].values)>> \o page[n].values
              ELSE page[n].values
Values(n) == G!Reread(Written(n), page[n])

LEMMA ValuedLast ==
    ASSUME GState, NEW n \in DOMAIN page, Valued(n)
    PROVE  G!Last(page[n].values) \in G!Fractions /\ G!Last(page[n].values) # G!NoValue
<1>1. G!WellFormed(page[n])
  BY LineIs
<1>2. page[n].values \in Seq(G!Fractions) /\ Len(page[n].values) >= 1
  BY <1>1 DEF G!WellFormed, Valued, G!GoesOn
<1>3. Len(page[n].values) \in 1 .. Len(page[n].values)
  BY <1>2, LenProperties
<1>4. G!Last(page[n].values) \in G!Fractions
  BY <1>2, <1>3, ElementOfSeq DEF G!Last
<1> QED BY <1>4 DEF G!Fractions, G!NoValue

LEMMA SameTail ==
    ASSUME NEW u \in Seq(G!Fractions), NEW v \in Seq(G!Fractions), u # <<>>, Len(v) >= 2, Tail(u) = Tail(v)
    PROVE  Len(u) >= 2 /\ G!Last(u) = G!Last(v)
<1>1. Len(u) \in Nat /\ Len(v) \in Nat /\ Len(u) # 0
  BY LenProperties, EmptySeq
<1>2. v # <<>>
  BY EmptySeq
<1>3. Len(Tail(u)) = Len(u) - 1 /\ Len(Tail(v)) = Len(v) - 1
  BY <1>1, <1>2, HeadTailProperties
<1>4. Len(u) = Len(v)
  BY <1>1, <1>3
<1>5. /\ \A k \in 1 .. Len(u) - 1 : Tail(u)[k] = u[k + 1]
      /\ \A k \in 1 .. Len(v) - 1 : Tail(v)[k] = v[k + 1]
  BY <1>1, <1>2, HeadTailProperties
<1>6. Len(u) - 1 \in 1 .. Len(u) - 1 /\ (Len(u) - 1) + 1 = Len(u)
  BY <1>1, <1>4
<1> QED BY <1>4, <1>5, <1>6 DEF G!Last

LEMMA ValuesAre ==
    ASSUME GState, NEW n \in DOMAIN page, page[n].form = "equality" \/ G!GoesOn(n)
    PROVE  /\ Values(n) \in Seq(G!Fractions) /\ Len(Values(n)) >= 2
           /\ G!Last(Values(n)) = G!Last(page[n].values)
           /\ G!AllSame(Values(n)) = G!Holds(n)
           /\ ~G!Holds(n) /\ page[n].form = "equality" => Values(n) = page[n].values
<1> DEFINE line == page[n]
           v == Written(n)
<1>1. G!WellFormed(line) /\ n \in Nat
  BY LineIs
<1>2. line.values \in Seq(G!Fractions) /\ line.reread \in Seq(G!Fractions)
  BY <1>1 DEF G!WellFormed
<1>3. /\ v \in Seq(G!Fractions) /\ Len(v) >= 2 /\ G!Last(v) = G!Last(line.values)
      /\ line.reread # <<>> => Tail(line.reread) = Tail(v)
      /\ v = (IF G!GoesOn(n) THEN <<G!Last(page[n - 1].values)>> ELSE <<>>) \o line.values
  <2>1. CASE line.form = "equality"
    <3>1. v = line.values /\ ~G!GoesOn(n)
      BY <2>1 DEF Written, G!GoesOn
    <3>2. <<>> \o line.values = line.values
      BY <1>2, ConcatEmptySeq
    <3>3. Len(line.values) >= 2 /\ (line.reread # <<>> => Tail(line.reread) = Tail(line.values))
      BY <1>1, <2>1, SMTT(60) DEF G!WellFormed
    <3> HIDE DEF v, line
    <3> QED BY <1>2, <3>1, <3>2, <3>3
  <2>2. CASE G!GoesOn(n)
    <3>1. line.form = "continued" /\ n > 1 /\ Valued(n - 1)
      BY <2>2, GoesOnStep
    <3>2. n - 1 \in DOMAIN page
      <4>1. page \in Seq(given.lines) /\ n \in 1 .. Len(page)
        BY LineIs DEF GState
      <4>2. Len(page) \in Nat /\ DOMAIN page = 1 .. Len(page)
        BY <4>1, LenProperties
      <4> QED BY <3>1, <4>1, <4>2
    <3>3. PICK t \in G!Fractions : t = G!Last(page[n - 1].values)
      BY <3>1, <3>2, ValuedLast
    <3>4. v = <<t>> \o line.values
      BY <3>1, <3>3 DEF Written
    <3>5. Len(line.values) >= 1 /\ (line.reread # <<>> => Tail(line.reread) = line.values)
      BY <1>1, <3>1 DEF G!WellFormed
    <3> HIDE DEF v, line
    <3>6. <<t>> \in Seq(G!Fractions) /\ Len(<<t>>) = 1
      OBVIOUS
    <3>7. /\ v \in Seq(G!Fractions) /\ Len(v) = 1 + Len(line.values) /\ Len(line.values) \in Nat
          /\ \A k \in 1 .. 1 + Len(line.values) : v[k] = IF k <= 1 THEN <<t>>[k] ELSE line.values[k - 1]
      BY <1>2, <3>4, <3>6, ConcatProperties, LenProperties
    <3>8. Len(v) >= 2 /\ v[Len(v)] = line.values[Len(line.values)]
      BY <3>5, <3>7
    <3>9. Tail(v) = line.values
      <4>1. v # <<>>
        BY <3>7, <3>8, EmptySeq
      <4>2. Tail(v) \in Seq(G!Fractions) /\ Len(Tail(v)) = Len(line.values)
        BY <3>7, <4>1, HeadTailProperties
      <4>3. \A k \in 1 .. Len(line.values) : Tail(v)[k] = line.values[k]
        <5>1. \A k \in 1 .. Len(v) - 1 : Tail(v)[k] = v[k + 1]
          BY <3>7, <4>1, HeadTailProperties
        <5> QED BY <3>7, <5>1
      <4> QED BY <1>2, <4>2, <4>3, SeqEqual
    <3> QED BY <2>2, <3>3, <3>4, <3>5, <3>7, <3>8, <3>9 DEF G!Last
  <2> QED BY <2>1, <2>2
<1>4. G!Holds(n) = (G!AllSame(v) \/ (line.reread # <<>> /\ G!AllSame(line.reread)))
  <2>1. G!Holds(n) = (G!AllSame((IF G!GoesOn(n) THEN <<G!Last(page[n - 1].values)>> ELSE <<>>) \o line.values)
                      \/ (line.reread # <<>> /\ G!AllSame(line.reread)))
    <3>1. (line.form = "equality" \/ G!GoesOn(n)) /\ ~G!Algebraic(line)
      BY DEF G!Algebraic, G!GoesOn
    <3> QED BY <3>1 DEF G!Holds
  <2> HIDE DEF v, line
  <2> QED BY <1>3, <2>1
<1>5. line.form = "equality" => v = line.values
  BY DEF Written
<1>6. Values(n) = IF ~G!AllSame(v) /\ line.reread # <<>> /\ G!AllSame(line.reread) THEN line.reread ELSE v
  BY DEF Values, G!Reread
<1> HIDE DEF v
<1>7. line.reread # <<>> => Len(line.reread) >= 2 /\ G!Last(line.reread) = G!Last(v)
  BY <1>2, <1>3, SameTail
<1>8. G!AllSame(v) \in BOOLEAN /\ G!AllSame(line.reread) \in BOOLEAN
  BY DEF G!AllSame
<1> HIDE DEF line
<1>9. CASE ~G!AllSame(v) /\ line.reread # <<>> /\ G!AllSame(line.reread)
  <2>1. Values(n) = line.reread /\ G!Holds(n) = TRUE /\ G!AllSame(line.reread) = TRUE
    BY <1>4, <1>6, <1>8, <1>9
  <2>2. G!AllSame(Values(n)) = G!Holds(n)
    BY <2>1
  <2>3. Len(Values(n)) >= 2 /\ G!Last(Values(n)) = G!Last(line.values)
    BY <1>3, <1>7, <1>9, <2>1
  <2>4. Values(n) \in Seq(G!Fractions)
    BY <1>2, <2>1
  <2>5. ~(~G!Holds(n))
    BY <2>1
  <2> QED BY <2>2, <2>3, <2>4, <2>5 DEF line
<1>10. CASE ~(~G!AllSame(v) /\ line.reread # <<>> /\ G!AllSame(line.reread))
  <2>1. Values(n) = v /\ G!Holds(n) = G!AllSame(v)
    BY <1>4, <1>6, <1>8, <1>10
  <2> QED BY <1>3, <1>5, <2>1 DEF line
<1> QED BY <1>9, <1>10

LEMMA StepIs ==
    ASSUME GState, NEW f, Steps(f)
    PROVE  /\ f[0] = Start
           /\ \A n \in DOMAIN page : f[n] = G!CheckLine(f[n - 1], page[n], FromColumn(n))
<1>1. Len(page) \in Nat /\ DOMAIN page = 1 .. Len(page)
  BY LenProperties DEF GState
<1>2. \A n \in 0 .. Len(page) : f[n] = IF n = 0 THEN Start ELSE G!CheckLine(f[n - 1], page[n], Columns[n])
  BY DEF Steps, IsAfter
<1>3. \A n \in DOMAIN page : n \in 0 .. Len(page) /\ n # 0 /\ Columns[n] = FromColumn(n)
  BY <1>1 DEF Columns
<1>4. 0 \in 0 .. Len(page)
  BY <1>1
<1> QED BY <1>2, <1>3, <1>4, Zenon

\* What the line after n would go on from.
Goes(f, n) == f[n].tail = IF n # 0 /\ Valued(n) THEN G!Last(page[n].values) ELSE G!NoValue

LEMMA FormsDiffer ==
    ASSUME NEW n
    PROVE  /\ G!GoesOn(n) => page[n].form = "continued"
           /\ G!Algebraic(page[n]) <=> page[n].form \in {"equation", "assignment", "answer"}
BY DEF G!GoesOn, G!Algebraic

LEMMA PairIs ==
    ASSUME NEW S, NEW u \in S, NEW v \in S
    PROVE  <<u>> \o <<v>> = <<u, v>>
<1>1. /\ <<u>> \in Seq(S) /\ <<v>> \in Seq(S) /\ <<u, v>> \in Seq(S)
      /\ Len(<<u>>) = 1 /\ Len(<<v>>) = 1 /\ Len(<<u, v>>) = 2
  OBVIOUS
<1>2. /\ <<u>> \o <<v>> \in Seq(S) /\ Len(<<u>> \o <<v>>) = 2
      /\ \A k \in 1 .. 2 : (<<u>> \o <<v>>)[k] = IF k <= 1 THEN <<u>>[k] ELSE <<v>>[k - 1]
  BY <1>1, ConcatProperties
<1>3. \A k \in 1 .. 2 : (<<u>> \o <<v>>)[k] = <<u, v>>[k]
  BY <1>2
<1> QED BY <1>1, <1>2, <1>3, SeqEqual

\* Nothing is recalculated in line n.
Unread(n) ==
    /\ ~G!Algebraic(page[n]) /\ page[n].form # "equality" /\ ~G!GoesOn(n)
    /\ FromColumn(n) = G!NoValue

\* What a line is recalculated from, and what is found.
LEMMA RecalculatedIs ==
    ASSUME GState, NEW f, Steps(f), NEW n \in DOMAIN page, Goes(f, n - 1)
    PROVE  /\ (page[n].form = "continued" /\ f[n - 1].tail # G!NoValue) <=> G!GoesOn(n)
           /\ page[n].form = "equality" \/ G!GoesOn(n) =>
                 f[n] = [check |-> G!Check(IF G!AllSame(Values(n)) THEN "ok" ELSE "mismatch", Values(n)),
                         tail |-> G!Last(Values(n)), chain |-> f[n - 1].chain]
           /\ G!Algebraic(page[n]) =>
                 f[n] = [check |-> G!CheckEquation(page[n], f[n - 1].chain).check, tail |-> G!NoValue,
                         chain |-> G!CheckEquation(page[n], f[n - 1].chain).chain]
           /\ FromColumn(n) # G!NoValue =>
                 LET v == <<FromColumn(n), page[n].column.number>>
                 IN f[n] = [check |-> G!Check(IF G!AllSame(v) THEN "ok" ELSE "mismatch", v),
                            tail |-> page[n].column.number, chain |-> f[n - 1].chain]
           /\ Unread(n) =>
                 f[n] = [check |-> G!Check("skipped", <<>>),
                         tail |-> IF page[n].form \in {"number", "example"} THEN page[n].values[1]
                                  ELSE G!NoValue,
                         chain |-> f[n - 1].chain]
<1>1. n \in Nat /\ n >= 1 /\ n \in 1 .. Len(page) /\ Len(page) \in Nat
  BY LineIs
<1>2. (page[n].form = "continued" /\ f[n - 1].tail # G!NoValue) <=> G!GoesOn(n)
  <2>1. CASE n = 1
    <3>1. f[n - 1].tail = G!NoValue
      BY <2>1 DEF Goes
    <3> QED BY <2>1, <3>1, GoesOnStep
  <2>2. CASE n # 1
    <3>1. n - 1 \in DOMAIN page /\ n - 1 # 0 /\ n > 1
      BY <1>1, <2>2, LenProperties DEF GState
    <3>2. CASE Valued(n - 1)
      <4>1. f[n - 1].tail # G!NoValue
        BY <3>1, <3>2, ValuedLast DEF Goes
      <4> QED BY <3>1, <3>2, <4>1, GoesOnStep
    <3>3. CASE ~Valued(n - 1)
      <4>1. f[n - 1].tail = G!NoValue
        BY <3>3 DEF Goes
      <4> QED BY <3>1, <3>3, <4>1, GoesOnStep
    <3> QED BY <3>2, <3>3
  <2> QED BY <2>1, <2>2
<1>3. G!GoesOn(n) => f[n - 1].tail = G!Last(page[n - 1].values)
  <2>1. G!GoesOn(n) => n > 1 /\ Valued(n - 1)
    BY GoesOnStep
  <2> QED BY <1>1, <2>1 DEF Goes
<1>4. page[n].form = "equality" \/ G!GoesOn(n) =>
        Values(n) = G!Reread(IF page[n].form = "continued" THEN <<f[n - 1].tail>> \o page[n].values
                             ELSE page[n].values, page[n])
  BY <1>3, FormsDiffer DEF Values, Written
<1>5. f[n] = G!CheckLine(f[n - 1], page[n], FromColumn(n))
  BY StepIs
<1>6. CASE page[n].form = "equality" \/ G!GoesOn(n)
  <2>1. ~G!Algebraic(page[n]) /\ (page[n].form = "equality" \/ (page[n].form = "continued" /\ f[n - 1].tail # G!NoValue))
    BY <1>2, <1>6, FormsDiffer
  <2>2. FromColumn(n) = G!NoValue
    BY <1>6, FormsDiffer, ResultForm
  <2>3. f[n] = [check |-> G!Check(IF G!AllSame(Values(n)) THEN "ok" ELSE "mismatch", Values(n)),
                tail |-> G!Last(Values(n)), chain |-> f[n - 1].chain]
    BY <1>4, <1>5, <1>6, <2>1, <2>2 DEF G!CheckLine
  <2> QED BY <1>2, <1>6, <2>1, <2>2, <2>3 DEF Unread
<1>7. CASE G!Algebraic(page[n])
  <2>1. page[n].form # "equality" /\ ~G!GoesOn(n)
    BY <1>7, FormsDiffer
  <2>2. ~(page[n].form = "continued" /\ f[n - 1].tail # G!NoValue)
    BY <1>2, <2>1
  <2>3. FromColumn(n) = G!NoValue
    BY <1>7, FormsDiffer, ResultForm
  <2>4. f[n] = [check |-> G!CheckEquation(page[n], f[n - 1].chain).check, tail |-> G!NoValue,
                chain |-> G!CheckEquation(page[n], f[n - 1].chain).chain]
    BY <1>5, <1>7, <2>1, <2>2, <2>3 DEF G!CheckLine
  <2> QED BY <1>2, <1>7, <2>1, <2>3, <2>4 DEF Unread
<1>8. CASE FromColumn(n) # G!NoValue
  <2>1. page[n].form = "number" /\ page[n].values = <<page[n].column.number>>
    BY <1>8, ResultForm
  <2> DEFINE v == <<FromColumn(n), page[n].column.number>>
  <2>2. <<FromColumn(n)>> \o page[n].values = v /\ G!Last(v) = page[n].column.number
    <3>1. FromColumn(n) \in G!Fractions /\ page[n].column.number \in G!Fractions
      BY <1>8, ResultForm
    <3>2. Len(v) = 2 /\ v[2] = page[n].column.number
      OBVIOUS
    <3> QED BY <2>1, <3>1, <3>2, PairIs DEF G!Last
  <2> HIDE DEF v
  <2>3. f[n] = [check |-> G!Check(IF G!AllSame(v) THEN "ok" ELSE "mismatch", v),
                tail |-> page[n].column.number, chain |-> f[n - 1].chain]
    BY <1>5, <1>8, <2>2 DEF G!CheckLine
  <2>4. page[n].form # "equality" /\ ~G!GoesOn(n) /\ ~G!Algebraic(page[n])
    BY <2>1, FormsDiffer
  <2> QED BY <1>2, <1>8, <2>3, <2>4 DEF Unread, v
<1>9. CASE Unread(n)
  <2>1. ~(page[n].form = "continued" /\ f[n - 1].tail # G!NoValue)
    BY <1>2, <1>9 DEF Unread
  <2>2. f[n] = [check |-> G!Check("skipped", <<>>),
                tail |-> IF page[n].form \in {"number", "example"} THEN page[n].values[1] ELSE G!NoValue,
                chain |-> f[n - 1].chain]
    BY <1>5, <1>9, <2>1 DEF G!CheckLine, Unread
  <2> QED BY <1>2, <1>9, <2>2 DEF Unread
<1> QED BY <1>6, <1>7, <1>8, <1>9 DEF Unread

LEMMA TailIs ==
    ASSUME GState, NEW f, Steps(f), NEW n \in 0 .. Len(page)
    PROVE  Goes(f, n)
<1> DEFINE S == {m \in 0 .. Len(page) : ~Goes(f, m)}
<1> SUFFICES ASSUME S # {} PROVE FALSE
  OBVIOUS
<1>1. 0 \notin S
  BY StepIs DEF Goes, Start
<1>2. PICK m \in S : m \in DOMAIN page /\ m - 1 \in 0 .. Len(page) /\ \A k \in S : m <= k
  <2>1. S \subseteq 0 .. Len(page)
    OBVIOUS
  <2> HIDE DEF S
  <2> QED BY <1>1, <2>1, FirstLine
<1>3. Goes(f, m - 1) /\ ~Goes(f, m)
  <2>1. ~(m <= m - 1)
    BY <1>2
  <2> QED BY <1>2, <2>1
<1>4. m # 0
  BY <1>1
<1>5. CASE page[m].form = "equality" \/ G!GoesOn(m)
  <2>1. Valued(m)
    BY <1>5 DEF Valued
  <2>2. G!Last(Values(m)) = G!Last(page[m].values)
    BY <1>2, <1>5, ValuesAre
  <2>3. f[m].tail = G!Last(Values(m))
    <3>1. f[m] = [check |-> G!Check(IF G!AllSame(Values(m)) THEN "ok" ELSE "mismatch", Values(m)),
                  tail |-> G!Last(Values(m)), chain |-> f[m - 1].chain]
      BY <1>2, <1>3, <1>5, RecalculatedIs, Zenon
    <3> QED BY <3>1
  <2> QED BY <1>3, <1>4, <2>1, <2>2, <2>3 DEF Goes
<1>6. CASE G!Algebraic(page[m])
  <2>1. ~Valued(m)
    BY <1>6, FormsDiffer DEF Valued
  <2>2. f[m].tail = G!NoValue
    <3>1. f[m] = [check |-> G!CheckEquation(page[m], f[m - 1].chain).check, tail |-> G!NoValue,
                  chain |-> G!CheckEquation(page[m], f[m - 1].chain).chain]
      BY <1>2, <1>3, <1>6, RecalculatedIs, Zenon
    <3> QED BY <3>1
  <2> QED BY <1>3, <2>1, <2>2 DEF Goes
<1>7. CASE FromColumn(m) # G!NoValue
  <2>1. /\ page[m].form = "number" /\ page[m].values = <<page[m].column.number>>
    BY <1>2, <1>7, ResultForm
  <2>2. Valued(m) /\ G!Last(page[m].values) = page[m].column.number
    BY <2>1 DEF Valued, G!Last
  <2>3. f[m].tail = page[m].column.number
    <3> DEFINE v == <<FromColumn(m), page[m].column.number>>
    <3>1. f[m] = [check |-> G!Check(IF G!AllSame(v) THEN "ok" ELSE "mismatch", v),
                  tail |-> page[m].column.number, chain |-> f[m - 1].chain]
      BY <1>2, <1>3, <1>7, RecalculatedIs, Zenon
    <3> QED BY <3>1
  <2> QED BY <1>3, <1>4, <2>2, <2>3 DEF Goes
<1>8. CASE Unread(m)
  <2>1. f[m].tail = IF page[m].form \in {"number", "example"} THEN page[m].values[1] ELSE G!NoValue
    <3>1. f[m] = [check |-> G!Check("skipped", <<>>),
                  tail |-> IF page[m].form \in {"number", "example"} THEN page[m].values[1] ELSE G!NoValue,
                  chain |-> f[m - 1].chain]
      BY <1>2, <1>3, <1>8, RecalculatedIs, Zenon
    <3> QED BY <3>1
  <2>2. Valued(m) <=> page[m].form \in {"number", "example"}
    BY <1>8 DEF Valued, Unread
  <2>3. page[m].form \in {"number", "example"} => G!Last(page[m].values) = page[m].values[1]
    <3>1. G!WellFormed(page[m])
      BY <1>2, LineIs
    <3> QED BY <3>1 DEF G!WellFormed, G!Last
  <2> QED BY <1>3, <1>4, <2>1, <2>2, <2>3 DEF Goes
<1> QED BY <1>5, <1>6, <1>7, <1>8 DEF Unread

\* A step that changes the root: of an open chain, and by no new exercise.
LEMMA ErrorOfRoot ==
    ASSUME NEW line, NEW chain, G!Algebraic(line), G!RootChange(line, chain) = "error"
    PROVE  /\ chain # G!NoChain /\ line.root # chain.root
           /\ line.form = "equation" => line.shared >= 2
           /\ line.form = "assignment" => chain.origin = "equation"
<1>1. ~(chain = G!NoChain \/ line.root = chain.root)
  BY DEF G!RootChange
<1>2. CASE line.form = "equation"
  BY <1>1, <1>2 DEF G!RootChange, G!Transforms
<1>3. CASE line.form = "assignment"
  BY <1>1, <1>3 DEF G!RootChange
<1>4. CASE line.form = "answer"
  BY <1>1, <1>4
<1> QED BY <1>2, <1>3, <1>4 DEF G!Algebraic

\* What is found in an equation, and the chain after it.
LEMMA EquationIs ==
    ASSUME NEW line, NEW before, G!Algebraic(line), line.sound \in BOOLEAN, line.root # G!NoRoot
    PROVE  LET step == G!CheckEquation(line, before)
               chain == IF line.label # "none" \/ before.variable # line.variable THEN G!NoChain
                        ELSE before
           IN /\ step.check.status \in {"ok", "mismatch", "skipped"}
              /\ step.check.status = "mismatch" => G!RootChange(line, chain) = "error" \/ ~line.sound
              /\ step.check.status = "ok" => line.sound
              /\ step.check.status = "skipped" => step.check.doubtful = TRUE
              /\ step.chain.origin = "equation" => line.form = "equation" \/ before.origin = "equation"
              /\ step.chain = G!NoChain
                 \/ (step.chain.root = line.root /\ step.chain.variable = line.variable)
<1> DEFINE step == G!CheckEquation(line, before)
           chain == IF line.label # "none" \/ before.variable # line.variable THEN G!NoChain
                    ELSE before
           change == G!RootChange(line, chain)
           status == CASE change = "error" \/ ~line.sound -> "mismatch"
                       [] change = "doubt" /\ line.sound -> "skipped"
                       [] OTHER -> "ok"
           values == IF change = "error" THEN <<chain.root, line.root>> ELSE <<line.root>>
           after == [variable |-> line.variable, root |-> line.root,
                     origin |-> IF line.form = "equation" \/ (chain.origin = "equation" /\ change # "doubt")
                                THEN "equation" ELSE "assignment"]
           doubt == (change = "doubt")
           first == (line.form = "equation")
<1>1. step = [check |-> [G!Check(status, values) EXCEPT !.doubtful = doubt, !.equation = first],
              chain |-> IF line.form = "answer" THEN G!NoChain ELSE after]
  BY DEF G!CheckEquation
<1>2. /\ status \in {"ok", "mismatch", "skipped"}
      /\ status = "mismatch" => change = "error" \/ ~line.sound
      /\ status = "ok" => line.sound
      /\ status = "skipped" => change = "doubt"
  <2>1. CASE change = "error" \/ ~line.sound
    BY <2>1
  <2>2. CASE change = "doubt" /\ line.sound
    BY <2>2
  <2>3. CASE ~(change = "error" \/ ~line.sound) /\ ~(change = "doubt" /\ line.sound)
    BY <2>3
  <2> HIDE DEF change, status
  <2> QED BY <2>1, <2>2, <2>3
<1>3. chain.origin = "equation" => before.origin = "equation"
  BY DEF G!NoChain
<1>4. doubt \in BOOLEAN /\ (change = "doubt" => doubt = TRUE)
  OBVIOUS
<1> HIDE DEF step, status, values, change, doubt, first, after
<1>5. step.check.status = status /\ step.check.doubtful = doubt
  BY <1>1 DEF G!Check
<1>6. step.chain = IF line.form = "answer" THEN G!NoChain ELSE after
  BY <1>1
<1>7. step.chain.origin = "equation" => line.form = "equation" \/ before.origin = "equation"
  BY <1>3, <1>6 DEF G!NoChain, after
<1>8. step.chain = G!NoChain \/ (step.chain.root = line.root /\ step.chain.variable = line.variable)
  BY <1>6 DEF after
<1>9. step.check.status = "skipped" => step.check.doubtful = TRUE
  BY <1>2, <1>4, <1>5
<1> QED BY <1>2, <1>5, <1>7, <1>8, <1>9 DEF change, step

LEMMA NoRootIs ==
    ASSUME NEW line, NEW before, line.root = G!NoRoot
    PROVE  G!CheckEquation(line, before) = [check |-> G!Check("skipped", <<>>), chain |-> G!NoChain]
BY DEF G!CheckEquation

LEMMA ChainBefore ==
    ASSUME GState, NEW f, Steps(f), NEW n \in DOMAIN page
    PROVE  /\ Goes(f, n - 1)
           /\ f[n].chain = IF G!Algebraic(page[n]) THEN G!CheckEquation(page[n], f[n - 1].chain).chain
                           ELSE f[n - 1].chain
<1>1. n - 1 \in 0 .. Len(page)
  BY LineIs
<1>2. Goes(f, n - 1)
  BY <1>1, TailIs
<1>3. CASE page[n].form = "equality" \/ G!GoesOn(n)
  <2>1. f[n] = [check |-> G!Check(IF G!AllSame(Values(n)) THEN "ok" ELSE "mismatch", Values(n)),
                tail |-> G!Last(Values(n)), chain |-> f[n - 1].chain]
    BY <1>2, <1>3, RecalculatedIs, Zenon
  <2>2. ~G!Algebraic(page[n])
    BY <1>3, FormsDiffer
  <2> QED BY <1>2, <2>1, <2>2
<1>4. CASE G!Algebraic(page[n])
  <2>1. f[n] = [check |-> G!CheckEquation(page[n], f[n - 1].chain).check, tail |-> G!NoValue,
                chain |-> G!CheckEquation(page[n], f[n - 1].chain).chain]
    BY <1>2, <1>4, RecalculatedIs, Zenon
  <2> QED BY <1>2, <1>4, <2>1
<1>5. CASE FromColumn(n) # G!NoValue
  <2> DEFINE v == <<FromColumn(n), page[n].column.number>>
  <2>1. f[n] = [check |-> G!Check(IF G!AllSame(v) THEN "ok" ELSE "mismatch", v),
                tail |-> page[n].column.number, chain |-> f[n - 1].chain]
    BY <1>2, <1>5, RecalculatedIs, Zenon
  <2>2. ~G!Algebraic(page[n])
    BY <1>5, ResultForm, FormsDiffer
  <2> QED BY <1>2, <2>1, <2>2
<1>6. CASE Unread(n)
  <2>1. f[n] = [check |-> G!Check("skipped", <<>>),
                tail |-> IF page[n].form \in {"number", "example"} THEN page[n].values[1] ELSE G!NoValue,
                chain |-> f[n - 1].chain]
    BY <1>2, <1>6, RecalculatedIs, Zenon
  <2> QED BY <1>2, <1>6, <2>1 DEF Unread
<1> QED BY <1>3, <1>4, <1>5, <1>6 DEF Unread

\* A chain that an equation opened has that equation above it.
LEMMA ChainBegan ==
    ASSUME GState, NEW f, Steps(f), NEW n \in 0 .. Len(page), f[n].chain.origin = "equation"
    PROVE  \E j \in 1 .. n : page[j].form = "equation"
<1> DEFINE S == {m \in 0 .. Len(page) : /\ f[m].chain.origin = "equation"
                                         /\ ~\E j \in 1 .. m : page[j].form = "equation"}
<1> SUFFICES ASSUME S # {} PROVE FALSE
  OBVIOUS
<1>1. 0 \notin S
  BY StepIs DEF Start, G!NoChain
<1>2. PICK m \in S : m \in DOMAIN page /\ m - 1 \in 0 .. Len(page) /\ \A k \in S : m <= k
  <2>1. S \subseteq 0 .. Len(page)
    OBVIOUS
  <2> HIDE DEF S
  <2> QED BY <1>1, <2>1, FirstLine
<1>3. m \in Nat /\ m >= 1 /\ G!WellFormed(page[m])
  BY <1>2, LineIs
<1>4. m \in 1 .. m /\ 1 .. m - 1 \subseteq 1 .. m
  BY <1>3
<1>5. f[m].chain.origin = "equation" /\ page[m].form # "equation" /\ ~\E j \in 1 .. m - 1 : page[j].form = "equation"
  BY <1>2, <1>4
<1>6. f[m - 1].chain.origin # "equation"
  <2>1. ~(m <= m - 1)
    BY <1>3
  <2> QED BY <1>2, <1>5, <2>1
<1>7. f[m].chain = IF G!Algebraic(page[m]) THEN G!CheckEquation(page[m], f[m - 1].chain).chain
                   ELSE f[m - 1].chain
  BY <1>2, ChainBefore
<1>8. CASE G!Algebraic(page[m])
  <2>1. CASE page[m].root = G!NoRoot
    BY <1>5, <1>7, <1>8, <2>1, NoRootIs DEF G!NoChain
  <2>2. CASE page[m].root # G!NoRoot
    <3>1. page[m].sound \in BOOLEAN
      BY <1>3 DEF G!WellFormed
    <3>2. G!CheckEquation(page[m], f[m - 1].chain).chain.origin = "equation"
             => page[m].form = "equation" \/ f[m - 1].chain.origin = "equation"
      BY <1>8, <2>2, <3>1, EquationIs
    <3> QED BY <1>5, <1>6, <1>7, <1>8, <3>2
  <2> QED BY <2>1, <2>2
<1>9. CASE ~G!Algebraic(page[m])
  BY <1>5, <1>6, <1>7, <1>9
<1> QED BY <1>8, <1>9

\* An open chain has a line in its variable above it.
LEMMA ChainVariable ==
    ASSUME GState, NEW f, Steps(f), NEW n \in 0 .. Len(page), f[n].chain # G!NoChain
    PROVE  \E j \in 1 .. n : G!Algebraic(page[j]) /\ page[j].variable = f[n].chain.variable
<1> DEFINE Opened(m) == \E j \in 1 .. m : G!Algebraic(page[j]) /\ page[j].variable = f[m].chain.variable
           S == {m \in 0 .. Len(page) : f[m].chain # G!NoChain /\ ~Opened(m)}
<1> SUFFICES ASSUME S # {} PROVE FALSE
  OBVIOUS
<1>1. 0 \notin S
  BY StepIs DEF Start
<1>2. PICK m \in S : m \in DOMAIN page /\ m - 1 \in 0 .. Len(page) /\ \A k \in S : m <= k
  <2>1. S \subseteq 0 .. Len(page)
    OBVIOUS
  <2> HIDE DEF S
  <2> QED BY <1>1, <2>1, FirstLine
<1>3. m \in Nat /\ m >= 1 /\ G!WellFormed(page[m])
  BY <1>2, LineIs
<1>4. f[m].chain # G!NoChain /\ ~Opened(m)
  BY <1>2
<1>5. f[m - 1].chain # G!NoChain => Opened(m - 1)
  <2>1. ~(m <= m - 1)
    BY <1>3
  <2> QED BY <1>2, <2>1
<1>6. f[m].chain = IF G!Algebraic(page[m]) THEN G!CheckEquation(page[m], f[m - 1].chain).chain
                   ELSE f[m - 1].chain
  BY <1>2, ChainBefore
<1>7. CASE G!Algebraic(page[m])
  <2>1. page[m].root # G!NoRoot
    BY <1>4, <1>6, <1>7, NoRootIs
  <2>2. page[m].sound \in BOOLEAN
    BY <1>3 DEF G!WellFormed
  <2>3. \/ G!CheckEquation(page[m], f[m - 1].chain).chain = G!NoChain
        \/ G!CheckEquation(page[m], f[m - 1].chain).chain.variable = page[m].variable
    BY <1>7, <2>1, <2>2, EquationIs
  <2>4. m \in 1 .. m
    BY <1>3
  <2> QED BY <1>4, <1>6, <1>7, <2>3, <2>4
<1>8. CASE ~G!Algebraic(page[m])
  <2>1. f[m].chain = f[m - 1].chain /\ 1 .. m - 1 \subseteq 1 .. m
    BY <1>3, <1>6, <1>8
  <2> QED BY <1>4, <1>5, <2>1
<1> QED BY <1>7, <1>8

\* After a line of an equation its chain is closed or has the root of the line.
LEMMA ChainRoot ==
    ASSUME GState, NEW f, Steps(f), NEW n \in DOMAIN page, G!Algebraic(page[n])
    PROVE  f[n].chain = G!NoChain \/ f[n].chain.root = page[n].root
<1>1. f[n].chain = G!CheckEquation(page[n], f[n - 1].chain).chain
  BY ChainBefore
<1>2. CASE page[n].root = G!NoRoot
  BY <1>1, <1>2, NoRootIs
<1>3. CASE page[n].root # G!NoRoot
  <2>1. page[n].sound \in BOOLEAN
    BY LineIs DEF G!WellFormed
  <2>2. \/ G!CheckEquation(page[n], f[n - 1].chain).chain = G!NoChain
        \/ G!CheckEquation(page[n], f[n - 1].chain).chain.root = page[n].root
    BY <1>3, <2>1, EquationIs
  <2> QED BY <1>1, <2>2
<1> QED BY <1>2, <1>3

\* The check of line n before the condition is looked at.
Recalculated(n) == G!CheckSteps(page)[n]

LEMMA ArithmeticIs ==
    ASSUME GState, NEW n \in DOMAIN page, page[n].form = "equality" \/ G!GoesOn(n)
    PROVE  Recalculated(n) = G!Check(IF G!AllSame(Values(n)) THEN "ok" ELSE "mismatch", Values(n))
<1>1. PICK f : Steps(f) /\ G!CheckSteps(page) = [m \in DOMAIN page |-> f[m].check]
  BY StepsAre
<1>2. Goes(f, n - 1)
  BY <1>1, ChainBefore
<1>3. f[n] = [check |-> G!Check(IF G!AllSame(Values(n)) THEN "ok" ELSE "mismatch", Values(n)),
              tail |-> G!Last(Values(n)), chain |-> f[n - 1].chain]
  BY <1>1, <1>2, RecalculatedIs, Zenon
<1> QED BY <1>1, <1>3 DEF Recalculated

\* Equations and their answers: a line is wrong in itself, or it changes the root of an open chain.
LEMMA AlgebraIs ==
    ASSUME GState, NEW n \in DOMAIN page, G!Algebraic(page[n])
    PROVE  /\ Recalculated(n).status \in {"ok", "mismatch", "skipped"}
           /\ Recalculated(n).status = "ok" => G!Holds(n)
           /\ Recalculated(n).status = "skipped" => G!Holds(n) \/ Recalculated(n).doubtful
           /\ Recalculated(n).status = "mismatch" => ~G!Holds(n) \/ ~G!SolvedOneByOne
<1> DEFINE line == page[n]
<1>1. PICK f : Steps(f) /\ G!CheckSteps(page) = [m \in DOMAIN page |-> f[m].check]
  BY StepsAre
<1>2. Goes(f, n - 1)
  BY <1>1, ChainBefore
<1> DEFINE before == f[n - 1].chain
           chain == IF line.label # "none" \/ before.variable # line.variable THEN G!NoChain ELSE before
<1>3. Recalculated(n) = G!CheckEquation(line, before).check
  <2>1. f[n] = [check |-> G!CheckEquation(page[n], f[n - 1].chain).check, tail |-> G!NoValue,
                chain |-> G!CheckEquation(page[n], f[n - 1].chain).chain]
    BY <1>1, <1>2, RecalculatedIs, Zenon
  <2> QED BY <1>1, <2>1 DEF Recalculated
<1>4. line.sound \in BOOLEAN /\ n \in Nat /\ n >= 1 /\ n \in 1 .. Len(page) /\ Len(page) \in Nat
  BY LineIs DEF G!WellFormed
<1>5. G!Holds(n) = (line.root = G!NoRoot \/ line.sound)
  <2>1. ~(line.form = "equality" \/ G!GoesOn(n))
    BY FormsDiffer
  <2> QED BY <1>4, <2>1 DEF G!Holds
<1>6. CASE line.root = G!NoRoot
  <2>1. Recalculated(n) = G!Check("skipped", <<>>)
    BY <1>3, <1>6, NoRootIs
  <2>2. Recalculated(n).status = "skipped"
    BY <2>1 DEF G!Check
  <2>3. G!Holds(n)
    BY <1>5, <1>6
  <2> QED BY <2>2, <2>3
<1>7. CASE line.root # G!NoRoot
  <2>1. /\ Recalculated(n).status \in {"ok", "mismatch", "skipped"}
        /\ Recalculated(n).status = "mismatch" => G!RootChange(line, chain) = "error" \/ ~line.sound
        /\ Recalculated(n).status = "ok" => line.sound
        /\ Recalculated(n).status = "skipped" => Recalculated(n).doubtful = TRUE
    BY <1>3, <1>4, <1>7, EquationIs, ZenonT(60)
  <2>2. ASSUME G!RootChange(line, chain) = "error" PROVE ~G!SolvedOneByOne
    <3> DEFINE algebra == {i \in DOMAIN page : G!Algebraic(page[i])}
               above == {j \in algebra : j < n}
               opens == \A j \in above : page[j].exercise # page[n].exercise
               fresh == \A j \in above : page[j].variable # page[n].variable
    <3>1. /\ chain # G!NoChain /\ line.root # chain.root
          /\ line.form = "equation" => line.shared >= 2
          /\ line.form = "assignment" => chain.origin = "equation"
      BY <2>2, ErrorOfRoot
    <3>2. chain = before /\ before.variable = line.variable
      BY <3>1
    <3> SUFFICES ASSUME G!SolvedOneByOne PROVE FALSE
      OBVIOUS
    <3>3. IF opens
          THEN \/ fresh
               \/ /\ \/ page[n].form = "equation"
                     \/ page[n].form = "assignment" /\ \A j \in above : page[j].form = "assignment"
                  /\ page[n].shared < 2
          ELSE /\ n - 1 \in algebra /\ page[n - 1].exercise = page[n].exercise
               /\ page[n].root = page[n - 1].root
      BY DEF G!SolvedOneByOne
    <3>4. line.shared \in Nat
      BY LineIs DEF G!WellFormed
    <3>5. ~fresh
      <4>1. n - 1 \in 0 .. Len(page)
        BY <1>4
      <4>2. PICK j \in 1 .. n - 1 : G!Algebraic(page[j]) /\ page[j].variable = before.variable
        BY <1>1, <3>1, <3>2, <4>1, ChainVariable
      <4>3. j \in DOMAIN page /\ j < n
        <5>1. DOMAIN page = 1 .. Len(page)
          BY LenProperties DEF GState
        <5> QED BY <1>4, <4>2, <5>1
      <4> QED BY <3>2, <4>2, <4>3
    <3>6. CASE opens
      <4>1. page[n].form = "assignment" /\ \A j \in above : page[j].form = "assignment"
        <5>1. page[n].form # "equation"
          BY <3>1, <3>3, <3>4, <3>5, <3>6
        <5> QED BY <3>3, <3>5, <3>6, <5>1
      <4>2. f[n - 1].chain.origin = "equation" /\ n - 1 \in 0 .. Len(page)
        BY <1>4, <3>1, <3>2, <4>1
      <4>3. PICK j \in 1 .. n - 1 : page[j].form = "equation"
        BY <1>1, <4>2, ChainBegan
      <4>4. j \in DOMAIN page /\ j < n
        <5>1. DOMAIN page = 1 .. Len(page)
          BY LenProperties DEF GState
        <5> QED BY <1>4, <4>3, <5>1
      <4>5. j \in above
        BY <4>3, <4>4 DEF G!Algebraic
      <4> QED BY <4>1, <4>3, <4>5
    <3>7. CASE ~opens
      <4>1. n - 1 \in DOMAIN page /\ G!Algebraic(page[n - 1]) /\ page[n].root = page[n - 1].root
        BY <3>3, <3>7
      <4>2. f[n - 1].chain = G!NoChain \/ f[n - 1].chain.root = page[n - 1].root
        BY <1>1, <4>1, ChainRoot
      <4> QED BY <3>1, <3>2, <4>1, <4>2
    <3> QED BY <3>6, <3>7
  <2> HIDE DEF chain, line
  <2> QED BY <1>5, <1>7, <2>1, <2>2
<1> QED BY <1>6, <1>7

LEMMA ColumnIs ==
    ASSUME GState, NEW n \in DOMAIN page, FromColumn(n) # G!NoValue
    PROVE  LET v == <<FromColumn(n), page[n].column.number>>
           IN Recalculated(n) = G!Check(IF G!AllSame(v) THEN "ok" ELSE "mismatch", v)
<1> DEFINE v == <<FromColumn(n), page[n].column.number>>
<1>1. PICK f : Steps(f) /\ G!CheckSteps(page) = [m \in DOMAIN page |-> f[m].check]
  BY StepsAre
<1>2. Goes(f, n - 1)
  BY <1>1, ChainBefore
<1>3. f[n] = [check |-> G!Check(IF G!AllSame(v) THEN "ok" ELSE "mismatch", v),
              tail |-> page[n].column.number, chain |-> f[n - 1].chain]
  BY <1>1, <1>2, RecalculatedIs, Zenon
<1> QED BY <1>1, <1>3 DEF Recalculated

\* A line that nothing is made of is passed over.  Only of a number can that be wrong.
LEMMA OthersAre ==
    ASSUME GState, NEW n \in DOMAIN page, Unread(n)
    PROVE  Recalculated(n) = G!Check("skipped", <<>>) /\ (page[n].form = "number" \/ G!Holds(n))
<1>1. PICK f : Steps(f) /\ G!CheckSteps(page) = [m \in DOMAIN page |-> f[m].check]
  BY StepsAre
<1>2. Goes(f, n - 1)
  BY <1>1, ChainBefore
<1>3. f[n] = [check |-> G!Check("skipped", <<>>),
              tail |-> IF page[n].form \in {"number", "example"} THEN page[n].values[1] ELSE G!NoValue,
              chain |-> f[n - 1].chain]
  BY <1>1, <1>2, RecalculatedIs, Zenon
<1>4. page[n].form # "number" => G!Holds(n)
  <2>1. page[n].form # "number" => \A c \in G!Shaped(page, n) : FALSE
    BY ColumnNumbers
  <2> QED BY <2>1 DEF G!Holds, Unread
<1> QED BY <1>1, <1>3, <1>4 DEF Recalculated

-----------------------------------------------------------------------------
(* What the printed condition makes of a check.                            *)

JudgedLine(n) == G!Checks(page, given.condition)[n]

LEMMA CheckedIs ==
    ASSUME GState
    PROVE  /\ DOMAIN G!Checks(page, given.condition) = DOMAIN page
           /\ \A n \in DOMAIN page : JudgedLine(n) = G!Review(Recalculated(n), page[n], given.condition)
BY DEF G!Checks, JudgedLine, Recalculated

LEMMA ReviewSkips ==
    ASSUME NEW check, NEW line, NEW condition,
           check.status = "skipped" \/ Len(check.values) < 2 \/ G!Algebraic(line)
    PROVE  G!Review(check, line, condition) = check
BY DEF G!Review

\* A check of arithmetic ends in one of three ways.
LEMMA ReviewIs ==
    ASSUME NEW line, NEW condition, NEW status \in {"ok", "mismatch"}, NEW values,
           Len(values) >= 2, Len(values) \in Nat, ~G!Algebraic(line)
    PROVE  LET check == G!Check(status, values)
               printed == condition.items[line.label]
               agrees == \A k \in 2 .. Len(values) : G!Same(values[k], printed)
               reviewed == G!Review(check, line, condition)
           IN \/ G!Compared(line, condition) /\ agrees /\ reviewed.status = "ok"
              \/ /\ \/ G!Compared(line, condition) /\ ~G!Same(values[1], printed)
                    \/ status = "mismatch" /\ G!Impossible(values[1], G!Last(values), line)
                 /\ reviewed.status = "skipped" /\ reviewed.doubtful = TRUE
              \/ /\ ~(G!Compared(line, condition) /\ (agrees \/ ~G!Same(values[1], printed)))
                 /\ reviewed = check
<1> DEFINE check == G!Check(status, values)
           printed == condition.items[line.label]
           agrees == \A k \in 2 .. Len(values) : G!Same(values[k], printed)
           compared == G!Compared(line, condition)
           misread == \/ compared /\ ~G!Same(values[1], printed)
                      \/ status = "mismatch" /\ G!Impossible(values[1], G!Last(values), line)
           right == [check EXCEPT !.status = "ok", !.values = <<printed, G!Last(values)>>]
<1>1. check.status = status /\ check.values = values
  BY DEF G!Check
<1>2. ~(check.status = "skipped" \/ Len(check.values) < 2 \/ G!Algebraic(line))
  BY <1>1
<1>3. G!Review(check, line, condition) =
         IF compared /\ agrees THEN right ELSE IF misread THEN G!Doubted(check) ELSE check
  BY <1>1, <1>2 DEF G!Review
<1>4. right.status = "ok"
  BY DEF G!Check
<1>5. G!Doubted(check).status = "skipped" /\ G!Doubted(check).doubtful = TRUE
  BY DEF G!Doubted, G!Check
<1> HIDE DEF check, agrees, compared, right, printed
<1>6. CASE compared /\ agrees
  BY <1>3, <1>4, <1>6 DEF check, agrees, compared, printed
<1>7. CASE ~(compared /\ agrees) /\ misread
  BY <1>3, <1>5, <1>7 DEF check, agrees, compared, printed
<1>8. CASE ~(compared /\ agrees) /\ ~misread
  BY <1>3, <1>8 DEF check, agrees, compared, printed
<1> QED BY <1>6, <1>7, <1>8

LEMMA ConditionIs ==
    ASSUME GState
    PROVE  /\ "none" \notin G!Items(given.condition)
           /\ \A label \in G!Items(given.condition) : given.condition.items[label] \in G!Fractions
BY GradingAssumption DEF GState, G!Items

\* Values that all equal the printed one are equal.
LEMMA AgreeingAreSame ==
    ASSUME NEW v \in Seq(G!Fractions), Len(v) >= 2, NEW printed \in G!Fractions,
           G!Same(v[1], printed), \A k \in 2 .. Len(v) : G!Same(v[k], printed)
    PROVE  G!AllSame(v)
<1>1. Len(v) \in Nat /\ DOMAIN v = 1 .. Len(v) /\ \A k \in 1 .. Len(v) : v[k] \in G!Fractions
  BY LenProperties, ElementOfSeq
<1>2. ASSUME NEW k \in DOMAIN v PROVE G!Same(v[k], v[1])
  <2>1. v[k] \in G!Fractions /\ v[1] \in G!Fractions
    BY <1>1
  <2>2. G!Same(v[k], printed)
    BY <1>1
  <2>3. \A u, w \in G!Fractions : G!Same(u, printed) /\ G!Same(w, printed) => G!Same(u, w)
    BY SameThrough
  <2> QED BY <2>1, <2>2, <2>3
<1> QED BY <1>2 DEF G!AllSame

\* What is found in line n in the end, and what the child wrote there.
LEMMA ArithmeticJudged ==
    ASSUME GState, NEW n \in DOMAIN page, page[n].form = "equality" \/ G!GoesOn(n)
    PROVE  /\ JudgedLine(n).status \in {"ok", "mismatch", "skipped"}
           /\ G!Holds(n) \/ G!ReadDifferently(page[n]) => JudgedLine(n).status # "mismatch"
           /\ JudgedLine(n).status # "mismatch"
                 => G!Holds(n) \/ G!ReadDifferently(page[n]) \/ JudgedLine(n).doubtful
           /\ /\ page[n].form = "equality" /\ page[n].reread = <<>> /\ ~G!AllSame(page[n].values)
              /\ ~page[n].copied
              /\ ~G!Impossible(page[n].values[1], G!Last(page[n].values), page[n])
              => JudgedLine(n).status = "mismatch"
<1> DEFINE line == page[n]
           v == Values(n)
           status == IF G!AllSame(v) THEN "ok" ELSE "mismatch"
           check == G!Check(status, v)
           printed == given.condition.items[line.label]
           agrees == \A k \in 2 .. Len(v) : G!Same(v[k], printed)
           compared == G!Compared(line, given.condition)
           judged == JudgedLine(n)
<1>1. /\ v \in Seq(G!Fractions) /\ Len(v) >= 2 /\ G!AllSame(v) = G!Holds(n)
      /\ ~G!Holds(n) /\ line.form = "equality" => v = line.values
  BY ValuesAre
<1>2. judged = G!Review(check, line, given.condition)
  BY ArithmeticIs, CheckedIs
<1>3. status \in {"ok", "mismatch"} /\ Len(v) \in Nat /\ ~G!Algebraic(line)
  BY <1>1, FormsDiffer, LenProperties
<1>4. \/ compared /\ agrees /\ judged.status = "ok"
      \/ /\ \/ compared /\ ~G!Same(v[1], printed)
            \/ status = "mismatch" /\ G!Impossible(v[1], G!Last(v), line)
         /\ judged.status = "skipped" /\ judged.doubtful = TRUE
      \/ /\ ~(compared /\ (agrees \/ ~G!Same(v[1], printed)))
         /\ judged = check
  <2> HIDE DEF v, status, line, judged
  <2>1. Len(v) >= 2 /\ judged = G!Review(check, line, given.condition)
    BY <1>1, <1>2
  <2>2. status \in {"ok", "mismatch"} /\ Len(v) \in Nat /\ ~G!Algebraic(line)
    BY <1>3
  <2>3. LET reviewed == G!Review(G!Check(status, v), line, given.condition)
        IN \/ compared /\ agrees /\ reviewed.status = "ok"
           \/ /\ \/ compared /\ ~G!Same(v[1], printed)
                 \/ status = "mismatch" /\ G!Impossible(v[1], G!Last(v), line)
              /\ reviewed.status = "skipped" /\ reviewed.doubtful = TRUE
           \/ /\ ~(compared /\ (agrees \/ ~G!Same(v[1], printed)))
              /\ reviewed = check
    BY <2>1, <2>2, ReviewIs, ZenonT(60)
  <2> HIDE DEF compared, agrees, printed, check
  <2> QED BY <2>1, <2>3 DEF check
<1>5. check.status = status
  BY DEF G!Check
<1>6. compared => line.form = "equality" /\ line.copied /\ line.label \in G!Items(given.condition)
                  /\ printed \in G!Fractions
  <2>1. compared => line.copied /\ line.label \in G!Items(given.condition)
    BY DEF G!Compared
  <2>2. line.form = "continued" => line.label = "none"
    BY LineIs DEF G!WellFormed
  <2> QED BY <2>1, <2>2, ConditionIs, FormsDiffer
<1>7. G!ReadDifferently(line) <=> /\ line.form = "equality" /\ compared
                                  /\ ~G!Same(line.values[1], printed)
  BY DEF G!ReadDifferently, G!Compared
<1>8. compared /\ agrees /\ G!Same(v[1], printed) => G!AllSame(v)
  BY <1>1, <1>6, AgreeingAreSame
<1>9. status = (IF G!Holds(n) THEN "ok" ELSE "mismatch")
  BY <1>1
<1>10. /\ line.form = "equality" /\ line.reread = <<>> /\ ~G!AllSame(line.values)
       /\ ~line.copied /\ ~G!Impossible(line.values[1], G!Last(line.values), line)
       => judged.status = "mismatch"
  <2> SUFFICES ASSUME line.form = "equality", line.reread = <<>>, ~G!AllSame(line.values), ~line.copied,
                      ~G!Impossible(line.values[1], G!Last(line.values), line)
               PROVE  judged.status = "mismatch"
    OBVIOUS
  <2>1. v = line.values
    BY DEF Values, Written, G!Reread
  <2>2. ~compared
    BY DEF G!Compared
  <2>3. status = "mismatch" /\ ~G!Impossible(v[1], G!Last(v), line)
    BY <2>1
  <2> HIDE DEF v, status, check, judged, compared, agrees, printed
  <2> QED BY <1>4, <1>5, <2>2, <2>3
<1>11. judged.status \in {"ok", "mismatch", "skipped"}
  <2> HIDE DEF v, status, check, judged, compared, agrees, printed, line
  <2> QED BY <1>3, <1>4, <1>5
<1>12. G!Holds(n) \/ G!ReadDifferently(line) => judged.status # "mismatch"
  <2> HIDE DEF v, status, check, judged, compared, agrees, printed, line
  <2>1. CASE G!Holds(n)
    BY <1>4, <1>5, <1>9, <2>1
  <2>2. CASE ~G!Holds(n) /\ G!ReadDifferently(line)
    <3>1. v = line.values /\ compared /\ ~G!Same(v[1], printed)
      BY <1>1, <1>7, <2>2
    <3> QED BY <1>4, <3>1
  <2> QED BY <2>1, <2>2
<1>13. judged.status # "mismatch" => G!Holds(n) \/ G!ReadDifferently(line) \/ judged.doubtful
  <2> HIDE DEF v, status, check, judged, compared, agrees, printed, line
  <2> SUFFICES ASSUME judged.status # "mismatch", ~G!Holds(n), ~judged.doubtful
               PROVE  G!ReadDifferently(line)
    OBVIOUS
  <2>1. compared /\ agrees
    BY <1>4, <1>5, <1>9
  <2>2. ~G!AllSame(v)
    BY <1>1
  <2>3. ~G!Same(v[1], printed)
    BY <1>8, <2>1, <2>2
  <2>4. line.form = "equality" /\ v = line.values
    BY <1>1, <1>6, <2>1
  <2> QED BY <1>7, <2>1, <2>3, <2>4
<1> QED BY <1>10, <1>11, <1>12, <1>13

LEMMA ColumnJudged ==
    ASSUME GState, NEW n \in DOMAIN page, FromColumn(n) # G!NoValue
    PROVE  LET u == FromColumn(n)
               v == page[n].column.number
           IN /\ JudgedLine(n).status \in {"ok", "mismatch", "skipped"}
              /\ G!Same(v, u) => JudgedLine(n).status # "mismatch"
              /\ ~G!Same(v, u) => JudgedLine(n).status = "mismatch" \/ JudgedLine(n).doubtful
              /\ ~G!Same(v, u) /\ ~G!Impossible(u, v, page[n]) => JudgedLine(n).status = "mismatch"
<1> DEFINE u == FromColumn(n)
           v == page[n].column.number
           values == <<u, v>>
           status == IF G!AllSame(values) THEN "ok" ELSE "mismatch"
           check == G!Check(status, values)
           judged == JudgedLine(n)
           misread == status = "mismatch" /\ G!Impossible(values[1], G!Last(values), page[n])
<1>1. page[n].form = "number" /\ u \in G!Fractions /\ v \in G!Fractions
  BY ResultForm
<1>2. judged = G!Review(check, page[n], given.condition)
  BY CheckedIs, ColumnIs
<1>3. Len(values) = 2 /\ values[1] = u /\ values[2] = v /\ G!Last(values) = v
  BY DEF G!Last
<1>4. G!AllSame(values) = G!Same(v, u)
  <2>1. G!Same(u, u)
    BY DEF G!Same
  <2>2. DOMAIN values = {1, 2}
    OBVIOUS
  <2> HIDE DEF values, u, v
  <2> QED BY <1>3, <2>1, <2>2 DEF G!AllSame, G!Same
<1>5. ~G!Compared(page[n], given.condition)
  <2>1. ~page[n].copied
    BY <1>1, LineIs DEF G!WellFormed
  <2> QED BY <2>1 DEF G!Compared
<1>6. ~G!Algebraic(page[n])
  BY <1>1 DEF G!Algebraic
<1>7. status \in {"ok", "mismatch"} /\ (status = "mismatch" <=> ~G!Same(v, u)) /\ check.status = status
  BY <1>4 DEF G!Check
<1> HIDE DEF status, values, u, v
<1>8. (misread /\ judged.status = "skipped" /\ judged.doubtful = TRUE) \/ judged = check
  <2> DEFINE printed == given.condition.items[page[n].label]
             agrees == \A k \in 2 .. Len(values) : G!Same(values[k], printed)
             compared == G!Compared(page[n], given.condition)
  <2> HIDE DEF misread, check, judged
  <2>1. status \in {"ok", "mismatch"} /\ Len(values) >= 2 /\ Len(values) \in Nat /\ ~G!Algebraic(page[n])
    BY <1>3, <1>6, <1>7
  <2>2. LET reviewed == G!Review(G!Check(status, values), page[n], given.condition)
        IN \/ compared /\ agrees /\ reviewed.status = "ok"
           \/ /\ \/ compared /\ ~G!Same(values[1], printed)
                 \/ status = "mismatch" /\ G!Impossible(values[1], G!Last(values), page[n])
              /\ reviewed.status = "skipped" /\ reviewed.doubtful = TRUE
           \/ /\ ~(compared /\ (agrees \/ ~G!Same(values[1], printed)))
              /\ reviewed = G!Check(status, values)
    BY <2>1, ReviewIs, ZenonT(60)
  <2>3. ~compared
    BY <1>5
  <2> HIDE DEF compared, agrees, printed
  <2> QED BY <1>2, <2>2, <2>3 DEF misread, check
<1>9. judged = check \/ ~misread => judged.status = status
  BY <1>7, <1>8
<1>10. misread => status = "mismatch" /\ G!Impossible(u, v, page[n])
  BY <1>3
<1> HIDE DEF check, misread, judged
<1> QED BY <1>7, <1>8, <1>9, <1>10 DEF judged, u, v

LEMMA LineJudged ==
    ASSUME GState, NEW n \in DOMAIN page
    PROVE  /\ JudgedLine(n).status \in {"ok", "mismatch", "skipped"}
           /\ (G!Holds(n) \/ G!ReadDifferently(page[n])) /\ G!SolvedOneByOne /\ G!ColumnsStandOut
                 => JudgedLine(n).status # "mismatch"
           /\ JudgedLine(n).status # "mismatch"
                 => \/ G!Holds(n) \/ G!ReadDifferently(page[n]) \/ JudgedLine(n).doubtful
                    \/ page[n].form = "number" /\ JudgedLine(n).status = "skipped"
<1>1. CASE page[n].form = "equality" \/ G!GoesOn(n)
  BY <1>1, ArithmeticJudged
<1>2. CASE G!Algebraic(page[n])
  <2>1. JudgedLine(n) = Recalculated(n)
    BY <1>2, CheckedIs, ReviewSkips
  <2>2. ~G!ReadDifferently(page[n])
    BY <1>2, FormsDiffer DEF G!ReadDifferently
  <2> QED BY <1>2, <2>1, <2>2, AlgebraIs
<1>3. CASE FromColumn(n) # G!NoValue
  <2>1. PICK c \in G!Shaped(page, n) : c \in Taken /\ FromColumn(n) = G!Worked(page, c)
    BY <1>3, ResultIs
  <2> DEFINE same == G!Same(page[n].column.number, G!Worked(page, c))
  <2>2. page[n].form = "number" /\ ~G!ReadDifferently(page[n])
    BY <2>1, ColumnNumbers DEF G!ReadDifferently
  <2>3. G!Holds(n) = \A d \in G!Shaped(page, n) : G!Own(d) => G!Same(page[n].column.number, G!Worked(page, d))
    <3>1. ~(page[n].form = "equality" \/ G!GoesOn(n)) /\ ~G!Algebraic(page[n])
      BY <2>2, FormsDiffer
    <3> QED BY <3>1 DEF G!Holds
  <2>4. same => G!Holds(n)
    BY <2>1, <2>3, ShapedOnce
  <2>5. G!Holds(n) /\ G!ColumnsStandOut => same
    BY <2>1, <2>3, TakenAreOwn
  <2>6. /\ JudgedLine(n).status \in {"ok", "mismatch", "skipped"}
        /\ same => JudgedLine(n).status # "mismatch"
        /\ ~same => JudgedLine(n).status = "mismatch" \/ JudgedLine(n).doubtful
    BY <1>3, <2>1, ColumnJudged
  <2> HIDE DEF same
  <2> QED BY <2>2, <2>4, <2>5, <2>6
<1>4. CASE Unread(n)
  <2>1. Recalculated(n).status = "skipped" /\ (page[n].form = "number" \/ G!Holds(n))
    BY <1>4, OthersAre DEF G!Check
  <2>2. JudgedLine(n) = Recalculated(n)
    BY <2>1, CheckedIs, ReviewSkips
  <2> QED BY <2>1, <2>2
<1> QED BY <1>1, <1>2, <1>3, <1>4 DEF Unread

-----------------------------------------------------------------------------
(* The verdict.                                                            *)

LEMMA CompareIs ==
    ASSUME NEW answer, NEW ref
    PROVE  G!Compare(answer, ref) \in {"yes", "no", "unknown"}
BY DEF G!Compare

\* A set of lines has a first one and a last one.
LEMMA FirstIs ==
    ASSUME NEW S, S \subseteq Nat, NEW n \in S
    PROVE  G!FirstOf(S) \in S /\ G!FirstOf(S) <= n
<1>1. \E k \in S : \A m \in S : k <= m
  BY LeastNumber
<1> DEFINE k == CHOOSE k \in S : \A m \in S : k <= m
<1>2. k \in S /\ \A m \in S : k <= m
  BY <1>1
<1>3. G!FirstOf(S) = k
  BY DEF G!FirstOf
<1> QED BY <1>2, <1>3

LEMMA GreatestNumber ==
    ASSUME NEW high \in Nat, NEW S, S \subseteq 1 .. high, S # {}
    PROVE  \E k \in S : \A m \in S : m <= k
<1> DEFINE B == {k \in Nat : \A m \in S : m <= k}
<1>1. B \subseteq Nat /\ high \in B
  OBVIOUS
<1>2. PICK k \in B : \A m \in B : k <= m
  <2> HIDE DEF B
  <2> QED BY <1>1, LeastNumber
<1>3. k \in Nat /\ \A m \in S : m <= k
  BY <1>2
<1>4. ASSUME k \notin S PROVE FALSE
  <2>1. \A m \in S : m <= k - 1 /\ 1 <= m
    BY <1>3, <1>4
  <2>2. k - 1 \in Nat
    <3>1. PICK m \in S : TRUE
      OBVIOUS
    <3>2. m \in Nat /\ 1 <= m /\ m <= k - 1
      BY <2>1
    <3> QED BY <1>3, <3>2
  <2>3. k - 1 \in B
    BY <2>1, <2>2
  <2> QED BY <1>2, <1>3, <2>3
<1> QED BY <1>3, <1>4

LEMMA LastLineIs ==
    ASSUME GState, NEW checks, NEW ref, G!LastValueMatches(page, checks, ref)
    PROVE  \E n \in DOMAIN page : checks[n].status = "ok"
<1> DEFINE equal == {i \in DOMAIN page : G!HasEquals(page[i])}
           latest == CHOOSE i \in equal : \A j \in equal : j <= i
<1>1. equal # {} /\ checks[latest].status = "ok"
  BY DEF G!LastValueMatches
<1>2. Len(page) \in Nat /\ equal \subseteq 1 .. Len(page)
  BY LenProperties DEF GState
<1>3. \E i \in equal : \A j \in equal : j <= i
  <2> HIDE DEF equal
  <2> QED BY <1>1, <1>2, GreatestNumber
<1>4. latest \in equal
  BY <1>3
<1> QED BY <1>1, <1>4

Multipart == G!IsMultipart(page, given.condition)
Long == G!IsLongDivision(page, given.condition)
Compared == G!Compare(given.answer, given.ref)
AllChecks == G!Checks(page, given.condition)
Wrong == G!Having(AllChecks, "mismatch")

\* Which of the three grades a page gets.
LEMMA GradeIs ==
    /\ Multipart /\ ~Long => G!Graded = G!GradeByLines(page, AllChecks)
    /\ Multipart /\ Long => G!Graded = G!GradeLongDivision(page, AllChecks, given.condition, "unknown")
    /\ ~Multipart /\ Long => G!Graded = G!GradeLongDivision(page, AllChecks, given.condition, Compared)
    /\ ~Multipart /\ ~Long => G!Graded = G!GradeAnswer(page, AllChecks, given.answer, given.ref)
<1>1. Multipart \in BOOLEAN /\ Long \in BOOLEAN
  BY DEF Multipart, Long, G!IsMultipart, G!IsLongDivision
<1>2. G!Graded =
        CASE Multipart /\ ~Long -> G!GradeByLines(page, AllChecks)
          [] Multipart /\ Long -> G!GradeLongDivision(page, AllChecks, given.condition, "unknown")
          [] ~Multipart /\ Long -> G!GradeLongDivision(page, AllChecks, given.condition, Compared)
          [] OTHER -> G!GradeAnswer(page, AllChecks, given.answer, given.ref)
  BY DEF G!Graded, G!Grade, Multipart, Long, AllChecks, Compared
<1> QED BY <1>1, <1>2

LEMMA WrongIs ==
    ASSUME GState
    PROVE  /\ DOMAIN AllChecks = DOMAIN page
           /\ \A n \in DOMAIN page : AllChecks[n] = JudgedLine(n)
           /\ Wrong = {n \in DOMAIN page : JudgedLine(n).status = "mismatch"}
<1>1. DOMAIN AllChecks = DOMAIN page /\ \A n \in DOMAIN page : AllChecks[n] = JudgedLine(n)
  BY CheckedIs DEF AllChecks, JudgedLine
<1> QED BY <1>1 DEF Wrong, G!Having

LEMMA ByLinesIs ==
    LET g == G!GradeByLines(page, AllChecks)
    IN /\ g.checks = AllChecks
       /\ Wrong # {} => g.verdict = "wrong" /\ g.line = G!FirstOf(Wrong)
       /\ Wrong = {} => g.verdict # "wrong"
       /\ g.verdict = "correct" => Wrong = {} /\ G!Having(AllChecks, "ok") # {}
<1> DEFINE right == Wrong = {} /\ G!Having(AllChecks, "ok") # {} /\ \A i \in DOMAIN AllChecks : ~AllChecks[i].doubtful
           g == G!GradeByLines(page, AllChecks)
<1>1. CASE Wrong # {}
  <2>1. g = G!Verdict("wrong", G!FirstOf(Wrong), "none", AllChecks)
    BY <1>1 DEF G!GradeByLines, Wrong
  <2> QED BY <1>1, <2>1 DEF G!Verdict
<1>2. CASE right
  <2>1. g = G!Verdict("correct", 0, "none", AllChecks)
    BY <1>2 DEF G!GradeByLines, Wrong
  <2> QED BY <1>2, <2>1 DEF G!Verdict
<1>3. CASE Wrong = {} /\ ~right
  <2>1. g = G!Verdict("uncertain", 0, G!Reason(page, AllChecks, <<"none">>), AllChecks)
    BY <1>3 DEF G!GradeByLines, Wrong
  <2> QED BY <1>3, <2>1 DEF G!Verdict
<1> QED BY <1>1, <1>2, <1>3

LEMMA LongIs ==
    ASSUME GState, NEW matches, matches # "no", Wrong = {}
    PROVE  G!GradeLongDivision(page, AllChecks, given.condition, matches).verdict # "wrong"
<1> DEFINE errors == {i \in Wrong : page[i].copied}
           found == given.condition.result # G!NoValue /\ \E i \in DOMAIN page :
                       \/ page[i].form = "number" /\ G!Same(page[i].values[1], given.condition.result)
                       \/ G!Kind(page, i) = "signed" /\ G!Same(page[i].column.number, given.condition.result)
                       \/ page[i].form = "equality" /\ G!Same(G!Last(page[i].values), given.condition.result)
           g == G!GradeLongDivision(page, AllChecks, given.condition, matches)
<1>1. errors = {}
  OBVIOUS
<1>2. g = CASE errors # {} \/ matches = "no" -> G!Verdict("wrong", G!FirstOf(errors), "none", AllChecks)
            [] errors = {} /\ matches # "no" /\ (matches = "yes" \/ found) ->
                 G!Verdict("correct", 0, "none", AllChecks)
            [] OTHER -> G!Verdict("uncertain", 0, "column_unreadable", AllChecks)
  BY DEF G!GradeLongDivision, Wrong
<1> HIDE DEF errors, found, g
<1>3. g = G!Verdict("correct", 0, "none", AllChecks) \/ g = G!Verdict("uncertain", 0, "column_unreadable", AllChecks)
  BY <1>1, <1>2
<1>4. g.verdict # "wrong"
  BY <1>3 DEF G!Verdict
<1> QED BY <1>4 DEF g

LEMMA AnswerIs ==
    LET g == G!GradeAnswer(page, AllChecks, given.answer, given.ref)
        matches == G!AnswerMatches(page, AllChecks, given.answer, given.ref)
    IN /\ g.checks = AllChecks
       /\ g.verdict = "wrong" => matches = "no" \/ (matches = "unknown" /\ Wrong # {})
       /\ matches = "unknown" /\ Wrong # {} => g.verdict = "wrong" /\ g.line = G!FirstOf(Wrong)
       /\ g.verdict = "correct" => matches = "yes"
<1> DEFINE g == G!GradeAnswer(page, AllChecks, given.answer, given.ref)
           matches == G!AnswerMatches(page, AllChecks, given.answer, given.ref)
<1>1. g = CASE matches = "yes" -> G!Verdict("correct", 0, "none", AllChecks)
            [] matches = "no" \/ (matches = "unknown" /\ Wrong # {}) ->
                 G!Verdict("wrong", G!FirstOf(Wrong), "none", AllChecks)
            [] OTHER -> G!Verdict("uncertain", 0, G!Reason(page, AllChecks, given.answer), AllChecks)
  BY DEF G!GradeAnswer, Wrong
<1> HIDE DEF g, matches
<1>2. CASE matches = "yes"
  BY <1>1, <1>2 DEF G!Verdict, g, matches
<1>3. CASE matches = "no" \/ (matches = "unknown" /\ Wrong # {})
  <2>1. g = G!Verdict("wrong", G!FirstOf(Wrong), "none", AllChecks)
    BY <1>1, <1>3
  <2> QED BY <1>3, <2>1 DEF G!Verdict, g, matches
<1>4. CASE ~(matches = "yes") /\ ~(matches = "no" \/ (matches = "unknown" /\ Wrong # {}))
  <2>1. g = G!Verdict("uncertain", 0, G!Reason(page, AllChecks, given.answer), AllChecks)
    BY <1>1, <1>4
  <2> QED BY <1>4, <2>1 DEF G!Verdict, g, matches
<1> QED BY <1>2, <1>3, <1>4

LEMMA MatchesIs ==
    ASSUME GState
    PROVE  LET matches == G!AnswerMatches(page, AllChecks, given.answer, given.ref)
           IN /\ matches = Compared \/ matches = "yes"
              /\ Wrong # {} => matches = Compared
              /\ matches = "yes" => Compared = "yes" \/ (Wrong = {} /\ G!Having(AllChecks, "ok") # {})
<1>1. CASE G!Compare(given.answer, given.ref) = "unknown" /\ Wrong = {} /\ G!LastValueMatches(page, AllChecks, given.ref)
  <2>1. G!AnswerMatches(page, AllChecks, given.answer, given.ref) = "yes"
    BY <1>1 DEF G!AnswerMatches, Wrong
  <2>2. G!Having(AllChecks, "ok") # {}
    <3>1. PICK n \in DOMAIN page : AllChecks[n].status = "ok"
      BY <1>1, LastLineIs
    <3> QED BY <3>1, WrongIs DEF G!Having
  <2> QED BY <1>1, <2>1, <2>2
<1>2. CASE ~(G!Compare(given.answer, given.ref) = "unknown" /\ Wrong = {} /\ G!LastValueMatches(page, AllChecks, given.ref))
  <2>1. G!AnswerMatches(page, AllChecks, given.answer, given.ref) = Compared
    BY <1>2 DEF G!AnswerMatches, Wrong, Compared
  <2> QED BY <2>1
<1> QED BY <1>1, <1>2

LEMMA FalseErrorNever == ASSUME GState PROVE G!NoFalseError
<1> SUFFICES ASSUME \A i \in DOMAIN page : G!Holds(i) \/ G!ReadDifferently(page[i]),
                    G!SolvedOneByOne, Compared # "no", G!ColumnsStandOut
             PROVE  G!Graded.verdict # "wrong"
  BY DEF G!NoFalseError, G!WorkIsRight, Compared
<1>1. \A n \in DOMAIN page : JudgedLine(n).status # "mismatch"
  BY LineJudged
<1>2. Wrong = {}
  BY <1>1, WrongIs
<1>3. CASE Multipart /\ ~Long
  BY <1>2, <1>3, GradeIs, ByLinesIs
<1>4. CASE Long
  <2>1. G!Graded = G!GradeLongDivision(page, AllChecks, given.condition, "unknown")
        \/ G!Graded = G!GradeLongDivision(page, AllChecks, given.condition, Compared)
    BY <1>4, GradeIs
  <2>2. "unknown" # "no"
    OBVIOUS
  <2> QED BY <1>2, <2>1, <2>2, LongIs
<1>5. CASE ~Multipart /\ ~Long
  <2>1. G!AnswerMatches(page, AllChecks, given.answer, given.ref) # "no"
    BY MatchesIs
  <2> QED BY <1>2, <1>5, <2>1, GradeIs, AnswerIs
<1> QED BY <1>3, <1>4, <1>5

\* The first line that disagrees decides, when nothing else does.
LEMMA MismatchCondemns ==
    ASSUME GState, NEW i \in DOMAIN page, JudgedLine(i).status = "mismatch"
    PROVE  G!Condemns(i)
<1> SUFFICES ASSUME Compared = "unknown", ~Long
             PROVE  G!Graded.verdict = "wrong" /\ G!Graded.line \in 1 .. i
  BY DEF G!Condemns, Compared, Long
<1>1. i \in Wrong /\ Wrong \subseteq DOMAIN page
  BY WrongIs
<1>2. Wrong # {} /\ G!FirstOf(Wrong) \in 1 .. i
  <2>1. DOMAIN page = 1 .. Len(page) /\ Len(page) \in Nat
    BY LenProperties DEF GState
  <2>2. Wrong \subseteq Nat
    BY <1>1, <2>1
  <2>3. G!FirstOf(Wrong) \in Wrong /\ G!FirstOf(Wrong) <= i
    BY <1>1, <2>2, FirstIs
  <2> QED BY <1>1, <2>1, <2>3
<1>3. CASE Multipart
  BY <1>2, <1>3, GradeIs, ByLinesIs
<1>4. CASE ~Multipart
  <2>1. G!AnswerMatches(page, AllChecks, given.answer, given.ref) = "unknown"
    BY <1>2, MatchesIs
  <2> QED BY <1>2, <1>4, <2>1, GradeIs, AnswerIs
<1> QED BY <1>3, <1>4

LEMMA ErrorStandsAlways == ASSUME GState PROVE G!ErrorStands
<1>1. ASSUME NEW i \in DOMAIN page,
             page[i].form = "equality", page[i].reread = <<>>, ~G!AllSame(page[i].values), ~page[i].copied,
             ~G!Impossible(page[i].values[1], G!Last(page[i].values), page[i])
      PROVE  G!Condemns(i)
  <2>1. JudgedLine(i).status = "mismatch"
    BY <1>1, ArithmeticJudged
  <2> QED BY <2>1, MismatchCondemns
<1>2. ASSUME NEW i \in DOMAIN page, NEW c \in G!Shaped(page, i), G!ColumnsStandOut, G!Clear(c),
             ~G!Same(page[i].column.number, G!Worked(page, c)),
             ~G!Impossible(G!Worked(page, c), page[i].column.number, page[i])
      PROVE  G!Condemns(i)
  <2>1. c \in Taken /\ c.to = i
    BY <1>2, ClearIsTaken, ShapedIs
  <2>2. FromColumn(i) = G!Worked(page, c)
    BY <2>1, ResultIs
  <2>3. FromColumn(i) # G!NoValue
    <3>1. G!Worked(page, c) \in G!Fractions
      BY ColumnNumbers
    <3> QED BY <2>2, <3>1 DEF G!Fractions, G!NoValue
  <2>4. JudgedLine(i).status = "mismatch"
    BY <1>2, <2>2, <2>3, ColumnJudged
  <2> QED BY <2>4, MismatchCondemns
<1> QED BY <1>1, <1>2 DEF G!ErrorStands

LEMMA CorrectAlwaysProved == ASSUME GState PROVE G!CorrectIsProved
<1> SUFFICES ASSUME G!Graded.verdict = "correct", ~Long, Compared # "yes"
             PROVE  /\ G!Having(G!Graded.checks, "ok") # {}
                    /\ \A i \in DOMAIN page :
                          \/ G!Holds(i) \/ G!ReadDifferently(page[i]) \/ G!Graded.checks[i].doubtful
                          \/ page[i].form = "number" /\ G!Graded.checks[i].status = "skipped"
  BY DEF G!CorrectIsProved, Compared, Long
<1>1. G!Graded.checks = AllChecks /\ Wrong = {} /\ G!Having(AllChecks, "ok") # {}
  <2>1. CASE Multipart
    BY <2>1, GradeIs, ByLinesIs
  <2>2. CASE ~Multipart
    <3>1. G!AnswerMatches(page, AllChecks, given.answer, given.ref) = "yes"
      BY <2>2, GradeIs, AnswerIs
    <3> QED BY <2>2, <3>1, GradeIs, AnswerIs, MatchesIs
  <2> QED BY <2>1, <2>2
<1>2. ASSUME NEW i \in DOMAIN page
      PROVE  \/ G!Holds(i) \/ G!ReadDifferently(page[i]) \/ AllChecks[i].doubtful
             \/ page[i].form = "number" /\ AllChecks[i].status = "skipped"
  <2>1. JudgedLine(i).status # "mismatch" /\ AllChecks[i] = JudgedLine(i)
    BY <1>1, WrongIs
  <2> QED BY <2>1, LineJudged
<1> QED BY <1>1, <1>2

GradingInv == part = "grading" => GState

LEMMA GradingInvariant == HSpec => []GradingInv
<1>1. HInit => GradingInv
  <2> SUFFICES ASSUME HInit, part = "grading" PROVE GState
    BY DEF GradingInv
  <2>1. G!Init
    BY DEF HInit
  <2> QED BY <2>1, EmptySeq DEF G!Init, GState
<1>2. GradingInv /\ [HNext]_hvars => GradingInv'
  <2> SUFFICES ASSUME GradingInv, [HNext]_hvars, part' = "grading" PROVE GState'
    BY DEF GradingInv
  <2>1. part = "grading" /\ (G!Next \/ UNCHANGED gvars)
    BY DEF HNext, hvars, gvars
  <2>2. GState
    BY <2>1 DEF GradingInv
  <2>3. CASE G!Next
    <3>1. PICK line \in given.lines : page' = Append(page, line)
      BY <2>3 DEF G!Next, G!WriteLine
    <3>2. page' \in Seq(given.lines)
      BY <2>2, <3>1, AppendProperties DEF GState
    <3>3. given' = given
      BY <2>3 DEF G!Next, G!WriteLine
    <3> QED BY <2>2, <3>2, <3>3 DEF GState
  <2>4. CASE UNCHANGED gvars
    BY <2>2, <2>4 DEF gvars, GState
  <2> QED BY <2>1, <2>3, <2>4
<1> QED BY <1>1, <1>2, PTL DEF HSpec

\* A child who made no error is told of none as long as what stands like a column is one; an error
\* that shows in an equality or in a clear column is not passed over, and "correct" is said only of
\* work that was proved right, whatever lines the child writes and whatever the condition and the two
\* answers are (grade.py, reading.py, validator.py).
THEOREM VerdictsAreRight == HSpec => []VerdictsStand
<1>1. GradingInv => VerdictsStand
  BY FalseErrorNever, ErrorStandsAlways, CorrectAlwaysProved DEF GradingInv, VerdictsStand
<1> QED BY <1>1, GradingInvariant, PTL
=============================================================================
