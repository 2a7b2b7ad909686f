---------------------------- MODULE DialogProofs ----------------------------
(***************************************************************************)
(* Proofs about the dialog with a student.  Every handler leaves calls in  *)
(* todo that are made one by one, and any of them may fail, so the four    *)
(* properties are about quiet moments and none is inductive.  DInv says    *)
(* what holds while calls are on their way:                                *)
(*   Phased    the phase of the chat says which of its fields are set;     *)
(*   Queued    questions are of words and tasks of this check, no two of   *)
(*             the same word or under one token;                           *)
(*   Buttoned  a button, on the screen or on its way, that carries the     *)
(*             token of a question is a button of that question;           *)
(*   Ordered, Expected                                                     *)
(*             the calls that wait, in which order, and what each of them  *)
(*             still finds when its turn comes;                            *)
(*   Heard     the question at the head is on the screen or on its way;    *)
(*   Offered   so is the button of each error that is left, or a question  *)
(*             is waiting about its task;                                  *)
(*   Worked    the numbers in the chat are those of the history;           *)
(*   Counted   the row counts what was resolved, less the call that waits; *)
(*   Kept      a check without a row has the call that will number it;     *)
(*   Told      nothing is left in a check whose end the parent was told.   *)
(***************************************************************************)
EXTENDS Dialog, FiniteSetTheorems, SequenceTheorems, WellFoundedInduction, NaturalsInduction, TLAPS

ChatStates ==
    [phase : Phases, check : Checks \union {0}, subject : Subjects, tasks : Seq(Tasks),
     queue : Seq(Questions), tutor : Sessions \union {None}, index : Nat,
     resolved : Seq(Nat \ {0}), shown : SUBSET (Nat \ {0}), homework : Nat]
CallNames == Guarded \union {"say", "ask"}
ToDos     == [call : CallNames, buttons : SUBSET AllButtons]
Rows      == [check : Checks, resolved : Nat]

HistoryOK ==
    /\ rows \in Seq(Rows)
    /\ checks \in Checks \union {0}
    /\ screen \subseteq AllButtons
    /\ asked \in Tokens \union {None}
    /\ ended \subseteq Nat \ {0}
    /\ fixed \subseteq ended
    /\ told \subseteq 1..checks
    /\ gaveUp \in BOOLEAN
    /\ failures \in 0..MaxFailures

Waits(call) == \E i \in DOMAIN todo : todo[i].call = call
OnTheWay(b) == \E i \in DOMAIN todo : b \in todo[i].buttons

\* The phase says what else there is.
Phased ==
    /\ chat.phase = "tutoring" <=> chat.tutor # None
    /\ chat.phase = "tutoring" => chat.index \in DOMAIN chat.tasks
    /\ chat.phase # "idle" <=> chat.check # 0
    /\ chat.phase = "clarifying" <=> chat.queue # <<>>
    /\ chat.check # 0 => chat.check = checks
    /\ chat.check = 0 => chat.tasks = <<>> /\ chat.homework = 0
    /\ chat.homework <= Len(rows)

\* A question is of a task of the chat, and no two are the same.
Asks(q) ==
    /\ q.task \in DOMAIN chat.tasks
    /\ q.token[1] = chat.check
    /\ q.kind = "word" => /\ q.word \in DOMAIN chat.tasks[q.task].words
                          /\ chat.tasks[q.task].words[q.word] = "open"
SameWord(p, q) == p.kind = "word" /\ q.kind = "word" /\ p.task = q.task /\ p.word = q.word
Queued ==
    /\ \A n \in DOMAIN chat.queue : Asks(chat.queue[n])
    /\ \A n, m \in DOMAIN chat.queue :
          n # m => /\ chat.queue[n].token # chat.queue[m].token
                   /\ ~SameWord(chat.queue[n], chat.queue[m])

\* A button that has the token of a question is of that question.
Fits(b) ==
    b.kind \in Buttons =>
        /\ b.token \in Tokens /\ b.token[1] = b.check /\ b.check <= checks
        /\ \A n \in DOMAIN chat.queue :
              LET q == chat.queue[n]
              IN  q.token = b.token => b.kind = q.kind /\ b.task = q.task /\ b.word = q.word
Buttoned ==
    /\ \A b \in screen : Fits(b)
    /\ \A i \in DOMAIN todo : \A b \in todo[i].buttons : todo[i].call = "say" /\ Fits(b)

\* The calls of a handler come in the order of the code, each once.
Ordered ==
    \A i \in DOMAIN todo :
        /\ todo[i].call = "add_homework" => i = Len(todo) - 1 /\ todo[i + 1].call = "homework_id"
        /\ todo[i].call = "homework_id" =>
              /\ i = Len(todo)
              /\ i > 1 => todo[i - 1].call = "add_homework"
              /\ i = 1 => rows # <<>> /\ rows[Len(rows)] = [check |-> chat.check, resolved |-> 0]
        /\ todo[i].call = "resolve_error" =>
              i = Len(todo) \/ (i = Len(todo) - 1 /\ todo[i + 1].call = "tell")
        /\ todo[i].call = "tell" => i = Len(todo)

\* What the calls that wait go by.
Expected ==
    /\ Waits("ask") => chat.queue # <<>>
    /\ Waits("homework_id") => chat.check # 0 /\ chat.homework = 0 /\ fixed = {} /\ chat.resolved = <<>>
    /\ Waits("resolve_error") \/ Waits("tell") => chat.homework # 0
    /\ Waits("tell") => chat.queue = <<>> /\ Remaining(chat) = {}

Heard ==
    failures = 0 /\ chat.queue # <<>> => asked = Head(chat.queue).token \/ Waits("ask")

Offered ==
    failures = 0 /\ ~gaveUp /\ chat.phase \in {"clarifying", "review"} =>
        \A i \in Remaining(chat) :
            \/ TutorButton(chat, i) \in screen
            \/ OnTheWay(TutorButton(chat, i))
            \/ \E n \in DOMAIN chat.queue : chat.queue[n].task = i

\* What has come to an end is in the chat as in the history.
Worked ==
    chat.check # 0 => /\ Elements(chat.resolved) = fixed
                      /\ Elements(chat.resolved) \union chat.shown = ended

Due == IF Waits("resolve_error") THEN 1 ELSE 0

Counted ==
    chat.homework # 0 =>
        /\ rows[chat.homework].check = chat.check
        /\ rows[chat.homework].resolved + Due <= Cardinality(fixed)
        /\ failures = 0 => rows[chat.homework].resolved + Due = Cardinality(fixed)

Kept == failures = 0 /\ chat.check # 0 /\ chat.homework = 0 => Waits("homework_id")

Told ==
    chat.check \in told =>
        /\ chat.queue = <<>>
        /\ \A i \in DOMAIN chat.tasks : Strength(chat.tasks[i]) = "verified" => i \in ended

DInv ==
    /\ chat \in ChatStates /\ HistoryOK /\ todo \in Seq(ToDos)
    /\ Phased /\ Queued /\ Buttoned /\ Ordered /\ Expected /\ Heard /\ Offered /\ Worked /\ Counted
    /\ Kept /\ Told

-----------------------------------------------------------------------------
LEMMA TailFacts ==
    ASSUME NEW S, NEW s \in Seq(S), s # <<>>, NEW t, t = Tail(s)
    PROVE  /\ t \in Seq(S) /\ Len(t) = Len(s) - 1 /\ Len(s) \in Nat \ {0}
           /\ DOMAIN s = 1..Len(s) /\ DOMAIN t = 1..Len(t)
           /\ 1 \in DOMAIN s /\ Head(s) = s[1]
           /\ \A i \in DOMAIN t : i + 1 \in DOMAIN s /\ t[i] = s[i + 1]
           /\ \A i \in DOMAIN s : i # 1 => i - 1 \in DOMAIN t /\ t[i - 1] = s[i]
<1>1. t \in Seq(S) /\ Len(t) = Len(s) - 1 /\ \A i \in 1..Len(t) : t[i] = s[i + 1]
  BY HeadTailProperties
<1>2. Len(s) \in Nat \ {0} /\ DOMAIN s = 1..Len(s) /\ DOMAIN t = 1..Len(t)
  BY <1>1, EmptySeq, LenProperties
<1>3. Head(s) = s[1]
  OBVIOUS
<1>4. \A i \in DOMAIN s : i # 1 => i - 1 \in DOMAIN t /\ t[i - 1] = s[i]
  <2> SUFFICES ASSUME NEW i \in 1..Len(s), i # 1 PROVE i - 1 \in 1..Len(t) /\ t[i - 1] = s[i]
    BY <1>2
  <2>1. i - 1 \in 1..Len(t) /\ (i - 1) + 1 = i
    BY <1>1, <1>2
  <2> QED BY <1>1, <2>1
<1> QED BY <1>1, <1>2, <1>3, <1>4

\* The state of a chat, field by field.
LEMMA ChatFields ==
    ASSUME NEW c \in ChatStates
    PROVE  /\ c.phase \in Phases /\ c.check \in Checks \union {0} /\ c.subject \in Subjects
           /\ c.tasks \in Seq(Tasks) /\ c.queue \in Seq(Questions) /\ c.tutor \in Sessions \union {None}
           /\ c.index \in Nat /\ c.resolved \in Seq(Nat \ {0}) /\ c.shown \in SUBSET (Nat \ {0})
           /\ c.homework \in Nat
BY DEF ChatStates

LEMMA WithQueue ==
    ASSUME NEW c \in ChatStates, NEW d, NEW q \in Seq(Questions),
           d = [c EXCEPT !.queue = q]
    PROVE  /\ d \in ChatStates /\ d.queue = q
           /\ d.phase = c.phase /\ d.check = c.check /\ d.subject = c.subject /\ d.tasks = c.tasks
           /\ d.tutor = c.tutor /\ d.index = c.index /\ d.resolved = c.resolved /\ d.shown = c.shown
           /\ d.homework = c.homework
BY DEF ChatStates

LEMMA WithSession ==
    ASSUME NEW c \in ChatStates, NEW d, NEW session \in Sessions,
           d = [c EXCEPT !.tutor = session]
    PROVE  /\ d \in ChatStates /\ d.tutor = session
           /\ d.queue = c.queue /\ d.phase = c.phase /\ d.index = c.index
           /\ d.check = c.check /\ d.subject = c.subject /\ d.tasks = c.tasks
           /\ d.resolved = c.resolved /\ d.shown = c.shown
           /\ d.homework = c.homework
BY DEF ChatStates

LEMMA WithHomework ==
    ASSUME NEW c \in ChatStates, NEW d, NEW n \in Nat,
           d = [c EXCEPT !.homework = n]
    PROVE  /\ d \in ChatStates /\ d.homework = n
           /\ d.queue = c.queue /\ d.phase = c.phase /\ d.index = c.index /\ d.tutor = c.tutor
           /\ d.check = c.check /\ d.subject = c.subject /\ d.tasks = c.tasks
           /\ d.resolved = c.resolved /\ d.shown = c.shown
BY DEF ChatStates

LEMMA FreshFields ==
    /\ Fresh \in ChatStates
    /\ Fresh.phase = "idle" /\ Fresh.check = 0 /\ Fresh.tasks = <<>> /\ Fresh.queue = <<>>
    /\ Fresh.tutor = None /\ Fresh.resolved = <<>> /\ Fresh.shown = {} /\ Fresh.homework = 0
BY DialogAssumption, EmptySeq DEF Fresh, ChatStates, Phases

LEMMA FreshIn ==
    ASSUME NEW subject \in Subjects, NEW d, d = [Fresh EXCEPT !.subject = subject]
    PROVE  /\ d \in ChatStates
           /\ d.phase = "idle" /\ d.check = 0 /\ d.tasks = <<>> /\ d.queue = <<>>
           /\ d.tutor = None /\ d.resolved = <<>> /\ d.shown = {} /\ d.homework = 0
BY EmptySeq DEF Fresh, ChatStates, Phases

-----------------------------------------------------------------------------
(***************************************************************************)
(* FlattenSeq, and the questions a plan is made of.                        *)
(***************************************************************************)
LEMMA LeastNumber ==
    ASSUME NEW S, S \subseteq Nat, S # {}
    PROVE  \E n \in S : \A m \in S : n <= m
<1> DEFINE R == OpToRel(<, Nat)
<1>1. IsWellFoundedOn(R, Nat)
  BY NatLessThanWellFounded
<1> HIDE DEF R
<1>2. PICK n \in S : \A m \in S : ~(<<m, n>> \in R)
  BY <1>1, WFMin
<1>3. ASSUME NEW m \in S PROVE n <= m
  <2>1. m \in Nat /\ n \in Nat /\ <<m, n>> \notin R
    BY <1>2
  <2>2. ~(m < n)
    BY <2>1 DEF R, OpToRel
  <2> QED BY <2>1, <2>2
<1> QED BY <1>3

\* The function that FlattenSeq is defined by, on the first k sequences.
Flattens(f, seqs, k) == f = [i \in 1..k |-> IF i = 1 THEN seqs[i] ELSE f[i - 1] \o seqs[i]]

LEMMA FlattensExists ==
    ASSUME NEW seqs, NEW n \in Nat \ {0}
    PROVE  \E f : Flattens(f, seqs, n)
<1> DEFINE Bad == {k \in 1..n : ~\E f : Flattens(f, seqs, k)}
<1> SUFFICES ASSUME Bad # {} PROVE FALSE
  OBVIOUS
<1>1. PICK k \in Bad : \A m \in Bad : k <= m
  <2>1. Bad \subseteq Nat
    OBVIOUS
  <2> HIDE DEF Bad
  <2> QED BY <2>1, LeastNumber
<1>2. k \in 1..n /\ ~\E f : Flattens(f, seqs, k)
  OBVIOUS
<1>3. CASE k = 1
  <2> DEFINE f == [i \in 1..1 |-> seqs[i]]
  <2>1. f = [i \in 1..1 |-> IF i = 1 THEN seqs[i] ELSE f[i - 1] \o seqs[i]]
    OBVIOUS
  <2> QED BY <1>2, <1>3, <2>1 DEF Flattens
<1>4. CASE k # 1
  <2>1. k - 1 \in 1..n /\ ~(k <= k - 1)
    BY <1>2, <1>4
  <2>2. k - 1 \notin Bad
    BY <1>1, <2>1
  <2>3. PICK f : Flattens(f, seqs, k - 1)
    BY <2>1, <2>2
  <2> DEFINE g == [i \in 1..k |-> IF i = k THEN f[k - 1] \o seqs[k] ELSE f[i]]
  <2>4. ASSUME NEW i \in 1..k
        PROVE  g[i] = IF i = 1 THEN seqs[i] ELSE g[i - 1] \o seqs[i]
    <3>1. CASE i = k
      <4>1. i # 1 /\ i - 1 \in 1..k /\ i - 1 # k
        BY <1>2, <1>4, <3>1
      <4>2. g[i - 1] = f[k - 1]
        BY <3>1, <4>1
      <4> QED BY <3>1, <4>1, <4>2
    <3>2. CASE i # k /\ i = 1
      <4>1. 1 \in 1..(k - 1)
        BY <1>2, <3>2
      <4> QED BY <2>3, <3>2, <4>1 DEF Flattens
    <3>3. CASE i # k /\ i # 1
      <4>1. i \in 1..(k - 1) /\ i - 1 \in 1..k /\ i - 1 # k
        BY <1>2, <3>3
      <4>2. f[i] = f[i - 1] \o seqs[i]
        BY <2>3, <3>3, <4>1 DEF Flattens
      <4> QED BY <3>3, <4>1, <4>2
    <3> QED BY <3>1, <3>2, <3>3
  <2>5. g = [i \in 1..k |-> IF i = 1 THEN seqs[i] ELSE g[i - 1] \o seqs[i]]
    <3>1. g = [i \in 1..k |-> g[i]]
      OBVIOUS
    <3> HIDE DEF g
    <3> QED BY <2>4, <3>1
  <2>6. Flattens(g, seqs, k)
    <3> HIDE DEF g
    <3> QED BY <2>5 DEF Flattens
  <2> QED BY <1>2, <2>6
<1> QED BY <1>3, <1>4

LEMMA FlattenIs ==
    ASSUME NEW seqs, Len(seqs) \in Nat \ {0}
    PROVE  \E f : Flattens(f, seqs, Len(seqs)) /\ FlattenSeq(seqs) = f[Len(seqs)]
<1> DEFINE g == CHOOSE g : g = [i \in 1..Len(seqs) |-> IF i = 1 THEN seqs[i] ELSE g[i - 1] \o seqs[i]]
<1>1. g = [i \in 1..Len(seqs) |-> IF i = 1 THEN seqs[i] ELSE g[i - 1] \o seqs[i]]
  BY FlattensExists DEF Flattens
<1>2. FlattenSeq(seqs) = g[Len(seqs)]
  BY DEF FlattenSeq
<1> HIDE DEF g
<1> QED BY <1>1, <1>2 DEF Flattens

\* No element occurs twice, in one sequence or in two.
AllDistinct(seqs) ==
    \A i, j \in 1..Len(seqs) : \A a \in 1..Len(seqs[i]), b \in 1..Len(seqs[j]) :
        seqs[i][a] = seqs[j][b] => i = j /\ a = b

\* What s is of the first k sequences.
IsFlat(s, S, seqs, k) ==
    /\ s \in Seq(S)
    /\ \A j \in 1..Len(s) : \E i \in 1..k : \E a \in 1..Len(seqs[i]) : s[j] = seqs[i][a]
    /\ AllDistinct(seqs) => \A j, l \in 1..Len(s) : s[j] = s[l] => j = l

LEMMA Apart ==
    ASSUME NEW seqs, AllDistinct(seqs), NEW i \in 1..Len(seqs), NEW j \in 1..Len(seqs),
           NEW a \in 1..Len(seqs[i]), NEW b \in 1..Len(seqs[j]), seqs[i][a] = seqs[j][b]
    PROVE  i = j /\ a = b
BY DEF AllDistinct

LEMMA FlatStep ==
    ASSUME NEW S, NEW seqs \in Seq(Seq(S)), NEW k \in 1..Len(seqs), k # 1, NEW s, IsFlat(s, S, seqs, k - 1)
    PROVE  IsFlat(s \o seqs[k], S, seqs, k)
<1>1. seqs[k] \in Seq(S) /\ s \in Seq(S) /\ Len(s) \in Nat /\ Len(seqs[k]) \in Nat
  BY ElementOfSeq, LenProperties DEF IsFlat
<1> DEFINE t == s \o seqs[k]
<1>2. /\ t \in Seq(S) /\ Len(t) = Len(s) + Len(seqs[k])
      /\ \A i \in 1..Len(t) : t[i] = IF i <= Len(s) THEN s[i] ELSE seqs[k][i - Len(s)]
  BY <1>1, ConcatProperties
<1> HIDE DEF t
<1>3. ASSUME NEW j \in 1..Len(t), j <= Len(s)
      PROVE  j \in 1..Len(s) /\ t[j] = s[j] /\ \E i \in 1..(k - 1) : \E a \in 1..Len(seqs[i]) : t[j] = seqs[i][a]
  BY <1>1, <1>2, <1>3, SMTT(60) DEF IsFlat
<1>4. ASSUME NEW j \in 1..Len(t), ~(j <= Len(s))
      PROVE  j - Len(s) \in 1..Len(seqs[k]) /\ t[j] = seqs[k][j - Len(s)]
  BY <1>1, <1>2, <1>4, SMTT(60)
<1>5. 1..(k - 1) \subseteq 1..k /\ k \in 1..k /\ k \notin 1..(k - 1) /\ 1..k \subseteq 1..Len(seqs)
  BY LenProperties
<1>6. \A j \in 1..Len(t) : \E i \in 1..k : \E a \in 1..Len(seqs[i]) : t[j] = seqs[i][a]
  BY <1>3, <1>4, <1>5, ZenonT(60)
<1>7. ASSUME AllDistinct(seqs), NEW j \in 1..Len(t), NEW l \in 1..Len(t), t[j] = t[l]
      PROVE  j = l
  <2>1. CASE j <= Len(s) /\ l <= Len(s)
    BY <1>3, <1>7, <2>1 DEF IsFlat
  <2>2. CASE ~(j <= Len(s)) /\ ~(l <= Len(s))
    <3>1. PICK a \in 1..Len(seqs[k]) : a = j - Len(s) /\ t[j] = seqs[k][a]
      BY <1>4, <2>2
    <3>2. PICK b \in 1..Len(seqs[k]) : b = l - Len(s) /\ t[l] = seqs[k][b]
      BY <1>4, <2>2
    <3>4. seqs[k][a] = seqs[k][b]
      BY <1>7, <3>1, <3>2
    <3>3. a = b
      BY <1>7, <3>4, Apart
    <3> QED BY <1>1, <1>2, <3>1, <3>2, <3>3
  <2>3. CASE j <= Len(s) /\ ~(l <= Len(s))
    <3>1. PICK i \in 1..(k - 1) : \E a \in 1..Len(seqs[i]) : t[j] = seqs[i][a]
      BY <1>3, <2>3
    <3>2. PICK a \in 1..Len(seqs[i]) : t[j] = seqs[i][a]
      BY <3>1
    <3>3. PICK b \in 1..Len(seqs[k]) : t[l] = seqs[k][b]
      BY <1>4, <2>3
    <3>4. seqs[i][a] = seqs[k][b] /\ i \in 1..Len(seqs)
      BY <1>5, <1>7, <3>2, <3>3
    <3>5. i = k
      BY <1>7, <3>4, Apart
    <3> QED BY <1>5, <3>5
  <2>4. CASE ~(j <= Len(s)) /\ l <= Len(s)
    <3>1. PICK i \in 1..(k - 1) : \E a \in 1..Len(seqs[i]) : t[l] = seqs[i][a]
      BY <1>3, <2>4
    <3>2. PICK a \in 1..Len(seqs[i]) : t[l] = seqs[i][a]
      BY <3>1
    <3>3. PICK b \in 1..Len(seqs[k]) : t[j] = seqs[k][b]
      BY <1>4, <2>4
    <3>4. seqs[i][a] = seqs[k][b] /\ i \in 1..Len(seqs)
      BY <1>5, <1>7, <3>2, <3>3
    <3>5. i = k
      BY <1>7, <3>4, Apart
    <3> QED BY <1>5, <3>5
  <2> QED BY <2>1, <2>2, <2>3, <2>4
<1> QED BY <1>2, <1>6, <1>7 DEF IsFlat, t

\* FlattenSeq returns what the sequences consist of, each element as often as it is in them.
LEMMA FlattenFacts ==
    ASSUME NEW S, NEW seqs \in Seq(Seq(S)), seqs # <<>>
    PROVE  IsFlat(FlattenSeq(seqs), S, seqs, Len(seqs))
<1> DEFINE n == Len(seqs)
<1>1. n \in Nat \ {0}
  BY EmptySeq
<1>2. PICK f : Flattens(f, seqs, n) /\ FlattenSeq(seqs) = f[n]
  BY <1>1, FlattenIs
<1>3. \A i \in 1..n : f[i] = IF i = 1 THEN seqs[i] ELSE f[i - 1] \o seqs[i]
  BY <1>2 DEF Flattens
<1>4. \A i \in 1..n : seqs[i] \in Seq(S)
  BY ElementOfSeq
<1> HIDE DEF n
<1> DEFINE Bad == {k \in 1..n : ~IsFlat(f[k], S, seqs, k)}
<1>5. Bad = {}
  <2> SUFFICES ASSUME Bad # {} PROVE FALSE
    OBVIOUS
  <2>1. PICK k \in Bad : \A m \in Bad : k <= m
    <3>1. Bad \subseteq Nat
      OBVIOUS
    <3> HIDE DEF Bad
    <3> QED BY <3>1, LeastNumber
  <2>2. k \in 1..n /\ ~IsFlat(f[k], S, seqs, k)
    OBVIOUS
  <2>3. CASE k = 1
    <3>1. f[1] = seqs[1] /\ 1 \in 1..n /\ 1 \in 1..1 /\ seqs[1] \in Seq(S)
      BY <1>1, <1>3, <1>4
    <3> QED BY <2>2, <2>3, <3>1 DEF IsFlat, AllDistinct, n
  <2>4. CASE k # 1
    <3>1. k - 1 \in 1..n /\ ~(k <= k - 1)
      BY <1>1, <2>2, <2>4
    <3>2. IsFlat(f[k - 1], S, seqs, k - 1)
      BY <2>1, <3>1
    <3>3. f[k] = f[k - 1] \o seqs[k]
      BY <1>3, <2>2, <2>4
    <3> QED BY <2>2, <2>4, <3>2, <3>3, FlatStep DEF n
  <2> QED BY <2>3, <2>4
<1> QED BY <1>1, <1>2, <1>5 DEF n

\* The tasks of a homework as a check finds them.
Found == {tasks \in Seq(Tasks) \ {<<>>} :
              \A i \in DOMAIN tasks : \A w \in DOMAIN tasks[i].words : tasks[i].words[w] = "open"}

Places == Nat \X Kinds \X Nat

OfVerdicts(tasks) ==
    [i \in DOMAIN tasks |-> [k \in DOMAIN tasks[i].asks |-> <<i, tasks[i].asks[k], 0>>]]
OfWords(tasks) ==
    [i \in DOMAIN tasks |-> [w \in DOMAIN tasks[i].words |-> <<i, "word", w>>]]

LEMMA VerdictPlaces ==
    ASSUME NEW tasks \in Found
    PROVE  /\ FlattenSeq(OfVerdicts(tasks)) \in Seq(Places)
           /\ \A n \in 1..Len(FlattenSeq(OfVerdicts(tasks))) :
                 LET place == FlattenSeq(OfVerdicts(tasks))[n]
                 IN  place[1] \in DOMAIN tasks /\ place[2] \in VerdictKinds /\ place[3] = 0
<1> DEFINE seqs == OfVerdicts(tasks)
<1>1. tasks \in Seq(Tasks) /\ tasks # <<>> /\ DOMAIN tasks = 1..Len(tasks) /\ Len(tasks) \in Nat \ {0}
  BY EmptySeq, LenProperties DEF Found
<1>2. ASSUME NEW i \in DOMAIN tasks
      PROVE  /\ i \in Nat /\ seqs[i] = [k \in DOMAIN tasks[i].asks |-> <<i, tasks[i].asks[k], 0>>]
             /\ tasks[i].asks \in Seq(VerdictKinds)
             /\ Len(tasks[i].asks) \in Nat /\ DOMAIN tasks[i].asks = 1..Len(tasks[i].asks)
  <2>1. tasks[i] \in Tasks /\ i \in Nat
    BY <1>1, ElementOfSeq
  <2>2. tasks[i].asks \in Seq(VerdictKinds)
    BY <2>1 DEF Tasks
  <2> QED BY <2>1, <2>2, LenProperties DEF OfVerdicts
<1>3. ASSUME NEW i \in DOMAIN tasks
      PROVE  /\ seqs[i] \in Seq(Places) /\ Len(seqs[i]) = Len(tasks[i].asks)
             /\ \A k \in 1..Len(seqs[i]) : seqs[i][k][1] = i /\ seqs[i][k][2] \in VerdictKinds /\ seqs[i][k][3] = 0
  <2>1. \A k \in 1..Len(tasks[i].asks) : tasks[i].asks[k] \in VerdictKinds
    BY <1>2, ElementOfSeq
  <2>2. \A k \in 1..Len(tasks[i].asks) : <<i, tasks[i].asks[k], 0>> \in Places
    BY <1>2, <2>1 DEF Places, Kinds
  <2>3. PICK m \in Nat : m = Len(tasks[i].asks)
    BY <1>2
  <2>4. seqs[i] = [k \in 1..m |-> <<i, tasks[i].asks[k], 0>>]
    BY <1>2, <2>3
  <2>5. seqs[i] \in [1..m -> Places]
    BY <2>2, <2>3, <2>4
  <2>6. seqs[i] \in Seq(Places)
    BY <2>5, SeqDef
  <2>7. Len(seqs[i]) = m
    BY <2>3, <2>5, <2>6, LenProperties
  <2> QED BY <2>1, <2>3, <2>4, <2>6, <2>7
<1>4. seqs \in Seq(Seq(Places)) /\ seqs # <<>> /\ Len(seqs) = Len(tasks)
  <2>1. seqs \in [1..Len(tasks) -> Seq(Places)]
    BY <1>1, <1>3 DEF OfVerdicts
  <2>2. seqs \in Seq(Seq(Places))
    BY <1>1, <2>1, SeqDef
  <2>3. Len(seqs) = Len(tasks)
    BY <1>1, <2>1, <2>2, LenProperties
  <2> QED BY <1>1, <2>2, <2>3, EmptySeq
<1>5. IsFlat(FlattenSeq(seqs), Places, seqs, Len(tasks))
  BY <1>4, FlattenFacts
<1>6. ASSUME NEW n \in 1..Len(FlattenSeq(seqs))
      PROVE  LET place == FlattenSeq(seqs)[n]
             IN  place[1] \in DOMAIN tasks /\ place[2] \in VerdictKinds /\ place[3] = 0
  <2>1. PICK i \in 1..Len(tasks) : \E a \in 1..Len(seqs[i]) : FlattenSeq(seqs)[n] = seqs[i][a]
    BY <1>5 DEF IsFlat
  <2> HIDE DEF seqs
  <2> QED BY <1>1, <1>3, <2>1, SMTT(60)
<1> QED BY <1>5, <1>6 DEF IsFlat

LEMMA WordPlaces ==
    ASSUME NEW tasks \in Found
    PROVE  /\ FlattenSeq(OfWords(tasks)) \in Seq(Places)
           /\ \A n \in 1..Len(FlattenSeq(OfWords(tasks))) :
                 LET place == FlattenSeq(OfWords(tasks))[n]
                 IN  place[1] \in DOMAIN tasks /\ place[2] = "word" /\ place[3] \in DOMAIN tasks[place[1]].words
           /\ \A n, m \in 1..Len(FlattenSeq(OfWords(tasks))) :
                 FlattenSeq(OfWords(tasks))[n] = FlattenSeq(OfWords(tasks))[m] => n = m
<1> DEFINE seqs == OfWords(tasks)
<1>1. tasks \in Seq(Tasks) /\ tasks # <<>> /\ DOMAIN tasks = 1..Len(tasks) /\ Len(tasks) \in Nat \ {0}
  BY EmptySeq, LenProperties DEF Found
<1>2. ASSUME NEW i \in DOMAIN tasks
      PROVE  /\ i \in Nat /\ seqs[i] = [w \in DOMAIN tasks[i].words |-> <<i, "word", w>>]
             /\ Len(tasks[i].words) \in Nat /\ DOMAIN tasks[i].words = 1..Len(tasks[i].words)
  <2>1. tasks[i] \in Tasks /\ i \in Nat
    BY <1>1, ElementOfSeq
  <2>2. tasks[i].words \in Seq({"open", "yes", "no"})
    BY <2>1 DEF Tasks
  <2> QED BY <2>1, <2>2, LenProperties DEF OfWords
<1>3. ASSUME NEW i \in DOMAIN tasks
      PROVE  /\ seqs[i] \in Seq(Places) /\ Len(seqs[i]) = Len(tasks[i].words)
             /\ \A w \in 1..Len(seqs[i]) : w \in DOMAIN tasks[i].words /\ seqs[i][w] = <<i, "word", w>>
  <2>1. i \in Nat /\ "word" \in Kinds /\ 1..Len(tasks[i].words) \subseteq Nat
    BY <1>2 DEF Kinds, Buttons
  <2>2. \A w \in 1..Len(tasks[i].words) : <<i, "word", w>> \in Places
    BY <2>1 DEF Places
  <2>3. PICK m \in Nat : m = Len(tasks[i].words)
    BY <1>2
  <2>4. seqs[i] = [w \in 1..m |-> <<i, "word", w>>]
    BY <1>2, <2>3
  <2>5. seqs[i] \in [1..m -> Places]
    BY <2>2, <2>3, <2>4
  <2>6. seqs[i] \in Seq(Places)
    BY <2>5, SeqDef
  <2>7. Len(seqs[i]) = m
    BY <2>3, <2>5, <2>6, LenProperties
  <2> QED BY <1>2, <2>3, <2>4, <2>6, <2>7
<1>4. seqs \in Seq(Seq(Places)) /\ seqs # <<>> /\ Len(seqs) = Len(tasks)
  <2>1. seqs \in [1..Len(tasks) -> Seq(Places)]
    BY <1>1, <1>3 DEF OfWords
  <2>2. seqs \in Seq(Seq(Places))
    BY <1>1, <2>1, SeqDef
  <2>3. Len(seqs) = Len(tasks)
    BY <1>1, <2>1, <2>2, LenProperties
  <2> QED BY <1>1, <2>2, <2>3, EmptySeq
<1>5. IsFlat(FlattenSeq(seqs), Places, seqs, Len(tasks))
  BY <1>4, FlattenFacts
<1> HIDE DEF seqs
<1>6. ASSUME NEW n \in 1..Len(FlattenSeq(seqs))
      PROVE  LET place == FlattenSeq(seqs)[n]
             IN  place[1] \in DOMAIN tasks /\ place[2] = "word" /\ place[3] \in DOMAIN tasks[place[1]].words
  <2>1. PICK i \in 1..Len(tasks) : \E a \in 1..Len(seqs[i]) : FlattenSeq(seqs)[n] = seqs[i][a]
    BY <1>5 DEF IsFlat
  <2> QED BY <1>1, <1>3, <2>1, SMTT(60)
<1>7. AllDistinct(seqs)
  <2> SUFFICES ASSUME NEW i \in 1..Len(seqs), NEW j \in 1..Len(seqs),
                      NEW a \in 1..Len(seqs[i]), NEW b \in 1..Len(seqs[j]), seqs[i][a] = seqs[j][b]
               PROVE  i = j /\ a = b
    BY DEF AllDistinct
  <2>1. seqs[i][a] = <<i, "word", a>> /\ seqs[j][b] = <<j, "word", b>>
    BY <1>1, <1>3, <1>4
  <2>2. <<i, "word", a>> = <<j, "word", b>>
    BY <2>1
  <2> QED BY <2>2
<1> QED BY <1>5, <1>6, <1>7 DEF IsFlat, seqs

\* plan_clarifications(): each question is of a task, about a word at most one, and has its own token.
LEMMA PlanFacts ==
    ASSUME NEW tasks \in Found, NEW check \in Checks
    PROVE  /\ Plan(tasks, check) \in Seq(Questions)
           /\ \A n \in DOMAIN Plan(tasks, check) :
                 LET q == Plan(tasks, check)[n]
                 IN  /\ q.task \in DOMAIN tasks /\ q.token = <<check, n>>
                     /\ q.kind = "word" => q.word \in DOMAIN tasks[q.task].words
           /\ \A n, m \in DOMAIN Plan(tasks, check) :
                 n # m => ~SameWord(Plan(tasks, check)[n], Plan(tasks, check)[m])
<1> DEFINE verdicts == FlattenSeq(OfVerdicts(tasks))
           words    == FlattenSeq(OfWords(tasks))
           all      == verdicts \o words
           upTo     == IF Len(all) < MaxQuestions THEN Len(all) ELSE MaxQuestions
           plan     == [n \in 1..upTo |-> Question(check, n, all[n][1], all[n][2], all[n][3])]
<1>1. Plan(tasks, check) = plan
  BY DEF Plan, OfVerdicts, OfWords
<1>2. /\ verdicts \in Seq(Places)
      /\ \A n \in 1..Len(verdicts) : /\ verdicts[n][1] \in DOMAIN tasks
                                     /\ verdicts[n][2] \in VerdictKinds /\ verdicts[n][3] = 0
  BY VerdictPlaces
<1>3. /\ words \in Seq(Places)
      /\ \A n \in 1..Len(words) : /\ words[n][1] \in DOMAIN tasks /\ words[n][2] = "word"
                                  /\ words[n][3] \in DOMAIN tasks[words[n][1]].words
      /\ \A n, m \in 1..Len(words) : words[n] = words[m] => n = m
  BY WordPlaces
<1> HIDE DEF verdicts, words
<1>4. /\ all \in Seq(Places) /\ Len(all) = Len(verdicts) + Len(words)
      /\ \A n \in 1..Len(all) : all[n] = IF n <= Len(verdicts) THEN verdicts[n] ELSE words[n - Len(verdicts)]
      /\ Len(verdicts) \in Nat /\ Len(words) \in Nat /\ Len(all) \in Nat
  BY <1>2, <1>3, ConcatProperties, LenProperties
<1> HIDE DEF all
<1>5. /\ upTo \in Nat /\ upTo <= MaxQuestions /\ 1..upTo \subseteq 1..Len(all)
      /\ 1..upTo \subseteq 1..MaxQuestions /\ MaxQuestions = 2
  BY <1>4 DEF MaxQuestions
<1> HIDE DEF upTo
<1>6. ASSUME NEW n \in 1..upTo
      PROVE  /\ all[n] \in Places /\ all[n][1] \in DOMAIN tasks
             /\ all[n][2] = "word" => /\ ~(n <= Len(verdicts)) /\ n - Len(verdicts) \in 1..Len(words)
                                      /\ all[n] = words[n - Len(verdicts)]
                                      /\ all[n][3] \in DOMAIN tasks[all[n][1]].words
  <2>1. all[n] \in Places /\ n \in 1..Len(all)
    BY <1>4, <1>5, ElementOfSeq
  <2>2. CASE n <= Len(verdicts)
    <3>1. n \in 1..Len(verdicts) /\ all[n] = verdicts[n]
      BY <1>4, <2>1, <2>2
    <3>2. "word" \notin VerdictKinds
      BY DEF VerdictKinds
    <3> QED BY <1>2, <2>1, <3>1, <3>2
  <2>3. CASE ~(n <= Len(verdicts))
    <3>1. n - Len(verdicts) \in 1..Len(words) /\ all[n] = words[n - Len(verdicts)]
      BY <1>4, <2>1, <2>3, SMTT(60)
    <3> QED BY <1>3, <2>1, <2>3, <3>1
  <2> QED BY <2>2, <2>3
<1>7. ASSUME NEW n \in 1..upTo
      PROVE  /\ plan[n] \in Questions
             /\ plan[n].task = all[n][1] /\ plan[n].kind = all[n][2] /\ plan[n].word = all[n][3]
             /\ plan[n].token = <<check, n>>
  <2>1. plan[n] = [task |-> all[n][1], kind |-> all[n][2], word |-> all[n][3], attempts |-> 0,
                   token |-> <<check, n>>]
    BY DEF Question
  <2>2. all[n][1] \in Nat /\ all[n][2] \in Kinds /\ all[n][3] \in Nat
    BY <1>6 DEF Places
  <2>3. <<check, n>> \in Tokens /\ 0 \in 0..(MaxAttempts - 1)
    BY <1>5 DEF Tokens, MaxAttempts
  <2> HIDE DEF plan
  <2> QED BY <2>1, <2>2, <2>3 DEF Questions
<1>8. plan \in Seq(Questions) /\ DOMAIN plan = 1..upTo
  <2>1. plan \in [1..upTo -> Questions]
    BY <1>7
  <2> QED BY <1>5, <2>1, SeqDef
<1>9. ASSUME NEW n \in 1..upTo, NEW m \in 1..upTo, n # m
      PROVE  ~SameWord(plan[n], plan[m])
  <2> SUFFICES ASSUME all[n][2] = "word", all[m][2] = "word", all[n][1] = all[m][1], all[n][3] = all[m][3]
               PROVE  FALSE
    <3> HIDE DEF plan
    <3>1. /\ plan[n].kind = all[n][2] /\ plan[n].task = all[n][1] /\ plan[n].word = all[n][3]
          /\ plan[m].kind = all[m][2] /\ plan[m].task = all[m][1] /\ plan[m].word = all[m][3]
      BY <1>7
    <3> QED BY <3>1 DEF SameWord
  <2>1. all[n] = all[m]
    BY <1>6, SMTT(60) DEF Places
  <2>2. words[n - Len(verdicts)] = words[m - Len(verdicts)]
    BY <1>6, <2>1
  <2>3. n - Len(verdicts) = m - Len(verdicts)
    BY <1>3, <1>6, <2>2
  <2> QED BY <1>4, <1>9, <2>3
<1> HIDE DEF plan
<1> QED BY <1>1, <1>6, <1>7, <1>8, <1>9, SMTT(60)

-----------------------------------------------------------------------------
(***************************************************************************)
(* What a handler has yet to do.                                           *)
(***************************************************************************)
LEMMA NothingWaits ==
    ASSUME todo = <<>>
    PROVE  /\ \A x : ~Waits(x)
           /\ \A b : ~OnTheWay(b)
           /\ Due = 0
BY DEF Waits, OnTheWay, Due

\* The answer of a handler that calls no notifier: buttons, and a question or none.
Talks(t, B, ask) ==
    /\ t \in Seq(ToDos)
    /\ \A i \in DOMAIN t : \/ t[i].call = "say" /\ t[i].buttons \subseteq B
                           \/ t[i].call = "ask" /\ t[i].buttons = {} /\ ask
    /\ \E i \in DOMAIN t : t[i].call = "say" /\ t[i].buttons = B
    /\ ask => \E i \in DOMAIN t : t[i].call = "ask"

LEMMA SayIsToDo ==
    ASSUME NEW B \in SUBSET AllButtons
    PROVE  Say(B) \in ToDos /\ Say(B).call = "say" /\ Say(B).buttons = B
BY DEF Say, ToDos, CallNames

LEMMA OthersAreToDos ==
    /\ Ask \in ToDos /\ Ask.call = "ask" /\ Ask.buttons = {}
    /\ Save \in ToDos /\ Save.call = "add_homework" /\ Save.buttons = {}
    /\ Link \in ToDos /\ Link.call = "homework_id" /\ Link.buttons = {}
    /\ Count \in ToDos /\ Count.call = "resolve_error" /\ Count.buttons = {}
    /\ Tell \in ToDos /\ Tell.call = "tell" /\ Tell.buttons = {}
BY DEF Ask, Save, Link, Count, Tell, ToDos, CallNames, Guarded

LEMMA SaysOnce ==
    ASSUME NEW B \in SUBSET AllButtons, NEW t, t = <<Say(B)>>
    PROVE  Talks(t, B, FALSE)
<1>1. t \in Seq(ToDos) /\ DOMAIN t = 1..1 /\ t[1] = Say(B)
  BY SayIsToDo
<1> QED BY <1>1, SayIsToDo DEF Talks

\* One call before others.
LEMMA FirstAndRest ==
    ASSUME NEW S, NEW a \in S, NEW s \in Seq(S), NEW t, t = <<a>> \o s
    PROVE  /\ t \in Seq(S) /\ Len(s) \in Nat /\ Len(t) = Len(s) + 1 /\ DOMAIN t = 1..Len(t)
           /\ DOMAIN s = 1..Len(s) /\ 1 \in DOMAIN t /\ t[1] = a
           /\ \A i \in DOMAIN s : i + 1 \in DOMAIN t /\ t[i + 1] = s[i]
           /\ \A i \in DOMAIN t : i # 1 => i - 1 \in DOMAIN s /\ t[i] = s[i - 1]
<1>1. <<a>> \in Seq(S) /\ Len(<<a>>) = 1 /\ <<a>>[1] = a
  OBVIOUS
<1>2. PICK u \in Seq(S) : u = <<a>> /\ Len(u) = 1 /\ u[1] = a
  BY <1>1
<1>3. /\ t \in Seq(S) /\ Len(t) = 1 + Len(s)
      /\ \A i \in 1..(1 + Len(s)) : t[i] = IF i <= 1 THEN u[i] ELSE s[i - 1]
  BY <1>2, ConcatProperties
<1>4. Len(s) \in Nat /\ DOMAIN s = 1..Len(s) /\ DOMAIN t = 1..Len(t)
  BY <1>3, LenProperties
<1>5. 1 \in DOMAIN t /\ t[1] = a
  BY <1>2, <1>3, <1>4
<1>6. ASSUME NEW i \in DOMAIN s
      PROVE  i + 1 \in DOMAIN t /\ t[i + 1] = s[i]
  <2>1. i + 1 \in 1..(1 + Len(s)) /\ ~(i + 1 <= 1) /\ (i + 1) - 1 = i
    BY <1>4
  <2> QED BY <1>3, <1>4, <2>1
<1>7. ASSUME NEW i \in DOMAIN t, i # 1
      PROVE  i - 1 \in DOMAIN s /\ t[i] = s[i - 1]
  <2>1. i \in 1..(1 + Len(s)) /\ ~(i <= 1) /\ i - 1 \in 1..Len(s)
    BY <1>3, <1>4, <1>7
  <2> QED BY <1>3, <1>4, <2>1
<1> QED BY <1>3, <1>4, <1>5, <1>6, <1>7, SMTT(60)

LEMMA SaysAndMore ==
    ASSUME NEW B, NEW ask \in BOOLEAN, NEW say \in ToDos, say.call = "say", say.buttons = B,
           NEW rest \in Seq(ToDos),
           \A i \in DOMAIN rest : ask /\ rest[i].call = "ask" /\ rest[i].buttons = {},
           ask => 1 \in DOMAIN rest,
           NEW t, t = <<say>> \o rest
    PROVE  Talks(t, B, ask)
<1>1. /\ t \in Seq(ToDos) /\ 1 \in DOMAIN t /\ t[1] = say
      /\ \A i \in DOMAIN rest : i + 1 \in DOMAIN t /\ t[i + 1] = rest[i]
      /\ \A i \in DOMAIN t : i # 1 => i - 1 \in DOMAIN rest /\ t[i] = rest[i - 1]
  BY FirstAndRest
<1>2. \A i \in DOMAIN rest : \E j \in DOMAIN t : t[j] = rest[i]
  BY <1>1
<1>3. ask => \E j \in DOMAIN t : t[j].call = "ask"
  BY <1>2
<1>4. ASSUME NEW i \in DOMAIN t
      PROVE  \/ t[i].call = "say" /\ t[i].buttons \subseteq B
             \/ t[i].call = "ask" /\ t[i].buttons = {} /\ ask
  BY <1>1
<1> QED BY <1>1, <1>3, <1>4 DEF Talks

LEMMA SaysAndAsks ==
    ASSUME NEW B \in SUBSET AllButtons, NEW ask \in BOOLEAN, NEW t,
           t = <<Say(B)>> \o (IF ask THEN <<Ask>> ELSE <<>>)
    PROVE  Talks(t, B, ask)
<1>1. PICK rest \in Seq(ToDos) : /\ rest = IF ask THEN <<Ask>> ELSE <<>>
                                 /\ \A i \in DOMAIN rest : ask /\ rest[i] = Ask
                                 /\ ask => 1 \in DOMAIN rest
  <2>1. CASE ask
    <3>1. <<Ask>> \in Seq(ToDos) /\ DOMAIN <<Ask>> = 1..1 /\ <<Ask>>[1] = Ask
      BY OthersAreToDos
    <3> QED BY <2>1, <3>1
  <2>2. CASE ~ask
    <3>1. <<>> \in Seq(ToDos) /\ DOMAIN <<>> = {}
      OBVIOUS
    <3> QED BY <2>2, <3>1
  <2> QED BY <2>1, <2>2
<1>2. PICK say \in ToDos : say = Say(B) /\ say.call = "say" /\ say.buttons = B
  BY SayIsToDo
<1>3. t = <<say>> \o rest
  BY <1>1, <1>2
<1>4. \A i \in DOMAIN rest : ask /\ rest[i].call = "ask" /\ rest[i].buttons = {}
  BY <1>1, OthersAreToDos
<1> QED BY <1>1, <1>2, <1>3, <1>4, SaysAndMore, ZenonT(60)

\* The part of Buttoned about what is on its way.
ButtonedToDo == \A i \in DOMAIN todo : \A b \in todo[i].buttons : todo[i].call = "say" /\ Fits(b)

LEMMA TalkStep ==
    ASSUME NEW B, NEW ask \in BOOLEAN, Talks(todo', B, ask),
           \A b \in B : Fits(b)', ask => chat'.queue # <<>>
    PROVE  /\ todo' \in Seq(ToDos) /\ ButtonedToDo' /\ Ordered' /\ Expected' /\ Due' = 0
           /\ ask => Waits("ask")'
           /\ \A b \in B : OnTheWay(b)'
<1>1. todo' \in Seq(ToDos) /\ ButtonedToDo'
  BY DEF Talks, ButtonedToDo
<1>2. \A i \in DOMAIN todo' : todo'[i].call = "say" \/ (todo'[i].call = "ask" /\ ask)
  BY DEF Talks
<1>3. Ordered'
  BY <1>2 DEF Ordered
<1>4. ~Waits("homework_id")' /\ ~Waits("resolve_error")' /\ ~Waits("tell")' /\ (Waits("ask")' => ask)
  BY <1>2 DEF Waits
<1>5. Expected' /\ Due' = 0
  BY <1>4 DEF Expected, Due
<1>6. /\ ask => Waits("ask")'
      /\ \A b \in B : OnTheWay(b)'
  BY DEF Talks, Waits, OnTheWay
<1> QED BY <1>1, <1>3, <1>5, <1>6

\* A call is made, and the others wait on.
LEMMA CallFacts ==
    ASSUME todo \in Seq(ToDos), NEW c, Calls(c)
    PROVE  /\ todo # <<>> /\ 1 \in DOMAIN todo /\ Head(todo) = todo[1] /\ todo[1].call = c
           /\ todo' \in Seq(ToDos) /\ Len(todo') = Len(todo) - 1 /\ Len(todo) \in Nat \ {0}
           /\ DOMAIN todo = 1..Len(todo) /\ DOMAIN todo' = 1..Len(todo')
           /\ \A i \in DOMAIN todo' : i + 1 \in DOMAIN todo /\ todo'[i] = todo[i + 1]
           /\ Waits(c)
           /\ \A x : Waits(x)' => Waits(x)
           /\ \A x : Waits(x) /\ x # c => Waits(x)'
           /\ \A b : OnTheWay(b)' => OnTheWay(b)
           /\ \A b : OnTheWay(b) => OnTheWay(b)' \/ b \in Head(todo).buttons
<1>1. todo # <<>> /\ Head(todo).call = c /\ todo' = Tail(todo)
  BY DEF Calls
<1>2. /\ todo' \in Seq(ToDos) /\ Len(todo') = Len(todo) - 1 /\ Len(todo) \in Nat \ {0}
      /\ DOMAIN todo = 1..Len(todo) /\ DOMAIN todo' = 1..Len(todo')
      /\ 1 \in DOMAIN todo /\ Head(todo) = todo[1]
      /\ \A i \in DOMAIN todo' : i + 1 \in DOMAIN todo /\ todo'[i] = todo[i + 1]
      /\ \A i \in DOMAIN todo : i # 1 => i - 1 \in DOMAIN todo' /\ todo'[i - 1] = todo[i]
  BY <1>1, TailFacts
<1>3. Waits(c) /\ \A x : Waits(x)' => Waits(x)
  BY <1>1, <1>2 DEF Waits
<1>4. ASSUME NEW x, Waits(x), x # c PROVE Waits(x)'
  <2>1. PICK i \in DOMAIN todo : todo[i].call = x
    BY <1>4 DEF Waits
  <2> QED BY <1>1, <1>2, <1>4, <2>1 DEF Waits
<1>5. \A b : OnTheWay(b)' => OnTheWay(b)
  BY <1>2 DEF OnTheWay
<1>6. ASSUME NEW b, OnTheWay(b) PROVE OnTheWay(b)' \/ b \in Head(todo).buttons
  <2>1. PICK i \in DOMAIN todo : b \in todo[i].buttons
    BY <1>6 DEF OnTheWay
  <2> QED BY <1>2, <2>1 DEF OnTheWay
<1> QED BY <1>1, <1>2, <1>3, <1>4, <1>5, <1>6

-----------------------------------------------------------------------------
(***************************************************************************)
(* The calls.                                                              *)
(***************************************************************************)
SameQuestion(p, q) == p.task = q.task /\ p.kind = q.kind /\ p.word = q.word /\ p.token = q.token

LEMMA FitsStays ==
    ASSUME NEW b, Fits(b), checks' = checks,
           \A n \in DOMAIN chat'.queue : \E m \in DOMAIN chat.queue :
               SameQuestion(chat'.queue[n], chat.queue[m])
    PROVE  Fits(b)'
<1>1. CASE b.kind \notin Buttons
  BY <1>1 DEF Fits
<1>2. CASE b.kind \in Buttons
  BY <1>2 DEF Fits, SameQuestion
<1> QED BY <1>1, <1>2

\* A call leaves the order of those behind it, but for the first of the two of the notifier's.
LEMMA CallOrder ==
    ASSUME todo \in Seq(ToDos), Ordered, NEW c, Calls(c), c # "add_homework", c # "homework_id"
    PROVE  Ordered'
<1>1. /\ todo[1].call = c /\ 1 \in DOMAIN todo /\ Len(todo') = Len(todo) - 1 /\ Len(todo) \in Nat \ {0}
      /\ DOMAIN todo = 1..Len(todo) /\ DOMAIN todo' = 1..Len(todo')
      /\ \A i \in DOMAIN todo' : i + 1 \in DOMAIN todo /\ todo'[i] = todo[i + 1]
  BY CallFacts
<1> SUFFICES ASSUME NEW i \in DOMAIN todo'
             PROVE  /\ todo'[i].call = "add_homework" =>
                          i = Len(todo') - 1 /\ todo'[i + 1].call = "homework_id"
                    /\ todo'[i].call = "homework_id" => i = Len(todo') /\ i > 1
                          /\ todo'[i - 1].call = "add_homework"
                    /\ todo'[i].call = "resolve_error" =>
                          i = Len(todo') \/ (i = Len(todo') - 1 /\ todo'[i + 1].call = "tell")
                    /\ todo'[i].call = "tell" => i = Len(todo')
  <2>1. DOMAIN todo' \subseteq Nat
    BY <1>1
  <2> QED BY <2>1 DEF Ordered
<1>2. i \in Nat /\ i + 1 \in DOMAIN todo /\ todo'[i] = todo[i + 1] /\ i + 1 # 1 /\ i + 1 > 1
  BY <1>1
<1>3. i + 1 = Len(todo) <=> i = Len(todo')
  BY <1>1, <1>2
<1>4. i + 1 = Len(todo) - 1 => i = Len(todo') - 1 /\ i + 1 \in DOMAIN todo' /\ todo'[i + 1] = todo[(i + 1) + 1]
  BY <1>1, <1>2
<1>5. todo[i + 1].call = "homework_id" => i > 1 /\ todo'[i - 1].call = "add_homework"
  <2> SUFFICES ASSUME todo[i + 1].call = "homework_id"
               PROVE  i > 1 /\ todo'[i - 1].call = "add_homework"
    OBVIOUS
  <2>1. todo[(i + 1) - 1].call = "add_homework"
    BY <1>2 DEF Ordered
  <2>2. (i + 1) - 1 = i
    BY <1>2
  <2>3. i # 1
    BY <1>1, <2>1, <2>2
  <2>4. i > 1 /\ i - 1 \in DOMAIN todo' /\ (i - 1) + 1 = i
    BY <1>1, <1>2, <2>3
  <2>5. todo'[i - 1] = todo[i]
    BY <1>1, <2>4
  <2> QED BY <2>1, <2>2, <2>4, <2>5
<1>6. /\ todo[i + 1].call = "add_homework" => i + 1 = Len(todo) - 1 /\ todo[(i + 1) + 1].call = "homework_id"
      /\ todo[i + 1].call = "homework_id" => i + 1 = Len(todo)
      /\ todo[i + 1].call = "resolve_error" =>
             i + 1 = Len(todo) \/ (i + 1 = Len(todo) - 1 /\ todo[(i + 1) + 1].call = "tell")
      /\ todo[i + 1].call = "tell" => i + 1 = Len(todo)
  BY <1>2 DEF Ordered
<1> QED BY <1>2, <1>3, <1>4, <1>5, <1>6

\* What a call leaves as it is, when it does not write the state of the chat.
LEMMA CallStep ==
    ASSUME DInv, NEW c, Calls(c), chat' = chat,
           UNCHANGED <<checks, ended, fixed, gaveUp, failures>>,
           screen \subseteq screen', c = "say" => Head(todo).buttons \subseteq screen'
    PROVE  /\ chat' \in ChatStates /\ todo' \in Seq(ToDos)
           /\ Queued' /\ ButtonedToDo' /\ Expected' /\ Offered' /\ Worked'
           /\ \A b : Fits(b) => Fits(b)'
           /\ Len(rows') \in Nat /\ Len(rows) <= Len(rows') => Phased'
           /\ c # "homework_id" => Kept'
           /\ c # "ask" /\ asked' = asked => Heard'
<1>1. /\ todo # <<>> /\ 1 \in DOMAIN todo /\ Head(todo) = todo[1] /\ todo[1].call = c
      /\ todo' \in Seq(ToDos)
      /\ \A i \in DOMAIN todo' : i + 1 \in DOMAIN todo /\ todo'[i] = todo[i + 1]
      /\ \A x : Waits(x)' => Waits(x)
      /\ \A x : Waits(x) /\ x # c => Waits(x)'
      /\ \A b : OnTheWay(b) => OnTheWay(b)' \/ b \in Head(todo).buttons
  BY CallFacts, SMTT(60) DEF DInv
<1>2. chat' \in ChatStates /\ Queued'
  BY DEF DInv, Queued, Asks
<1>3. \A b : Fits(b) => Fits(b)'
  BY DEF Fits
<1>4. ButtonedToDo'
  BY <1>1, <1>3 DEF ButtonedToDo, DInv, Buttoned
<1>5. Expected'
  BY <1>1 DEF Expected, DInv, Remaining
<1>6. Offered'
  <2> SUFFICES ASSUME failures = 0, ~gaveUp, chat.phase \in {"clarifying", "review"}, NEW i \in Remaining(chat),
                      ~\E n \in DOMAIN chat.queue : chat.queue[n].task = i
               PROVE  TutorButton(chat, i) \in screen' \/ OnTheWay(TutorButton(chat, i))'
    BY DEF Offered, Remaining, TutorButton
  <2>1. TutorButton(chat, i) \in screen \/ OnTheWay(TutorButton(chat, i))
    BY DEF DInv, Offered
  <2>2. TutorButton(chat, i) \in todo[1].buttons => c = "say"
    BY <1>1 DEF DInv, Buttoned
  <2> QED BY <1>1, <2>1, <2>2
<1>7. Worked' /\ (Len(rows') \in Nat /\ Len(rows) <= Len(rows') => Phased')
  <2>1. Worked'
    BY DEF DInv, Worked, Elements
  <2>2. ASSUME Len(rows') \in Nat, Len(rows) <= Len(rows') PROVE Phased'
    <3>1. chat.homework \in Nat /\ Len(rows) \in Nat
      BY ChatFields, LenProperties DEF DInv, HistoryOK
    <3>2. chat.homework <= Len(rows')
      BY <2>2, <3>1 DEF DInv, Phased
    <3> QED BY <3>2 DEF DInv, Phased
  <2> QED BY <2>1, <2>2
<1>8. c # "homework_id" => Kept'
  BY <1>1 DEF DInv, Kept
<1>9. c # "ask" /\ asked' = asked => Heard'
  BY <1>1 DEF DInv, Heard
<1> QED BY <1>1, <1>2, <1>3, <1>4, <1>5, <1>6, <1>7, <1>8, <1>9

LEMMA HistoryTypes ==
    ASSUME HistoryOK
    PROVE  /\ rows \in Seq(Rows) /\ Len(rows) \in Nat /\ DOMAIN rows = 1..Len(rows)
           /\ checks \in Nat /\ failures \in Nat
<1>1. checks \in Nat /\ failures \in Nat
  BY DEF HistoryOK, Checks
<1> QED BY <1>1, LenProperties DEF HistoryOK

\* The row of the homework is left alone.
LEMMA CountedStays ==
    ASSUME DInv, NEW c, Calls(c), c # "resolve_error", chat' = chat, UNCHANGED <<fixed, failures>>,
           chat.homework # 0 => rows'[chat.homework] = rows[chat.homework]
    PROVE  Counted'
<1>1. Waits("resolve_error")' <=> Waits("resolve_error")
  BY CallFacts DEF DInv
<1>2. Due' = Due
  BY <1>1 DEF Due
<1> QED BY <1>2 DEF DInv, Counted

LEMMA QuestionButtonsFit ==
    ASSUME DInv, NEW n \in DOMAIN chat.queue, NEW b \in QuestionButtons(chat, chat.queue[n])
    PROVE  b \in AllButtons /\ Fits(b)
<1> DEFINE q == chat.queue[n]
<1>1. q \in Questions
  BY ChatFields, ElementOfSeq, LenProperties DEF DInv
<1>2. /\ q.task \in Nat /\ q.kind \in Kinds /\ q.word \in Nat /\ q.token \in Tokens
  BY <1>1 DEF Questions
<1>3. /\ q.token[1] = chat.check /\ q.task \in DOMAIN chat.tasks
      /\ \A m \in DOMAIN chat.queue : m # n => chat.queue[m].token # q.token
  BY DEF DInv, Queued, Asks
<1> HIDE DEF q
<1>4. /\ q.kind \in Buttons
      /\ b = [kind |-> q.kind, check |-> chat.check, task |-> q.task, word |-> q.word, token |-> q.token]
  BY DEF QuestionButtons, q
<1>5. chat.check \in Checks
  BY <1>2, <1>3 DEF Tokens
<1>6. chat.check <= checks
  <2>1. chat.check = checks
    BY <1>5 DEF DInv, Phased, Checks
  <2> QED BY <1>5, <2>1 DEF Checks
<1>7. b \in AllButtons
  BY <1>2, <1>4, <1>5 DEF AllButtons
<1>8. b.kind = q.kind /\ b.task = q.task /\ b.word = q.word /\ b.token = q.token /\ b.check = chat.check
  BY <1>4
<1>9. \A m \in DOMAIN chat.queue : chat.queue[m].token = b.token => chat.queue[m] = q
  BY <1>3, <1>8 DEF q
<1> QED BY <1>2, <1>3, <1>6, <1>7, <1>8, <1>9 DEF Fits

LEMMA SendStep ==
    ASSUME DInv, Send
    PROVE  DInv'
<1> USE DEF Send
<1>1. Head(todo) = todo[1] /\ 1 \in DOMAIN todo /\ todo[1] \in ToDos
  BY CallFacts, ElementOfSeq DEF DInv
<1>2. todo[1].buttons \subseteq AllButtons /\ \A b \in todo[1].buttons : Fits(b)
  BY <1>1 DEF ToDos, DInv, Buttoned
<1>3. /\ chat' \in ChatStates /\ todo' \in Seq(ToDos)
      /\ Queued' /\ ButtonedToDo' /\ Expected' /\ Offered' /\ Worked' /\ Kept' /\ Heard'
      /\ \A b : Fits(b) => Fits(b)'
      /\ Phased'
  BY CallStep, HistoryTypes DEF DInv
<1>4. HistoryOK'
  BY <1>1, <1>2 DEF DInv, HistoryOK
<1>5. Buttoned'
  BY <1>1, <1>2, <1>3 DEF DInv, Buttoned, ButtonedToDo
<1>6. Ordered'
  BY CallOrder DEF DInv
<1>7. Counted'
  BY CountedStays
<1>8. Told'
  BY DEF DInv, Told
<1> QED BY <1>3, <1>4, <1>5, <1>6, <1>7, <1>8 DEF DInv

LEMMA SendQuestionStep ==
    ASSUME DInv, SendQuestion
    PROVE  DInv'
<1> USE DEF SendQuestion
<1>1. Waits("ask")
  BY CallFacts DEF DInv
<1>2. chat.queue # <<>> /\ chat.queue \in Seq(Questions)
  BY <1>1, ChatFields DEF DInv, Expected
<1>3. 1 \in DOMAIN chat.queue /\ Head(chat.queue) = chat.queue[1] /\ chat.queue[1] \in Questions
  BY <1>2, TailFacts, ElementOfSeq
<1>4. /\ chat' \in ChatStates /\ todo' \in Seq(ToDos)
      /\ Queued' /\ ButtonedToDo' /\ Expected' /\ Offered' /\ Worked' /\ Kept'
      /\ \A b : Fits(b) => Fits(b)'
      /\ Phased'
  BY CallStep, HistoryTypes DEF DInv
<1>5. HistoryOK'
  <2>1. asked' \in Tokens
    BY <1>3 DEF Questions
  <2>2. screen' \subseteq AllButtons
    BY <1>3, QuestionButtonsFit DEF DInv, HistoryOK
  <2> QED BY <2>1, <2>2 DEF DInv, HistoryOK
<1>6. Buttoned'
  <2>1. \A b \in screen' : Fits(b)
    BY <1>3, QuestionButtonsFit DEF DInv, Buttoned
  <2> QED BY <1>4, <2>1 DEF Buttoned, ButtonedToDo
<1>7. Ordered'
  BY CallOrder DEF DInv
<1>8. Counted'
  BY CountedStays
<1>9. Told' /\ Heard'
  BY DEF DInv, Told, Heard
<1> QED BY <1>4, <1>5, <1>6, <1>7, <1>8, <1>9 DEF DInv

LEMMA AddHomeworkStep ==
    ASSUME DInv, AddHomework
    PROVE  DInv'
<1> USE DEF AddHomework, history
<1>1. /\ 1 \in DOMAIN todo /\ todo[1].call = "add_homework" /\ Len(todo') = Len(todo) - 1
      /\ Len(todo) \in Nat \ {0} /\ DOMAIN todo = 1..Len(todo) /\ DOMAIN todo' = 1..Len(todo')
      /\ \A i \in DOMAIN todo' : i + 1 \in DOMAIN todo /\ todo'[i] = todo[i + 1]
  BY CallFacts DEF DInv
<1>2. 1 = Len(todo) - 1 /\ todo[2].call = "homework_id"
  <2>1. PICK i \in DOMAIN todo : i = 1
    BY <1>1
  <2>2. i = Len(todo) - 1 /\ todo[i + 1].call = "homework_id"
    BY <1>1, <2>1 DEF DInv, Ordered
  <2>3. i + 1 = 2
    BY <2>1
  <2> QED BY <2>1, <2>2, <2>3
<1>3. Len(todo) = 2 /\ Len(todo') = 1 /\ DOMAIN todo' = {1} /\ todo'[1] = todo[2] /\ 2 \in DOMAIN todo
  <2>1. Len(todo) = 2 /\ Len(todo') = 1
    <3>1. PICK n \in Nat \ {0} : n = Len(todo)
      BY <1>1
    <3>2. PICK m \in Int : m = Len(todo')
      BY <1>1
    <3>3. m = n - 1 /\ 1 = n - 1
      BY <1>1, <1>2, <3>1, <3>2
    <3>4. n = 2 /\ m = 1
      BY <3>3
    <3> QED BY <3>1, <3>2, <3>4
  <2>2. DOMAIN todo' = {1} /\ 2 \in DOMAIN todo
    BY <1>1, <2>1
  <2>3. todo'[1] = todo[1 + 1] /\ 1 + 1 = 2
    BY <1>1, <2>2
  <2> QED BY <2>1, <2>2, <2>3
<1>4. Waits("homework_id")
  BY <1>2, <1>3 DEF Waits
<1>5. chat.check \in Checks /\ chat.homework = 0
  BY <1>4, ChatFields DEF DInv, Expected
<1>6. PICK row \in Rows : row = [check |-> chat.check, resolved |-> 0]
  BY <1>5 DEF Rows
<1>7. /\ rows' \in Seq(Rows) /\ Len(rows') = Len(rows) + 1 /\ rows'[Len(rows')] = row
      /\ Len(rows) \in Nat /\ rows' # <<>>
  BY <1>6, AppendProperties, HistoryTypes DEF DInv
<1>8. /\ chat' \in ChatStates /\ todo' \in Seq(ToDos)
      /\ Queued' /\ ButtonedToDo' /\ Expected' /\ Offered' /\ Worked' /\ Kept' /\ Heard'
      /\ \A b : Fits(b) => Fits(b)'
      /\ Phased'
  BY <1>7, CallStep DEF DInv
<1>9. HistoryOK'
  BY <1>7 DEF DInv, HistoryOK
<1>10. Buttoned'
  BY <1>8 DEF DInv, Buttoned, ButtonedToDo
<1>11. Ordered'
  BY <1>2, <1>3, <1>6, <1>7 DEF Ordered
<1>12. Counted'
  BY <1>5 DEF Counted
<1>13. Told'
  BY DEF DInv, Told
<1> QED BY <1>8, <1>9, <1>10, <1>11, <1>12, <1>13 DEF DInv

LEMMA WriteHomeworkIdStep ==
    ASSUME DInv, WriteHomeworkId
    PROVE  DInv'
<1> USE DEF WriteHomeworkId, history
<1>1. /\ 1 \in DOMAIN todo /\ todo[1].call = "homework_id" /\ Len(todo') = Len(todo) - 1
      /\ Len(todo) \in Nat \ {0} /\ DOMAIN todo = 1..Len(todo) /\ DOMAIN todo' = 1..Len(todo')
      /\ todo' \in Seq(ToDos) /\ Waits("homework_id")
  BY CallFacts DEF DInv
<1>2. 1 = Len(todo) /\ rows # <<>> /\ rows[Len(rows)] = [check |-> chat.check, resolved |-> 0]
  BY <1>1 DEF DInv, Ordered
<1>3. chat.check # 0 /\ chat.homework = 0 /\ fixed = {} /\ chat.resolved = <<>>
  BY <1>1 DEF DInv, Expected
<1>4. todo' = <<>> /\ DOMAIN todo' = {}
  <2>1. Len(todo') = 0
    <3>1. PICK n \in Nat \ {0} : n = Len(todo)
      BY <1>1
    <3>2. Len(todo') = n - 1 /\ n = 1
      BY <1>1, <1>2, <3>1
    <3> QED BY <3>2
  <2> QED BY <1>1, <2>1, EmptySeq
<1>5. /\ \A x : ~Waits(x)'
      /\ \A b : ~OnTheWay(b)'
      /\ Due' = 0
  BY <1>4 DEF Waits, OnTheWay, Due
<1>6. /\ \A x : Waits(x) => x = "homework_id"
      /\ \A b : ~OnTheWay(b)
  BY <1>1, <1>2 DEF Waits, OnTheWay, DInv, Buttoned
<1>7. Len(rows) \in Nat \ {0}
  BY <1>2, EmptySeq, HistoryTypes DEF DInv
<1>8. /\ chat' \in ChatStates /\ chat'.homework = Len(rows)
      /\ chat'.queue = chat.queue /\ chat'.phase = chat.phase /\ chat'.index = chat.index
      /\ chat'.tutor = chat.tutor /\ chat'.check = chat.check /\ chat'.subject = chat.subject
      /\ chat'.tasks = chat.tasks /\ chat'.resolved = chat.resolved /\ chat'.shown = chat.shown
  <2>1. Len(rows) \in Nat /\ chat \in ChatStates /\ chat' = [chat EXCEPT !.homework = Len(rows)]
    BY <1>7 DEF DInv
  <2> QED BY <2>1, WithHomework
<1>9. HistoryOK'
  BY SMTT(60) DEF DInv, HistoryOK
<1>10. Phased' /\ Queued'
  <2>1. Phased'
    BY <1>3, <1>7, <1>8 DEF DInv, Phased
  <2>2. Queued
    BY DEF DInv
  <2>3. \A q : Asks(q)' <=> Asks(q)
    BY <1>8 DEF Asks
  <2>4. Queued'
    BY <1>8, <2>2, <2>3 DEF Queued
  <2> QED BY <2>1, <2>4
<1>11. Buttoned'
  BY <1>4, <1>8 DEF DInv, Buttoned, Fits
<1>12. Ordered' /\ Expected'
  BY <1>4, <1>5 DEF Ordered, Expected
<1>13. Heard'
  BY <1>6, <1>8 DEF DInv, Heard
<1>14. Offered'
  BY <1>6, <1>8 DEF DInv, Offered, Remaining, TutorButton
<1>15. Worked' /\ Told'
  BY <1>8 DEF DInv, Worked, Told, Elements
<1>16. Counted'
  <2>1. Cardinality(fixed) = 0
    BY <1>3, FS_EmptySet
  <2>2. rows'[chat'.homework].check = chat'.check /\ rows'[chat'.homework].resolved = 0
    BY <1>2, <1>8
  <2> QED BY <1>5, <2>1, <2>2 DEF Counted
<1>17. Kept'
  BY <1>7, <1>8 DEF Kept
<1> QED
  BY <1>1, <1>8, <1>9, <1>10, <1>11, <1>12, <1>13, <1>14, <1>15, <1>16, <1>17 DEF DInv

LEMMA ResolveErrorStep ==
    ASSUME DInv, ResolveError
    PROVE  DInv'
<1> USE DEF ResolveError, history
<1>1. /\ 1 \in DOMAIN todo /\ todo[1].call = "resolve_error" /\ Len(todo') = Len(todo) - 1
      /\ Len(todo) \in Nat \ {0} /\ DOMAIN todo = 1..Len(todo) /\ DOMAIN todo' = 1..Len(todo')
      /\ \A i \in DOMAIN todo' : i + 1 \in DOMAIN todo /\ todo'[i] = todo[i + 1]
      /\ Waits("resolve_error")
  BY CallFacts DEF DInv
<1>2. ~Waits("resolve_error")'
  <2> SUFFICES ASSUME NEW i \in DOMAIN todo', todo'[i].call = "resolve_error" PROVE FALSE
    BY DEF Waits
  <2>1. Len(todo) = 2 /\ todo[2].call = "tell" /\ i = 1
    <3>1. 1 = Len(todo) \/ (1 = Len(todo) - 1 /\ todo[2].call = "tell")
      BY <1>1 DEF DInv, Ordered
    <3> QED BY <1>1, <3>1
  <2> QED BY <1>1, <2>1
<1>3. Due = 1 /\ Due' = 0
  BY <1>1, <1>2 DEF Due
<1>4. chat.homework # 0 /\ chat.homework \in 1..Len(rows) /\ rows \in Seq(Rows)
  BY <1>1, ChatFields, HistoryTypes DEF DInv, Expected, Phased
<1>5. rows[chat.homework] \in Rows
  BY <1>4, ElementOfSeq
<1>6. PICK row \in Rows : row = [rows[chat.homework] EXCEPT !.resolved = @ + 1]
  BY <1>5 DEF Rows
<1>7. row.check = rows[chat.homework].check /\ row.resolved = rows[chat.homework].resolved + 1
      /\ rows[chat.homework].resolved \in Nat
  BY <1>5, <1>6 DEF Rows
<1>8. rows' = [rows EXCEPT ![chat.homework] = row]
  BY <1>6
<1>9. rows' \in Seq(Rows) /\ Len(rows') = Len(rows) /\ rows'[chat.homework] = row
  BY <1>4, <1>8, ExceptSeq
<1>10. /\ chat' \in ChatStates /\ todo' \in Seq(ToDos)
       /\ Queued' /\ ButtonedToDo' /\ Expected' /\ Offered' /\ Worked' /\ Kept' /\ Heard'
       /\ \A b : Fits(b) => Fits(b)'
       /\ Phased'
  BY <1>9, CallStep, HistoryTypes DEF DInv
<1>11. HistoryOK'
  BY <1>9 DEF DInv, HistoryOK
<1>12. Buttoned'
  BY <1>10 DEF DInv, Buttoned, ButtonedToDo
<1>13. Ordered'
  BY CallOrder DEF DInv
<1>14. Counted'
  BY <1>3, <1>4, <1>7, <1>9 DEF DInv, Counted
<1>15. Told'
  BY DEF DInv, Told
<1> QED BY <1>10, <1>11, <1>12, <1>13, <1>14, <1>15 DEF DInv

LEMMA TellParentStep ==
    ASSUME DInv, TellParent
    PROVE  DInv'
<1> USE DEF TellParent
<1>1. Waits("tell")
  BY CallFacts DEF DInv
<1>2. chat.homework # 0 /\ chat.queue = <<>> /\ Remaining(chat) = {}
  BY <1>1 DEF DInv, Expected
<1>3. rows[chat.homework].check = chat.check
  BY <1>2 DEF DInv, Counted
<1>4. chat.check # 0 /\ chat.check = checks
  BY <1>2 DEF DInv, Phased
<1>5. chat.check \in 1..checks
  BY <1>4, HistoryTypes DEF DInv
<1>6. told' = told \union {chat.check}
  BY <1>3
<1>7. /\ chat' \in ChatStates /\ todo' \in Seq(ToDos)
      /\ Queued' /\ ButtonedToDo' /\ Expected' /\ Offered' /\ Worked' /\ Kept' /\ Heard'
      /\ \A b : Fits(b) => Fits(b)'
      /\ Phased'
  BY CallStep, HistoryTypes DEF DInv
<1>8. HistoryOK'
  BY <1>5, <1>6 DEF DInv, HistoryOK
<1>9. Buttoned'
  BY <1>7 DEF DInv, Buttoned, ButtonedToDo
<1>10. Ordered'
  BY CallOrder DEF DInv
<1>11. Counted'
  BY CountedStays
<1>12. Told'
  BY <1>2, <1>4 DEF DInv, Told, Worked, Remaining
<1> QED BY <1>7, <1>8, <1>9, <1>10, <1>11, <1>12 DEF DInv

-----------------------------------------------------------------------------
(***************************************************************************)
(* Failures.                                                               *)
(***************************************************************************)
LEMMA FailureTypes ==
    ASSUME HistoryOK, Fails, UNCHANGED <<rows, history>>
    PROVE  HistoryOK' /\ failures' # 0
<1>1. failures' \in 0..MaxFailures /\ failures' # 0
  <2>1. PICK n \in Nat : n = failures /\ n <= MaxFailures
    BY DEF HistoryOK
  <2>2. n < MaxFailures /\ failures' = n + 1 /\ MaxFailures \in Nat
    BY <2>1, DialogAssumption DEF Fails
  <2> QED BY <2>2
<1> QED BY <1>1 DEF HistoryOK, history

\* What is in a sequence is finite; homework counts only when there is a check.
LEMMA FixedIsFinite ==
    ASSUME DInv, chat.check # 0
    PROVE  IsFiniteSet(fixed) /\ Cardinality(fixed) \in Nat
<1>1. PICK n \in Nat : n = Len(chat.resolved) /\ DOMAIN chat.resolved = 1..n
  BY ChatFields, LenProperties DEF DInv
<1>2. IsFiniteSet(1..n)
  BY FS_Interval
<1>3. chat.resolved \in Seq(Nat \ {0}) /\ fixed = {chat.resolved[i] : i \in 1..n}
  BY <1>1, ChatFields DEF DInv, Worked, Elements
<1>4. chat.resolved = [i \in 1..n |-> chat.resolved[i]]
  BY <1>1, <1>3
<1>5. chat.resolved \in Surjection(1..n, fixed)
  BY <1>3, <1>4 DEF Surjection
<1> QED BY <1>2, <1>5, FS_Surjection, FS_CardinalityType

LEMMA RowsCount ==
    ASSUME HistoryOK, Phased, chat \in ChatStates, chat.homework # 0
    PROVE  rows[chat.homework].resolved \in Nat
<1>1. chat.homework \in 1..Len(rows) /\ rows \in Seq(Rows)
  BY ChatFields, HistoryTypes DEF Phased
<1>2. rows[chat.homework] \in Rows
  BY <1>1, ElementOfSeq
<1> QED BY <1>2 DEF Rows

LEMMA RestIsLost ==
    ASSUME DInv, NotifierFails \/ BreaksOff
    PROVE  DInv'
<1>1. todo' = <<>> /\ Fails /\ UNCHANGED <<chat, rows, history>>
  BY DEF NotifierFails, BreaksOff
<1>2. HistoryOK' /\ failures' # 0
  BY <1>1, FailureTypes DEF DInv
<1>3. /\ DOMAIN todo' = {} /\ todo' \in Seq(ToDos)
      /\ \A x : ~Waits(x)'
      /\ Due' = 0
  <2>1. DOMAIN todo' = {} /\ todo' \in Seq(ToDos)
    BY <1>1, EmptySeq
  <2>2. \A x : ~Waits(x)'
    BY <2>1 DEF Waits
  <2> QED BY <2>1, <2>2 DEF Due
<1>4. /\ chat' = chat /\ rows' = rows /\ checks' = checks /\ screen' = screen
      /\ ended' = ended /\ fixed' = fixed /\ told' = told
  BY <1>1, SMTT(60) DEF history
<1>5. chat' \in ChatStates /\ Phased' /\ Queued' /\ Worked' /\ Told'
  BY <1>4 DEF DInv, Phased, Queued, Asks, Worked, Told, Elements
<1>6. Buttoned'
  BY <1>3, <1>4 DEF DInv, Buttoned, Fits
<1>7. Ordered' /\ Expected' /\ Heard' /\ Offered' /\ Kept'
  BY <1>2, <1>3 DEF Ordered, Expected, Heard, Offered, Kept
<1>8. Counted'
  <2> SUFFICES ASSUME chat.homework # 0
               PROVE  /\ rows[chat.homework].check = chat.check
                      /\ rows[chat.homework].resolved <= Cardinality(fixed)
    BY <1>2, <1>3, <1>4, RowsCount DEF DInv, Counted
  <2>1. rows[chat.homework].check = chat.check /\ rows[chat.homework].resolved + Due <= Cardinality(fixed)
    BY DEF DInv, Counted
  <2>2. rows[chat.homework].resolved \in Nat /\ Due \in {0, 1}
    BY RowsCount DEF DInv, Due
  <2>3. Cardinality(fixed) \in Int
    BY FixedIsFinite DEF DInv, Phased
  <2> QED BY <2>1, <2>2, <2>3
<1> QED BY <1>2, <1>3, <1>5, <1>6, <1>7, <1>8 DEF DInv

\* A state in which no homework is: what a handler leaves that has nothing to do any more.
LEMMA NoHomeworkStep ==
    ASSUME DInv, todo = <<>>, todo' = <<>>, HistoryOK', UNCHANGED <<rows, checks, screen, told>>,
           chat' \in ChatStates, chat'.phase = "idle", chat'.check = 0, chat'.tasks = <<>>,
           chat'.queue = <<>>, chat'.tutor = None, chat'.homework = 0
    PROVE  DInv'
<1>1. DOMAIN todo' = {} /\ todo' \in Seq(ToDos) /\ DOMAIN chat'.queue = {} /\ \A x : ~Waits(x)'
  <2>1. DOMAIN todo' = {} /\ todo' \in Seq(ToDos) /\ DOMAIN chat'.queue = {}
    BY EmptySeq
  <2> QED BY <2>1 DEF Waits
<1>2. Phased' /\ Queued'
  BY <1>1, HistoryTypes DEF Phased, Queued, DInv
<1>3. \A b \in screen' : Fits(b)'
  BY <1>1, FitsStays DEF DInv, Buttoned
<1>4. Buttoned' /\ Ordered' /\ Expected'
  BY <1>1, <1>3 DEF Buttoned, Ordered, Expected
<1>5. Heard' /\ Offered' /\ Worked' /\ Counted' /\ Kept'
  BY DEF Heard, Offered, Worked, Counted, Kept
<1>6. Told'
  <2>1. chat'.check \notin told'
    BY HistoryTypes DEF DInv, HistoryOK
  <2> QED BY <2>1 DEF Told
<1> QED BY <1>1, <1>2, <1>4, <1>5, <1>6 DEF DInv

LEMMA ForgetStep ==
    ASSUME DInv, Forget
    PROVE  DInv'
<1>1. todo = <<>> /\ todo' = <<>> /\ chat' = Fresh /\ Fails /\ UNCHANGED <<rows, history>>
  BY DEF Forget
<1>2. HistoryOK' /\ UNCHANGED <<rows, checks, screen, told>>
  BY <1>1, FailureTypes DEF DInv, history
<1> QED BY <1>1, <1>2, FreshFields, NoHomeworkStep

LEMMA OnTextbookStep ==
    ASSUME DInv, NEW subject \in Subjects, OnTextbook(subject)
    PROVE  DInv'
<1>1. /\ todo = <<>> /\ todo' = <<>> /\ chat' = [Fresh EXCEPT !.subject = subject]
      /\ UNCHANGED <<rows, checks, screen, told>>
  BY DEF OnTextbook, Idle
<1>2. HistoryOK'
  BY DEF OnTextbook, DInv, HistoryOK
<1> QED BY <1>1, <1>2, FreshIn, NoHomeworkStep

-----------------------------------------------------------------------------
(***************************************************************************)
(* Handlers.  One begins when the one before is over: nothing waits.       *)
(***************************************************************************)
LEMMA IdleFacts ==
    ASSUME DInv, todo = <<>>
    PROVE  /\ Due = 0
           /\ failures = 0 /\ chat.queue # <<>> => asked = Head(chat.queue).token
           /\ failures = 0 /\ ~gaveUp /\ chat.phase \in {"clarifying", "review"} =>
                 \A i \in Remaining(chat) : \/ TutorButton(chat, i) \in screen
                                            \/ \E n \in DOMAIN chat.queue : chat.queue[n].task = i
           /\ failures = 0 /\ chat.check # 0 => chat.homework # 0
           /\ chat.homework # 0 => /\ rows[chat.homework].check = chat.check
                                   /\ rows[chat.homework].resolved \in Nat
                                   /\ rows[chat.homework].resolved <= Cardinality(fixed)
                                   /\ failures = 0 => rows[chat.homework].resolved = Cardinality(fixed)
<1>1. Due = 0 /\ (\A x : ~Waits(x)) /\ \A b : ~OnTheWay(b)
  BY NothingWaits
<1>2. failures = 0 /\ chat.queue # <<>> => asked = Head(chat.queue).token
  BY <1>1 DEF DInv, Heard
<1>3. failures = 0 /\ ~gaveUp /\ chat.phase \in {"clarifying", "review"} =>
         \A i \in Remaining(chat) : \/ TutorButton(chat, i) \in screen
                                    \/ \E n \in DOMAIN chat.queue : chat.queue[n].task = i
  BY <1>1 DEF DInv, Offered
<1>4. failures = 0 /\ chat.check # 0 => chat.homework # 0
  BY <1>1 DEF DInv, Kept
<1>5. ASSUME chat.homework # 0
      PROVE  /\ rows[chat.homework].check = chat.check
             /\ rows[chat.homework].resolved \in Nat
             /\ rows[chat.homework].resolved <= Cardinality(fixed)
             /\ failures = 0 => rows[chat.homework].resolved = Cardinality(fixed)
  BY <1>1, <1>5, RowsCount DEF DInv, Counted
<1> QED BY <1>1, <1>2, <1>3, <1>4, <1>5

\* Buttons of the tutor.
LEMMA TutorButtons ==
    ASSUME NEW c \in ChatStates, c.check = 0 => c.tasks = <<>>
    PROVE  /\ \A i \in DOMAIN c.tasks : TutorButton(c, i) \in AllButtons /\ TutorButton(c, i).kind = "tutor"
           /\ RemainingButtons(c) \in SUBSET AllButtons /\ \A b \in RemainingButtons(c) : b.kind = "tutor"
           /\ ReviewButtons(c) \in SUBSET AllButtons /\ \A b \in ReviewButtons(c) : b.kind = "tutor"
           /\ \A q, rest : q.task \in DOMAIN c.tasks =>
                 /\ ReplyButtons(c, q, rest) \in SUBSET AllButtons
                 /\ \A b \in ReplyButtons(c, q, rest) : b.kind = "tutor"
<1>1. c.tasks \in Seq(Tasks) /\ c.check \in Checks \union {0}
  BY ChatFields
<1>2. ASSUME NEW i \in DOMAIN c.tasks
      PROVE  TutorButton(c, i) \in AllButtons /\ TutorButton(c, i).kind = "tutor"
  <2>1. c.tasks # <<>> /\ i \in Nat
    BY <1>1, LenProperties
  <2>2. c.check \in Checks
    BY <1>1, <2>1
  <2> QED BY <2>1, <2>2 DEF TutorButton, AllButtons
<1>3. RemainingButtons(c) \in SUBSET AllButtons /\ \A b \in RemainingButtons(c) : b.kind = "tutor"
  BY <1>2 DEF RemainingButtons, Remaining
<1>4. ReviewButtons(c) \in SUBSET AllButtons /\ \A b \in ReviewButtons(c) : b.kind = "tutor"
  BY <1>2 DEF ReviewButtons
<1>5. ASSUME NEW q, NEW rest, q.task \in DOMAIN c.tasks
      PROVE  /\ ReplyButtons(c, q, rest) \in SUBSET AllButtons
             /\ \A b \in ReplyButtons(c, q, rest) : b.kind = "tutor"
  BY <1>2, <1>5 DEF ReplyButtons
<1> QED BY <1>2, <1>3, <1>4, <1>5

LEMMA TutorFits ==
    ASSUME NEW b, b.kind = "tutor"
    PROVE  Fits(b)
BY DEF Fits, Buttons

\* Questions that were in the queue before.
QueueFrom(c, d) ==
    \A n, m \in DOMAIN d.queue : \E k, l \in DOMAIN c.queue :
        /\ SameQuestion(d.queue[n], c.queue[k]) /\ SameQuestion(d.queue[m], c.queue[l])
        /\ n # m => k # l

LEMMA QueueStays ==
    ASSUME Queued, QueueFrom(chat, chat')
    PROVE  /\ \A n \in DOMAIN chat'.queue : \E k \in DOMAIN chat.queue : SameQuestion(chat'.queue[n], chat.queue[k])
           /\ \A n, m \in DOMAIN chat'.queue :
                 n # m => /\ chat'.queue[n].token # chat'.queue[m].token
                          /\ ~SameWord(chat'.queue[n], chat'.queue[m])
           /\ chat'.tasks = chat.tasks /\ chat'.check = chat.check => Queued'
<1>1. \A n \in DOMAIN chat'.queue : \E k \in DOMAIN chat.queue : SameQuestion(chat'.queue[n], chat.queue[k])
  BY DEF QueueFrom
<1>2. ASSUME NEW n \in DOMAIN chat'.queue, NEW m \in DOMAIN chat'.queue, n # m
      PROVE  /\ chat'.queue[n].token # chat'.queue[m].token
             /\ ~SameWord(chat'.queue[n], chat'.queue[m])
  <2>1. PICK k, l \in DOMAIN chat.queue :
            /\ SameQuestion(chat'.queue[n], chat.queue[k]) /\ SameQuestion(chat'.queue[m], chat.queue[l])
            /\ k # l
    BY <1>2 DEF QueueFrom
  <2>2. chat.queue[k].token # chat.queue[l].token /\ ~SameWord(chat.queue[k], chat.queue[l])
    BY <2>1, SMTT(60) DEF Queued
  <2> QED BY <2>1, <2>2 DEF SameQuestion, SameWord
<1>3. ASSUME chat'.tasks = chat.tasks, chat'.check = chat.check PROVE Queued'
  <2>1. ASSUME NEW n \in DOMAIN chat'.queue
        PROVE  /\ chat'.queue[n].task \in DOMAIN chat.tasks
               /\ chat'.queue[n].token[1] = chat.check
               /\ chat'.queue[n].kind = "word" =>
                     /\ chat'.queue[n].word \in DOMAIN chat.tasks[chat'.queue[n].task].words
                     /\ chat.tasks[chat'.queue[n].task].words[chat'.queue[n].word] = "open"
    <3>1. PICK k \in DOMAIN chat.queue : SameQuestion(chat'.queue[n], chat.queue[k])
      BY <1>1
    <3>2. Asks(chat.queue[k])
      BY DEF Queued
    <3> QED BY <3>1, <3>2 DEF Asks, SameQuestion
  <2> QED BY <1>2, <1>3, <2>1, SMTT(60) DEF Queued, Asks
<1> QED BY <1>1, <1>2, <1>3

\* A handler that talks and leaves what was worked through as it is.
LEMMA TalkHandler ==
    ASSUME DInv, todo = <<>>, NEW B, NEW ask \in BOOLEAN, Talks(todo', B, ask), \A b \in B : b.kind = "tutor" \/ Fits(b),
           ask => chat'.queue # <<>>,
           chat' \in ChatStates, UNCHANGED <<rows, checks, screen, asked, ended, fixed, told, failures>>,
           gaveUp' \in BOOLEAN, chat'.check = chat.check, chat'.homework = chat.homework,
           chat'.resolved = chat.resolved, chat'.shown = chat.shown,
           QueueFrom(chat, chat'), Phased', Queued', Heard', Offered', Told'
    PROVE  DInv'
<1>1. HistoryOK'
  BY DEF DInv, HistoryOK
<1>2. \A n \in DOMAIN chat'.queue : \E k \in DOMAIN chat.queue : SameQuestion(chat'.queue[n], chat.queue[k])
  BY QueueStays DEF DInv
<1>3. \A b : Fits(b) => Fits(b)'
  BY <1>2, FitsStays
<1>4. \A b \in B : Fits(b)'
  BY <1>3, TutorFits
<1>5. todo' \in Seq(ToDos) /\ ButtonedToDo' /\ Ordered' /\ Expected' /\ Due' = 0
  BY <1>4, TalkStep
<1>6. Buttoned'
  BY <1>3, <1>5 DEF DInv, Buttoned, ButtonedToDo
<1>7. Worked'
  BY DEF DInv, Worked, Elements
<1>8. Counted' /\ Kept'
  BY <1>5, IdleFacts DEF Counted, Kept
<1> QED BY <1>1, <1>5, <1>6, <1>7, <1>8 DEF DInv

\* One that has no button to send.
LEMMA QuietHandler ==
    ASSUME DInv, todo = <<>>, todo' = <<Say({})>>,
           chat' \in ChatStates, UNCHANGED <<rows, checks, screen, asked, ended, fixed, told, failures>>,
           gaveUp' \in BOOLEAN, chat'.check = chat.check, chat'.homework = chat.homework,
           chat'.resolved = chat.resolved, chat'.shown = chat.shown,
           QueueFrom(chat, chat'), Phased', Queued', Heard', Offered', Told'
    PROVE  DInv'
<1>1. PICK none \in SUBSET AllButtons : none = {}
  OBVIOUS
<1>2. PICK ask \in BOOLEAN : ask = FALSE
  OBVIOUS
<1>3. Talks(todo', none, ask)
  BY <1>1, <1>2, SaysOnce
<1>4. (ask => chat'.queue # <<>>) /\ \A b \in none : b.kind = "tutor" \/ Fits(b)
  BY <1>1, <1>2
<1> QED BY <1>3, <1>4, TalkHandler

LEMMA SameQueue ==
    ASSUME NEW c, NEW d, d.queue = c.queue
    PROVE  QueueFrom(c, d)
BY DEF QueueFrom, SameQuestion

LEMMA ChatterStep ==
    ASSUME DInv, Chatter
    PROVE  DInv'
<1>1. /\ todo = <<>> /\ todo' = <<Say(RemainingButtons(chat))>>
      /\ UNCHANGED <<chat, rows, checks, screen, asked, ended, fixed, told, gaveUp, failures>>
  BY DEF Chatter, Idle
<1>2. /\ RemainingButtons(chat) \in SUBSET AllButtons
      /\ \A b \in RemainingButtons(chat) : b.kind = "tutor"
  BY TutorButtons DEF DInv, Phased
<1>3. Talks(todo', RemainingButtons(chat), FALSE)
  BY <1>1, <1>2, SaysOnce
<1>4. Phased' /\ Queued' /\ Told' /\ Heard' /\ Offered'
  <2>1. Phased' /\ Queued'
    BY <1>1 DEF DInv, Phased, Queued, Asks
  <2>2. Told' /\ Heard' /\ Offered'
    BY <1>1, IdleFacts DEF DInv, Told, Heard, Offered, Remaining, TutorButton
  <2> QED BY <2>1, <2>2
<1>5. QueueFrom(chat, chat')
  BY <1>1, SameQueue
<1> QED BY <1>1, <1>2, <1>3, <1>4, <1>5, TalkHandler DEF DInv, HistoryOK

LEMMA GoesOnStep ==
    ASSUME DInv, todo = <<>>, chat.phase = "tutoring", NEW session \in Sessions, NEW says, GoesOn(session, says),
           UNCHANGED <<rows, checks, screen, asked, told, gaveUp, failures>>
    PROVE  DInv'
<1>1. /\ chat' = [chat EXCEPT !.tutor = session] /\ todo' = <<Say({})>> /\ UNCHANGED <<ended, fixed>>
  BY DEF GoesOn
<1>2. /\ chat' \in ChatStates /\ chat'.tutor = session
      /\ chat'.queue = chat.queue /\ chat'.phase = chat.phase /\ chat'.index = chat.index
      /\ chat'.check = chat.check /\ chat'.subject = chat.subject /\ chat'.tasks = chat.tasks
      /\ chat'.resolved = chat.resolved /\ chat'.shown = chat.shown
      /\ chat'.homework = chat.homework
  BY <1>1, WithSession DEF DInv
<1>3. todo' = <<Say({})>>
  BY <1>1
<1>4. session # None /\ chat.queue = <<>>
  BY DialogAssumption DEF Sessions, DInv, Phased
<1>5. Phased'
  BY <1>2, <1>4 DEF DInv, Phased
<1>6. Told' /\ Heard' /\ Offered'
  BY <1>1, <1>2, <1>4 DEF DInv, Told, Heard, Offered
<1>7. QueueFrom(chat, chat') /\ Queued'
  BY <1>2, SameQueue, QueueStays DEF DInv
<1>8. gaveUp' \in BOOLEAN /\ UNCHANGED <<rows, checks, screen, asked, ended, fixed, told, failures>>
  BY <1>1 DEF DInv, HistoryOK
<1> QED BY <1>2, <1>3, <1>5, <1>6, <1>7, <1>8, QuietHandler

LEMMA OpenedIsSession ==
    ASSUME NEW task
    PROVE  Opened(task) \in Sessions
<1>1. [level |-> 0, resolved |-> TRUE] \in Sessions /\ [level |-> 1, resolved |-> FALSE] \in Sessions
  BY DEF Sessions, MaxHintLevel
<1>2. Opened(task) = [level |-> 0, resolved |-> TRUE] \/ Opened(task) = [level |-> 1, resolved |-> FALSE]
  BY DEF Opened
<1> QED BY <1>1, <1>2

LEMMA PressTutorStep ==
    ASSUME DInv, NEW button, PressTutor(button)
    PROVE  DInv'
<1>1. /\ todo = <<>> /\ button.task \in DOMAIN chat.tasks
      /\ chat' = [chat EXCEPT !.phase = "tutoring", !.tutor = Opened(chat.tasks[button.task]),
                              !.index = button.task, !.queue = <<>>]
      /\ todo' = <<Say({})>>
      /\ UNCHANGED <<rows, checks, screen, asked, ended, fixed, told, gaveUp, failures>>
  BY DEF PressTutor, Idle
<1>2. PICK i \in Nat : i = button.task
  BY <1>1, ChatFields, LenProperties DEF DInv
<1>3. PICK session \in Sessions : session = Opened(chat.tasks[button.task])
  BY OpenedIsSession
<1>4. /\ chat' \in ChatStates /\ chat'.queue = <<>> /\ chat'.phase = "tutoring"
      /\ chat'.tutor = session /\ chat'.index = i
      /\ chat'.check = chat.check /\ chat'.subject = chat.subject /\ chat'.tasks = chat.tasks
      /\ chat'.resolved = chat.resolved /\ chat'.shown = chat.shown
      /\ chat'.homework = chat.homework
  <2>3. PICK q \in Seq(Questions) : q = <<>>
    BY EmptySeq
  <2>1. chat' = [chat EXCEPT !.phase = "tutoring", !.tutor = session, !.index = i, !.queue = q]
    BY <1>1, <1>2, <1>3, <2>3
  <2>2. chat \in ChatStates
    BY DEF DInv
  <2>4. /\ chat' \in ChatStates /\ chat'.queue = q /\ chat'.phase = "tutoring"
        /\ chat'.tutor = session /\ chat'.index = i
        /\ chat'.check = chat.check /\ chat'.subject = chat.subject /\ chat'.tasks = chat.tasks
        /\ chat'.resolved = chat.resolved /\ chat'.shown = chat.shown
        /\ chat'.homework = chat.homework
    BY <2>1, <2>2 DEF ChatStates, Phases
  <2> QED BY <2>3, <2>4
<1>5. todo' = <<Say({})>>
  BY <1>1
<1>6. chat'.tutor # None
  <2>1. session \in [level : Nat, resolved : BOOLEAN]
    BY DEF Sessions
  <2> QED BY <1>4, <2>1, DialogAssumption
<1>7. chat.check # 0
  BY <1>1 DEF DInv, Phased
<1>8. DOMAIN chat'.queue = {}
  BY <1>4
<1>9. Phased'
  BY <1>1, <1>2, <1>4, <1>6, <1>7 DEF DInv, Phased
<1>10. Queued' /\ Told' /\ Heard' /\ Offered' /\ QueueFrom(chat, chat')
  BY <1>1, <1>4, <1>8 DEF DInv, Queued, Told, Heard, Offered, QueueFrom
<1>11. /\ todo = <<>> /\ gaveUp' \in BOOLEAN
       /\ UNCHANGED <<rows, checks, screen, asked, ended, fixed, told, failures>>
  BY <1>1, SMTT(60) DEF DInv, HistoryOK
<1> QED BY <1>4, <1>5, <1>9, <1>10, <1>11, QuietHandler

-----------------------------------------------------------------------------
(***************************************************************************)
(* Answers.  The question at the head of the queue is taken from it, or    *)
(* put once more.                                                          *)
(***************************************************************************)
LEMMA HeadFacts ==
    ASSUME DInv, chat.phase = "clarifying", NEW q, q = Head(chat.queue), NEW rest, rest = Tail(chat.queue)
    PROVE  /\ chat.queue # <<>> /\ chat.tutor = None /\ chat.check \in Checks /\ chat.check = checks
           /\ 1 \in DOMAIN chat.queue /\ q = chat.queue[1] /\ q \in Questions
           /\ q.task \in DOMAIN chat.tasks /\ chat.tasks[q.task] \in Tasks
           /\ q.kind = "word" => /\ q.word \in DOMAIN chat.tasks[q.task].words
                                 /\ chat.tasks[q.task].words[q.word] = "open"
           /\ rest \in Seq(Questions) /\ (rest = <<>> <=> DOMAIN rest = {})
           /\ \A n \in DOMAIN rest : /\ n + 1 \in DOMAIN chat.queue /\ n + 1 # 1 /\ n \in Nat
                                     /\ rest[n] = chat.queue[n + 1]
           /\ \A n \in DOMAIN chat.queue : n # 1 => n - 1 \in DOMAIN rest /\ rest[n - 1] = chat.queue[n]
           /\ chat.check \notin told
<1>1. chat \in ChatStates /\ chat.queue # <<>> /\ chat.tutor = None /\ chat.check # 0 /\ chat.check = checks
  BY DEF DInv, Phased
<1>2. chat.queue \in Seq(Questions) /\ chat.check \in Checks
  BY <1>1, ChatFields
<1>3. /\ rest \in Seq(Questions) /\ DOMAIN rest = 1..Len(rest)
      /\ 1 \in DOMAIN chat.queue /\ Head(chat.queue) = chat.queue[1]
      /\ \A n \in DOMAIN rest : n + 1 \in DOMAIN chat.queue /\ rest[n] = chat.queue[n + 1]
      /\ \A n \in DOMAIN chat.queue : n # 1 => n - 1 \in DOMAIN rest /\ rest[n - 1] = chat.queue[n]
  BY <1>1, <1>2, TailFacts, SMTT(60)
<1>4. q \in Questions
  BY <1>2, <1>3, ElementOfSeq
<1>5. Asks(q)
  BY <1>3 DEF DInv, Queued
<1>6. chat.tasks[q.task] \in Tasks
  BY <1>1, <1>5, ChatFields, ElementOfSeq DEF Asks
<1>7. \A n \in DOMAIN rest : n \in Nat /\ n + 1 # 1
  BY <1>3
<1>8. rest = <<>> <=> DOMAIN rest = {}
  BY <1>3, EmptySeq
<1>9. chat.check \notin told
  BY <1>1 DEF DInv, Told
<1> QED BY <1>1, <1>2, <1>3, <1>4, <1>5, <1>6, <1>7, <1>8, <1>9 DEF Asks

\* The rest of the questions.
LEMMA RestFrom ==
    ASSUME DInv, chat.phase = "clarifying", chat'.queue = Tail(chat.queue)
    PROVE  QueueFrom(chat, chat')
<1> DEFINE rest == Tail(chat.queue)
<1>1. \A n \in DOMAIN rest : /\ n + 1 \in DOMAIN chat.queue /\ n \in Nat /\ rest[n] = chat.queue[n + 1]
  BY HeadFacts
<1> SUFFICES ASSUME NEW n \in DOMAIN rest, NEW m \in DOMAIN rest
             PROVE  \E k, l \in DOMAIN chat.queue :
                       /\ SameQuestion(rest[n], chat.queue[k]) /\ SameQuestion(rest[m], chat.queue[l])
                       /\ n # m => k # l
  BY SMTT(60) DEF QueueFrom
<1>2. PICK k \in DOMAIN chat.queue : k = n + 1 /\ rest[n] = chat.queue[k]
  BY <1>1
<1>3. PICK l \in DOMAIN chat.queue : l = m + 1 /\ rest[m] = chat.queue[l]
  BY <1>1
<1>4. n # m => k # l
  BY <1>1, <1>2, <1>3
<1> HIDE DEF rest
<1> QED BY <1>2, <1>3, <1>4 DEF SameQuestion

\* What NotUnderstood does when there is one more try.
TryAgain ==
    LET q == Head(chat.queue)
    IN  /\ q.attempts + 1 < MaxAttempts
        /\ chat' = [chat EXCEPT !.queue = <<[q EXCEPT !.attempts = @ + 1]>> \o Tail(chat.queue)]
        /\ todo' = <<Say(QuestionButtons(chat, q))>>
        /\ UNCHANGED gaveUp

\* What it does when there is none.
GiveUp ==
    LET rest == Tail(chat.queue)
    IN  /\ chat' = [chat EXCEPT !.queue = rest,
                                !.phase = IF rest # <<>> THEN "clarifying" ELSE "review"]
        /\ todo' = <<Say({})>> \o (IF rest # <<>> THEN <<Ask>> ELSE <<>>)
        /\ gaveUp' = TRUE

LEMMA NotUnderstoodEither ==
    ASSUME NotUnderstood
    PROVE  TryAgain \/ GiveUp
BY DEF NotUnderstood, TryAgain, GiveUp

LEMMA TryAgainStep ==
    ASSUME DInv, todo = <<>>, chat.phase = "clarifying", TryAgain,
           UNCHANGED <<rows, checks, screen, asked, ended, fixed, told, failures>>
    PROVE  DInv'
<1>1. PICK q, rest : q = Head(chat.queue) /\ rest = Tail(chat.queue)
  OBVIOUS
<1>2. /\ chat.queue # <<>> /\ chat.tutor = None /\ chat.check \in Checks /\ chat.check \notin told
      /\ 1 \in DOMAIN chat.queue /\ q = chat.queue[1] /\ q \in Questions /\ rest \in Seq(Questions)
      /\ \A n \in DOMAIN rest : n + 1 \in DOMAIN chat.queue /\ rest[n] = chat.queue[n + 1]
  BY <1>1, HeadFacts
<1>3. /\ q.attempts + 1 < MaxAttempts /\ todo' = <<Say(QuestionButtons(chat, q))>> /\ gaveUp' = gaveUp
      /\ chat' = [chat EXCEPT !.queue = <<[q EXCEPT !.attempts = @ + 1]>> \o rest]
  BY <1>1 DEF TryAgain
<1>4. PICK again : again = [q EXCEPT !.attempts = @ + 1]
  OBVIOUS
<1>5. again \in Questions /\ SameQuestion(again, q)
  <2>1. PICK a \in 0..(MaxAttempts - 1) : a = q.attempts + 1
    BY <1>2, <1>3 DEF Questions, MaxAttempts
  <2>2. again = [q EXCEPT !.attempts = a]
    BY <1>4, <2>1
  <2> QED BY <1>2, <2>2 DEF Questions, SameQuestion
<1>6. PICK queue : queue = <<again>> \o rest
  OBVIOUS
<1>7. /\ queue \in Seq(Questions) /\ 1 \in DOMAIN queue /\ queue[1] = again
      /\ \A n \in DOMAIN queue : n # 1 => n - 1 \in DOMAIN rest /\ queue[n] = rest[n - 1]
      /\ DOMAIN queue = 1..Len(queue)
  BY <1>2, <1>5, <1>6, FirstAndRest
<1>8. \A n \in DOMAIN queue : n \in DOMAIN chat.queue /\ SameQuestion(queue[n], chat.queue[n])
  <2> SUFFICES ASSUME NEW n \in DOMAIN queue
               PROVE  n \in DOMAIN chat.queue /\ SameQuestion(queue[n], chat.queue[n])
    OBVIOUS
  <2>1. CASE n = 1
    BY <1>2, <1>5, <1>7, <2>1
  <2>2. CASE n # 1
    <3>1. (n - 1) + 1 = n
      BY <1>7
    <3>2. queue[n] = chat.queue[n] /\ n \in DOMAIN chat.queue
      BY <1>2, <1>7, <2>2, <3>1
    <3> QED BY <3>2 DEF SameQuestion
  <2> QED BY <2>1, <2>2
<1>9. /\ chat' \in ChatStates /\ chat'.queue = queue
      /\ chat'.phase = chat.phase /\ chat'.check = chat.check /\ chat'.subject = chat.subject
      /\ chat'.tasks = chat.tasks /\ chat'.tutor = chat.tutor /\ chat'.index = chat.index
      /\ chat'.resolved = chat.resolved /\ chat'.shown = chat.shown /\ chat'.homework = chat.homework
  <2>1. chat' = [chat EXCEPT !.queue = queue] /\ chat \in ChatStates
    BY <1>3, <1>4, <1>6 DEF DInv
  <2> QED BY <1>7, <2>1, WithQueue
<1>10. QueueFrom(chat, chat')
  BY <1>8, <1>9 DEF QueueFrom
<1>11. Queued'
  BY <1>9, <1>10, QueueStays DEF DInv
<1>12. queue # <<>> /\ Head(queue) = queue[1]
  BY <1>7, TailFacts
<1>13. Phased'
  BY <1>2, <1>9, <1>12 DEF DInv, Phased
<1>14. Heard'
  <2>1. again.token = Head(chat.queue).token
    BY <1>1, <1>5 DEF SameQuestion
  <2> QED BY <1>2, <1>7, <1>9, <1>12, <2>1, IdleFacts DEF Heard
<1>15. Offered'
  <2>1. \A i : TutorButton(chat', i) = TutorButton(chat, i)
    BY <1>9 DEF TutorButton
  <2>2. Remaining(chat') = Remaining(chat)
    BY <1>9 DEF Remaining
  <2>3. ASSUME NEW n \in DOMAIN chat.queue
        PROVE  n \in DOMAIN queue /\ queue[n].task = chat.queue[n].task
    <3>1. CASE n = 1
      BY <1>2, <1>5, <1>7, <3>1 DEF SameQuestion
    <3>2. CASE n # 1
      <4>1. n - 1 \in DOMAIN rest
        BY <1>1, <3>2, HeadFacts
      <4>2. rest \in Seq(Questions) /\ Len(queue) = Len(rest) + 1 /\ DOMAIN rest = 1..Len(rest) /\ Len(rest) \in Nat
        BY <1>2, <1>5, <1>6, FirstAndRest
      <4>3. n \in DOMAIN queue
        BY <1>2, <1>7, <4>1, <4>2, ChatFields, LenProperties, SMTT(60) DEF DInv
      <4> QED BY <1>8, <4>3 DEF SameQuestion
    <3> QED BY <3>1, <3>2
  <2>4. gaveUp' = gaveUp /\ chat'.phase = chat.phase /\ chat'.queue = queue
    BY <1>3, <1>9
  <2> QED BY <2>1, <2>2, <2>3, <2>4, IdleFacts DEF Offered
<1>16. Told'
  BY <1>2, <1>9 DEF Told
<1>17. PICK B \in SUBSET AllButtons : B = QuestionButtons(chat, q) /\ \A b \in B : Fits(b)
  BY <1>2, QuestionButtonsFit
<1>18. PICK ask \in BOOLEAN : ask = FALSE
  OBVIOUS
<1>19. Talks(todo', B, ask)
  BY <1>3, <1>17, <1>18, SaysOnce
<1>20. gaveUp' \in BOOLEAN
  BY <1>3 DEF DInv, HistoryOK
<1> QED
  BY <1>9, <1>10, <1>11, <1>13, <1>14, <1>15, <1>16, <1>17, <1>18, <1>19, <1>20, TalkHandler

LEMMA GiveUpStep ==
    ASSUME DInv, todo = <<>>, chat.phase = "clarifying", GiveUp,
           UNCHANGED <<rows, checks, screen, asked, ended, fixed, told, failures>>
    PROVE  DInv'
<1>1. PICK rest : rest = Tail(chat.queue)
  OBVIOUS
<1>2. /\ chat.queue # <<>> /\ chat.tutor = None /\ chat.check \in Checks /\ chat.check \notin told
      /\ rest \in Seq(Questions)
  BY <1>1, HeadFacts
<1>3. PICK phase \in Phases : phase = IF rest # <<>> THEN "clarifying" ELSE "review"
  BY DEF Phases
<1>4. PICK ask \in BOOLEAN : ask = (rest # <<>>)
  OBVIOUS
<1>5. /\ chat' = [chat EXCEPT !.queue = rest, !.phase = phase] /\ chat \in ChatStates
      /\ gaveUp' = TRUE
  BY <1>1, <1>3 DEF GiveUp, DInv
<1>6. PICK B \in SUBSET AllButtons : B = {}
  OBVIOUS
<1>7. Talks(todo', B, ask)
  <2>1. todo' = <<Say(B)>> \o (IF ask THEN <<Ask>> ELSE <<>>)
    BY <1>1, <1>4, <1>6 DEF GiveUp
  <2> QED BY <2>1, SaysAndAsks
<1>8. /\ chat' \in ChatStates /\ chat'.queue = rest /\ chat'.phase = phase
      /\ chat'.check = chat.check /\ chat'.subject = chat.subject
      /\ chat'.tasks = chat.tasks /\ chat'.tutor = chat.tutor /\ chat'.index = chat.index
      /\ chat'.resolved = chat.resolved /\ chat'.shown = chat.shown /\ chat'.homework = chat.homework
  BY <1>2, <1>5 DEF ChatStates
<1>9. QueueFrom(chat, chat') /\ Queued'
  BY <1>1, <1>8, RestFrom, QueueStays DEF DInv
<1>10. Phased'
  <2>1. chat.check # 0 /\ phase # "tutoring" /\ phase # "idle" /\ (phase = "clarifying" <=> rest # <<>>)
    BY <1>2, <1>3 DEF Checks
  <2> QED BY <1>2, <1>8, <2>1 DEF DInv, Phased
<1>11. Heard'
  <2>1. ask => Waits("ask")'
    BY <1>7 DEF Talks, Waits
  <2> QED BY <1>4, <1>8, <2>1 DEF Heard
<1>12. Offered' /\ Told'
  BY <1>2, <1>5, <1>8 DEF Offered, Told
<1>13. gaveUp' \in BOOLEAN /\ (ask => chat'.queue # <<>>) /\ \A b \in B : b.kind = "tutor" \/ Fits(b)
  BY <1>4, <1>5, <1>6, <1>8
<1> QED
  BY <1>7, <1>8, <1>9, <1>10, <1>11, <1>12, <1>13, TalkHandler

\* An answer about a word says something of that word, any other of the verdict.
LEMMA AnsweredFacts ==
    ASSUME NEW old \in Tasks, NEW q, q.kind = "word" => q.word \in DOMAIN old.words, NEW task \in Answered(old, q)
    PROVE  /\ task \in Tasks /\ DOMAIN task.words = DOMAIN old.words
           /\ \A w \in DOMAIN old.words :
                 task.words[w] # old.words[w] => q.kind = "word" /\ w = q.word
<1>1. /\ old.words \in Seq({"open", "yes", "no"}) /\ DOMAIN old.words = 1..Len(old.words)
  <2>1. old.words \in Seq({"open", "yes", "no"})
    BY DEF Tasks
  <2> QED BY <2>1, LenProperties
<1>2. CASE q.kind = "word"
  <2>1. PICK a \in {"yes", "no"} : task = [old EXCEPT !.words[q.word] = a]
    BY <1>2 DEF Answered
  <2>2. PICK words : words = [old.words EXCEPT ![q.word] = a]
    OBVIOUS
  <2>3. /\ words \in Seq({"open", "yes", "no"}) /\ DOMAIN words = DOMAIN old.words
        /\ \A w \in DOMAIN old.words : w # q.word => words[w] = old.words[w]
    <3>1. a \in {"open", "yes", "no"} /\ q.word \in 1..Len(old.words)
      BY <1>1, <1>2
    <3>2. words \in Seq({"open", "yes", "no"})
      BY <1>1, <2>2, <3>1, ExceptSeq
    <3> QED BY <2>2, <3>2
  <2>4. task = [old EXCEPT !.words = words]
    BY <2>1, <2>2
  <2>5. task \in Tasks /\ task.words = words
    BY <2>3, <2>4 DEF Tasks
  <2> QED BY <1>2, <2>3, <2>5
<1>3. CASE q.kind # "word"
  <2>1. CASE task = old
    BY <2>1
  <2>2. ASSUME NEW s \in Strengths, task = [old EXCEPT !.sure = s]
        PROVE  task \in Tasks /\ task.words = old.words
    BY <2>2, SMTT(60) DEF Tasks
  <2> QED BY <1>3, <2>1, <2>2 DEF Answered
<1> QED BY <1>2, <1>3

\* What an answer writes: the task of the question, and in it the word that was asked about.
LEMMA UnderstoodFacts ==
    ASSUME DInv, chat.phase = "clarifying", NEW q, q = Head(chat.queue), Understood(q)
    PROVE  LET rest == Tail(chat.queue)
           IN  /\ chat' \in ChatStates /\ chat'.queue = rest
               /\ chat'.phase = IF rest # <<>> THEN "clarifying" ELSE "review"
               /\ chat'.check = chat.check /\ chat'.subject = chat.subject /\ chat'.tutor = chat.tutor
               /\ chat'.resolved = chat.resolved /\ chat'.shown = chat.shown
               /\ chat'.homework = chat.homework
               /\ chat'.tasks \in Seq(Tasks) /\ DOMAIN chat'.tasks = DOMAIN chat.tasks
               /\ \A i \in DOMAIN chat.tasks : i # q.task => chat'.tasks[i] = chat.tasks[i]
               /\ DOMAIN chat'.tasks[q.task].words = DOMAIN chat.tasks[q.task].words
               /\ \A w \in DOMAIN chat.tasks[q.task].words :
                     chat'.tasks[q.task].words[w] # chat.tasks[q.task].words[w]
                     => q.kind = "word" /\ w = q.word
<1>1. PICK rest : rest = Tail(chat.queue)
  OBVIOUS
<1>2. /\ q \in Questions /\ q.task \in DOMAIN chat.tasks /\ chat.tasks[q.task] \in Tasks
      /\ q.kind = "word" => q.word \in DOMAIN chat.tasks[q.task].words
      /\ rest \in Seq(Questions)
  BY <1>1, HeadFacts
<1>3. PICK phase \in Phases : phase = IF rest # <<>> THEN "clarifying" ELSE "review"
  BY DEF Phases
<1>4. PICK old \in Tasks : old = chat.tasks[q.task]
  BY <1>2
<1>5. PICK task \in Answered(old, q) :
          chat' = [chat EXCEPT !.tasks[q.task] = task, !.queue = rest, !.phase = phase]
  BY <1>1, <1>3, <1>4 DEF Understood
<1>6. /\ task \in Tasks /\ DOMAIN task.words = DOMAIN old.words
      /\ \A w \in DOMAIN old.words : task.words[w] # old.words[w] => q.kind = "word" /\ w = q.word
  BY <1>2, <1>4, AnsweredFacts
<1>7. PICK tasks : tasks = [chat.tasks EXCEPT ![q.task] = task]
  OBVIOUS
<1>8. /\ tasks \in Seq(Tasks) /\ DOMAIN tasks = DOMAIN chat.tasks /\ tasks[q.task] = task
      /\ \A i \in DOMAIN chat.tasks : i # q.task => tasks[i] = chat.tasks[i]
  <2>1. chat.tasks \in Seq(Tasks) /\ DOMAIN chat.tasks = 1..Len(chat.tasks)
    BY ChatFields, LenProperties DEF DInv
  <2>2. tasks \in Seq(Tasks)
    BY <1>2, <1>6, <1>7, <2>1, ExceptSeq
  <2> QED BY <1>2, <1>7, <2>1, <2>2
<1>9. chat' = [chat EXCEPT !.tasks = tasks, !.queue = rest, !.phase = phase] /\ chat \in ChatStates
  BY <1>5, <1>7 DEF DInv
<1>10. /\ chat' \in ChatStates /\ chat'.queue = rest /\ chat'.phase = phase /\ chat'.tasks = tasks
       /\ chat'.check = chat.check /\ chat'.subject = chat.subject /\ chat'.tutor = chat.tutor
       /\ chat'.resolved = chat.resolved /\ chat'.shown = chat.shown
       /\ chat'.homework = chat.homework
  BY <1>2, <1>8, <1>9 DEF ChatStates
<1> QED BY <1>1, <1>3, <1>4, <1>6, <1>8, <1>10

\* The errors after an answer: those that were, or the task of the question, with its button in the
\* reply or another question about it.
LEMMA ErrorsAfterAnswer ==
    ASSUME DInv, todo = <<>>, chat.phase = "clarifying",
           chat'.check = chat.check, chat'.resolved = chat.resolved, chat'.shown = chat.shown,
           DOMAIN chat'.tasks = DOMAIN chat.tasks,
           \A j \in DOMAIN chat.tasks : j # Head(chat.queue).task => chat'.tasks[j] = chat.tasks[j],
           failures = 0, ~gaveUp, NEW i \in Remaining(chat')
    PROVE  \/ TutorButton(chat', i) \in screen
           \/ TutorButton(chat', i) \in ReplyButtons(chat', Head(chat.queue), Tail(chat.queue))
           \/ \E n \in DOMAIN Tail(chat.queue) : Tail(chat.queue)[n].task = i
<1>0. PICK q, rest : q = Head(chat.queue) /\ rest = Tail(chat.queue)
  OBVIOUS
<1>1. i \in DOMAIN chat.tasks /\ Strength(chat'.tasks[i]) = "verified"
      /\ i \notin Elements(chat.resolved) \union chat.shown
  BY DEF Remaining, Elements
<1>2. TutorButton(chat', i) = TutorButton(chat, i)
  BY DEF TutorButton
<1> SUFFICES \/ TutorButton(chat', i) \in screen
             \/ TutorButton(chat', i) \in ReplyButtons(chat', q, rest)
             \/ \E n \in DOMAIN rest : rest[n].task = i
  BY <1>0
<1>3. CASE i = q.task
  BY <1>1, <1>3 DEF ReplyButtons
<1>4. CASE i # q.task
  <2>1. i \in Remaining(chat)
    BY <1>0, <1>1, <1>4 DEF Remaining
  <2>2. TutorButton(chat, i) \in screen \/ \E n \in DOMAIN chat.queue : chat.queue[n].task = i
    BY <2>1, IdleFacts
  <2>3. ASSUME NEW n \in DOMAIN chat.queue, chat.queue[n].task = i
        PROVE  \E m \in DOMAIN rest : rest[m].task = i
    <3>1. n # 1
      BY <1>0, <1>4, <2>3, HeadFacts
    <3>2. n - 1 \in DOMAIN rest /\ rest[n - 1] = chat.queue[n]
      BY <1>0, <3>1, HeadFacts
    <3> QED BY <2>3, <3>2
  <2> QED BY <1>2, <2>2, <2>3
<1> QED BY <1>3, <1>4

LEMMA UnderstoodStep ==
    ASSUME DInv, todo = <<>>, chat.phase = "clarifying", Understood(Head(chat.queue)),
           UNCHANGED <<rows, checks, screen, asked, ended, fixed, told, failures>>
    PROVE  DInv'
<1>1. PICK q, rest : q = Head(chat.queue) /\ rest = Tail(chat.queue) /\ Understood(q)
  OBVIOUS
<1>2. /\ chat.queue # <<>> /\ chat.tutor = None /\ chat.check \in Checks /\ chat.check \notin told
      /\ q.task \in DOMAIN chat.tasks /\ 1 \in DOMAIN chat.queue /\ q = chat.queue[1]
      /\ rest \in Seq(Questions)
  BY <1>1, HeadFacts
<1>3. /\ chat' \in ChatStates /\ chat'.queue = rest
      /\ chat'.phase = IF rest # <<>> THEN "clarifying" ELSE "review"
      /\ chat'.check = chat.check /\ chat'.subject = chat.subject /\ chat'.tutor = chat.tutor
      /\ chat'.resolved = chat.resolved /\ chat'.shown = chat.shown
      /\ chat'.homework = chat.homework
      /\ chat'.tasks \in Seq(Tasks) /\ DOMAIN chat'.tasks = DOMAIN chat.tasks
      /\ \A i \in DOMAIN chat.tasks : i # q.task => chat'.tasks[i] = chat.tasks[i]
      /\ DOMAIN chat'.tasks[q.task].words = DOMAIN chat.tasks[q.task].words
      /\ \A w \in DOMAIN chat.tasks[q.task].words :
            chat'.tasks[q.task].words[w] # chat.tasks[q.task].words[w] => q.kind = "word" /\ w = q.word
  BY <1>1, UnderstoodFacts
<1>4. PICK ask \in BOOLEAN : ask = (rest # <<>>)
  OBVIOUS
<1>5. PICK B \in SUBSET AllButtons : B = ReplyButtons(chat', q, rest) /\ \A b \in B : b.kind = "tutor"
  <2>1. chat'.check # 0 /\ q.task \in DOMAIN chat'.tasks
    BY <1>2, <1>3 DEF Checks
  <2> QED BY <1>3, <2>1, TutorButtons, SMTT(60)
<1>6. Talks(todo', B, ask)
  <2>1. todo' = <<Say(B)>> \o (IF ask THEN <<Ask>> ELSE <<>>)
    BY <1>1, <1>4, <1>5, ZenonT(60) DEF Understood
  <2> QED BY <2>1, SaysAndAsks
<1>7. QueueFrom(chat, chat')
  BY <1>1, <1>3, RestFrom
<1>8. Queued'
  <2>1. ASSUME NEW n \in DOMAIN rest
        PROVE  /\ rest[n].task \in DOMAIN chat'.tasks
               /\ rest[n].token[1] = chat'.check
               /\ rest[n].kind = "word" => /\ rest[n].word \in DOMAIN chat'.tasks[rest[n].task].words
                                           /\ chat'.tasks[rest[n].task].words[rest[n].word] = "open"
    <3>1. PICK m \in DOMAIN chat.queue : m # 1 /\ rest[n] = chat.queue[m]
      BY <1>1, HeadFacts
    <3>2. Asks(chat.queue[m]) /\ ~SameWord(chat.queue[m], chat.queue[1])
      BY <1>2, <3>1 DEF DInv, Queued
    <3>3. PICK p : p = rest[n]
      OBVIOUS
    <3>4. /\ p.task \in DOMAIN chat.tasks /\ p.token[1] = chat.check
          /\ p.kind = "word" => /\ p.word \in DOMAIN chat.tasks[p.task].words
                                /\ chat.tasks[p.task].words[p.word] = "open"
                                /\ ~(q.kind = "word" /\ p.task = q.task /\ p.word = q.word)
      BY <1>2, <3>1, <3>2, <3>3 DEF Asks, SameWord
    <3>5. CASE p.task = q.task
      BY <1>3, <3>3, <3>4, <3>5
    <3>6. CASE p.task # q.task
      BY <1>3, <3>3, <3>4, <3>6
    <3> QED BY <3>5, <3>6
  <2>2. \A n, m \in DOMAIN chat'.queue :
            n # m => /\ chat'.queue[n].token # chat'.queue[m].token
                     /\ ~SameWord(chat'.queue[n], chat'.queue[m])
    BY <1>7, QueueStays, SMTT(60) DEF DInv
  <2> QED BY <1>3, <2>1, <2>2 DEF Queued, Asks
<1>9. Phased'
  <2>1. chat.check # 0 /\ chat'.phase # "tutoring" /\ chat'.phase # "idle"
        /\ (chat'.phase = "clarifying" <=> rest # <<>>)
    BY <1>2, <1>3 DEF Checks
  <2> QED BY <1>2, <1>3, <2>1, SMTT(60) DEF DInv, Phased
<1>10. Heard'
  <2>1. ask => Waits("ask")'
    BY <1>6 DEF Talks, Waits
  <2> QED BY <1>3, <1>4, <2>1 DEF Heard
<1>11. gaveUp' = gaveUp
  BY DEF Understood
<1>12. Offered'
  <2> SUFFICES ASSUME failures = 0, ~gaveUp, NEW i \in Remaining(chat')
               PROVE  \/ TutorButton(chat', i) \in screen
                      \/ OnTheWay(TutorButton(chat, i))'
                      \/ \E n \in DOMAIN rest : rest[n].task = i
    <3>1. \A i : TutorButton(chat', i) = TutorButton(chat, i)
      BY <1>3 DEF TutorButton
    <3> QED BY <1>3, <1>11, <3>1 DEF Offered, OnTheWay
  <2>1. \/ TutorButton(chat', i) \in screen
        \/ TutorButton(chat', i) \in B
        \/ \E n \in DOMAIN rest : rest[n].task = i
    <3>1. /\ chat'.check = chat.check
          /\ chat'.resolved = chat.resolved /\ chat'.shown = chat.shown
          /\ DOMAIN chat'.tasks = DOMAIN chat.tasks
          /\ \A j \in DOMAIN chat.tasks : j # Head(chat.queue).task => chat'.tasks[j] = chat.tasks[j]
      BY <1>1, <1>3
    <3>2. \/ TutorButton(chat', i) \in screen
          \/ TutorButton(chat', i) \in ReplyButtons(chat', Head(chat.queue), Tail(chat.queue))
          \/ \E n \in DOMAIN Tail(chat.queue) : Tail(chat.queue)[n].task = i
      BY <3>1, ErrorsAfterAnswer
    <3> QED BY <1>1, <1>5, <3>2, SMTT(60)
  <2>2. TutorButton(chat', i) \in B => OnTheWay(TutorButton(chat, i))'
    BY <1>6, SMTT(60) DEF Talks, OnTheWay
  <2> QED BY <2>1, <2>2
<1>13. Told'
  BY <1>2, <1>3 DEF Told
<1>14. gaveUp' \in BOOLEAN /\ (ask => chat'.queue # <<>>) /\ \A b \in B : b.kind = "tutor" \/ Fits(b)
  BY <1>3, <1>4, <1>5, <1>11 DEF DInv, HistoryOK
<1> QED
  BY <1>3, <1>6, <1>7, <1>8, <1>9, <1>10, <1>12, <1>13, <1>14, TalkHandler

LEMMA AnswerStep ==
    ASSUME DInv, TypeAnswer \/ \E button : PressAnswer(button)
    PROVE  DInv'
<1>1. /\ todo = <<>> /\ chat.phase = "clarifying" /\ (Understood(Head(chat.queue)) \/ NotUnderstood)
      /\ UNCHANGED <<rows, checks, screen, asked, ended, fixed, told, failures>>
  BY DEF TypeAnswer, PressAnswer, AnswersHead, Idle
<1> QED BY <1>1, UnderstoodStep, NotUnderstoodEither, TryAgainStep, GiveUpStep

-----------------------------------------------------------------------------
(***************************************************************************)
(* The end of a tutoring.                                                  *)
(***************************************************************************)
LEMMA AppendedElements ==
    ASSUME NEW s \in Seq(Nat \ {0}), NEW i \in Nat \ {0}, NEW t, t = Append(s, i)
    PROVE  /\ Elements(t) = Elements(s) \union {i}
           /\ t \in Seq(Nat \ {0}) /\ Len(s) \in Nat /\ DOMAIN s = 1..Len(s) /\ DOMAIN t = 1..(Len(s) + 1)
           /\ t[Len(s) + 1] = i /\ \A n \in DOMAIN s : t[n] = s[n]
<1>1. t \in Seq(Nat \ {0}) /\ Len(t) = Len(s) + 1 /\ (\A n \in 1..Len(s) : t[n] = s[n]) /\ t[Len(s) + 1] = i
  BY AppendProperties
<1>2. DOMAIN s = 1..Len(s) /\ Len(s) \in Nat /\ DOMAIN t = 1..Len(t)
  BY <1>1, LenProperties, SMTT(60)
<1>3. PICK k \in Nat : k = Len(s)
  BY <1>2
<1>4. Elements(t) = Elements(s) \union {i}
  <2>1. DOMAIN t = 1..(k + 1) /\ DOMAIN s = 1..k /\ t[k + 1] = i /\ \A n \in 1..k : t[n] = s[n]
    BY <1>1, <1>2, <1>3
  <2>2. 1..(k + 1) = 1..k \union {k + 1}
    OBVIOUS
  <2> QED BY <2>1, <2>2 DEF Elements
<1> QED BY <1>1, <1>2, <1>4

\* error_fixed(): a task that comes to `resolved` is there once when it was not there before.
LEMMA CountedWhenNew ==
    ASSUME NEW s \in Seq(Nat \ {0}), NEW i \in Nat \ {0}, NEW t, t = Append(s, i)
    PROVE  Cardinality({n \in DOMAIN t : t[n] = i}) <= 1 <=> i \notin Elements(s)
<1>1. PICK k \in Nat : k = Len(s)
  BY LenProperties
<1>2. DOMAIN t = 1..(k + 1) /\ DOMAIN s = 1..k /\ t[k + 1] = i /\ \A n \in 1..k : t[n] = s[n]
  BY <1>1, AppendedElements
<1>3. PICK T : T = {n \in DOMAIN t : t[n] = i}
  OBVIOUS
<1>4. T \in SUBSET (1..(k + 1)) /\ k + 1 \in T /\ \A n \in 1..k : n \in T <=> s[n] = i
  BY <1>2, <1>3
<1>5. IsFiniteSet(T) /\ Cardinality(T) \in Nat
  <2>1. IsFiniteSet(1..(k + 1))
    <3>1. 1 \in Int /\ k + 1 \in Int
      OBVIOUS
    <3> QED BY <3>1, FS_Interval
  <2> QED BY <1>4, <2>1, FS_Subset, FS_CardinalityType
<1>6. CASE i \notin Elements(s)
  <2>1. \A n \in 1..k : s[n] # i
    BY <1>2, <1>6 DEF Elements
  <2>2. T = {k + 1}
    <3>1. \A n \in 1..(k + 1) : n \in 1..k \/ n = k + 1
      OBVIOUS
    <3> QED BY <1>4, <2>1, <3>1
  <2>3. Cardinality({k + 1}) = 1
    BY FS_Singleton
  <2>4. Cardinality(T) <= 1
    BY <2>2, <2>3
  <2> QED BY <1>3, <1>6, <2>4
<1>7. CASE i \in Elements(s)
  <2>1. PICK m \in 1..k : s[m] = i
    BY <1>2, <1>7 DEF Elements
  <2>2. m \in T /\ m # k + 1
    BY <1>4, <2>1
  <2>3. IsFiniteSet({m}) /\ Cardinality({m}) = 1 /\ k + 1 \notin {m}
    BY <2>2, FS_Singleton
  <2>4. PICK M : M = {m} \union {k + 1}
    OBVIOUS
  <2>5. Cardinality(M) = Cardinality({m}) + 1
    BY <2>3, <2>4, FS_AddElement
  <2>6. M \in SUBSET T
    BY <1>4, <2>2, <2>4
  <2>7. Cardinality(M) <= Cardinality(T)
    BY <1>5, <2>6, FS_Subset
  <2>8. Cardinality(M) = 2
    BY <2>3, <2>5
  <2>9. ~(Cardinality(T) <= 1)
    <3>1. PICK c \in Nat : c = Cardinality(T)
      BY <1>5
    <3>2. 2 <= c
      BY <2>7, <2>8, <3>1
    <3> QED BY <3>1, <3>2
  <2> QED BY <1>3, <1>7, <2>9
<1> QED BY <1>6, <1>7

LEMMA OneCall ==
    ASSUME NEW a \in ToDos, NEW t, t = <<a>>
    PROVE  t \in Seq(ToDos) /\ Len(t) = 1 /\ t[1] = a
OBVIOUS

LEMMA TwoCalls ==
    ASSUME NEW a \in ToDos, NEW b \in ToDos, NEW t, t = <<a, b>>
    PROVE  t \in Seq(ToDos) /\ Len(t) = 2 /\ t[1] = a /\ t[2] = b
OBVIOUS

LEMMA NoCall ==
    ASSUME NEW t, t = <<>>
    PROVE  t \in Seq(ToDos) /\ Len(t) = 0
OBVIOUS

\* The calls of u, and then those of v.
LEMMA Joined ==
    ASSUME NEW u \in Seq(ToDos), NEW v \in Seq(ToDos)
    PROVE  /\ u \o v \in Seq(ToDos) /\ Len(u) \in Nat /\ Len(v) \in Nat
           /\ Len(u \o v) = Len(u) + Len(v) /\ DOMAIN (u \o v) = 1..(Len(u) + Len(v))
           /\ \A i \in 1..Len(u) : (u \o v)[i] = u[i]
           /\ \A i \in 1..Len(v) : (u \o v)[Len(u) + i] = v[i]
<1>1. PICK t : t = u \o v
  OBVIOUS
<1>2. PICK k, l \in Nat : k = Len(u) /\ l = Len(v)
  BY LenProperties
<1>3. /\ t \in Seq(ToDos) /\ Len(t) = k + l
      /\ \A i \in 1..(k + l) : t[i] = IF i <= k THEN u[i] ELSE v[i - k]
  BY <1>1, <1>2, ConcatProperties
<1>4. DOMAIN t = 1..(k + l)
  BY <1>3, LenProperties
<1>5. \A i \in 1..k : t[i] = u[i]
  <2>1. \A i \in 1..k : i \in 1..(k + l) /\ i <= k
    OBVIOUS
  <2> QED BY <1>3, <2>1
<1>6. ASSUME NEW i \in 1..l PROVE t[k + i] = v[i]
  <2>1. k + i \in 1..(k + l) /\ ~(k + i <= k) /\ (k + i) - k = i
    OBVIOUS
  <2> QED BY <1>3, <2>1
<1> QED BY <1>1, <1>2, <1>3, <1>4, <1>5, <1>6

\* What a handler does after a task was worked through: the buttons of the other errors, and the
\* notifier or not.
Ends(t, B, counts, tells) ==
    /\ t \in Seq(ToDos) /\ DOMAIN t = 1..Len(t)
    /\ \A i \in DOMAIN t :
          \/ t[i].call = "say" /\ t[i].buttons \subseteq B
          \/ t[i].call = "resolve_error" /\ t[i].buttons = {} /\ counts /\ i = 3
          \/ t[i].call = "tell" /\ t[i].buttons = {} /\ counts /\ tells /\ i = 4
    /\ \E i \in DOMAIN t : t[i].buttons = B
    /\ counts => 3 \in DOMAIN t /\ t[3].call = "resolve_error"
    /\ Len(t) = IF ~counts THEN 2 ELSE IF tells THEN 4 ELSE 3
    /\ Len(t) = 4 => t[4].call = "tell"

LEMMA EndsAs ==
    ASSUME NEW B \in SUBSET AllButtons, NEW counts \in BOOLEAN, NEW tells \in BOOLEAN, NEW t,
           t = <<Say({}), Say(B)>> \o (IF ~counts THEN <<>> ELSE <<Count>> \o (IF tells THEN <<Tell>> ELSE <<>>))
    PROVE  Ends(t, B, counts, tells)
<1>1. PICK u : u = <<Say({}), Say(B)>>
  OBVIOUS
<1>2. PICK w : w = IF tells THEN <<Tell>> ELSE <<>>
  OBVIOUS
<1>3. PICK v : v = IF ~counts THEN <<>> ELSE <<Count>> \o w
  OBVIOUS
<1>4. t = u \o v
  BY <1>1, <1>2, <1>3
<1>5. /\ u \in Seq(ToDos) /\ Len(u) = 2
      /\ u[1].call = "say" /\ u[1].buttons = {} /\ u[2].call = "say" /\ u[2].buttons = B
  <2>1. {} \in SUBSET AllButtons
    OBVIOUS
  <2> QED BY <1>1, <2>1, SayIsToDo, TwoCalls
<1>6. /\ w \in Seq(ToDos) /\ Len(w) = IF tells THEN 1 ELSE 0
      /\ tells => w[1].call = "tell" /\ w[1].buttons = {}
  BY <1>2, OthersAreToDos, OneCall, NoCall
<1>7. CASE ~counts
  <2>1. v \in Seq(ToDos) /\ Len(v) = 0
    BY <1>3, <1>7, NoCall
  <2>2. PICK k, l : k = Len(u) /\ l = Len(v)
    OBVIOUS
  <2>6. k = 2 /\ l = 0
    BY <1>5, <2>1, <2>2
  <2>3. t \in Seq(ToDos) /\ Len(t) = k + l /\ DOMAIN t = 1..(k + l) /\ \A i \in 1..k : t[i] = u[i]
    <3>1. u \in Seq(ToDos) /\ v \in Seq(ToDos)
      BY <1>5, <2>1
    <3>2. /\ u \o v \in Seq(ToDos) /\ Len(u \o v) = Len(u) + Len(v) /\ DOMAIN (u \o v) = 1..(Len(u) + Len(v))
          /\ \A i \in 1..Len(u) : (u \o v)[i] = u[i]
      BY <3>1, Joined
    <3> QED BY <1>4, <2>2, <3>2
  <2>4. k + l = 2 /\ 1 \in 1..k /\ 2 \in 1..k /\ \A i \in 1..(k + l) : i = 1 \/ i = 2
    BY <2>6
  <2>5. t[1] = u[1] /\ t[2] = u[2] /\ 1 \in DOMAIN t /\ 2 \in DOMAIN t /\ Len(t) = 2
        /\ DOMAIN t = 1..Len(t) /\ \A i \in DOMAIN t : i = 1 \/ i = 2
    BY <2>3, <2>4, <2>6
  <2>7. \A i \in DOMAIN t : t[i].call = "say" /\ t[i].buttons \subseteq B
    BY <1>5, <2>5
  <2>8. \E i \in DOMAIN t : t[i].buttons = B
    BY <1>5, <2>5
  <2> QED BY <1>7, <2>3, <2>5, <2>7, <2>8 DEF Ends
<1>8. CASE counts
  <2>1. PICK c : c = <<Count>>
    OBVIOUS
  <2>2. c \in Seq(ToDos) /\ Len(c) = 1 /\ c[1].call = "resolve_error" /\ c[1].buttons = {}
    BY <2>1, OthersAreToDos, OneCall
  <2>3. v = c \o w
    BY <1>3, <1>8, <2>1
  <2>4. PICK k, l : k = Len(c) /\ l = Len(w)
    OBVIOUS
  <2>5. /\ v \in Seq(ToDos) /\ Len(v) = k + l
        /\ \A i \in 1..k : v[i] = c[i]
        /\ \A i \in 1..l : v[k + i] = w[i]
    <3>1. c \in Seq(ToDos) /\ w \in Seq(ToDos)
      BY <1>6, <2>2
    <3>2. /\ c \o w \in Seq(ToDos) /\ Len(c \o w) = Len(c) + Len(w)
          /\ \A i \in 1..Len(c) : (c \o w)[i] = c[i]
          /\ \A i \in 1..Len(w) : (c \o w)[Len(c) + i] = w[i]
      BY <3>1, Joined
    <3> QED BY <2>3, <2>4, <3>2
  <2>6. PICK m, n : m = Len(u) /\ n = Len(v)
    OBVIOUS
  <2>7. /\ t \in Seq(ToDos) /\ Len(t) = m + n /\ DOMAIN t = 1..(m + n)
        /\ \A i \in 1..m : t[i] = u[i]
        /\ \A i \in 1..n : t[m + i] = v[i]
    <3>1. u \in Seq(ToDos) /\ v \in Seq(ToDos)
      BY <1>5, <2>5
    <3>2. /\ u \o v \in Seq(ToDos) /\ Len(u \o v) = Len(u) + Len(v) /\ DOMAIN (u \o v) = 1..(Len(u) + Len(v))
          /\ \A i \in 1..Len(u) : (u \o v)[i] = u[i]
          /\ \A i \in 1..Len(v) : (u \o v)[Len(u) + i] = v[i]
      BY <3>1, Joined
    <3> QED BY <1>4, <2>6, <3>2
  <2>12. k = 1 /\ m = 2 /\ n = k + l /\ l = (IF tells THEN 1 ELSE 0) /\ n \in Nat /\ l \in {0, 1}
    <3>1. k = 1 /\ m = 2 /\ n = k + l /\ l = IF tells THEN 1 ELSE 0
      BY <1>5, <1>6, <2>2, <2>4, <2>5, <2>6
    <3> QED BY <3>1
  <2>8. t[1] = u[1] /\ t[2] = u[2]
    <3>1. 1 \in 1..m /\ 2 \in 1..m
      BY <2>12
    <3> QED BY <2>7, <3>1
  <2>9. t[3].call = "resolve_error" /\ t[3].buttons = {}
    <3>1. 1 \in 1..k /\ 1 \in 1..n /\ m + 1 = 3
      BY <2>12
    <3>2. v[1] = c[1] /\ t[m + 1] = v[1]
      BY <2>5, <2>7, <3>1
    <3> QED BY <2>2, <3>1, <3>2
  <2>10. CASE tells
    <3>1. l = 1 /\ n = 2 /\ m + n = 4
      BY <2>10, <2>12
    <3>2. t[4].call = "tell" /\ t[4].buttons = {}
      <4>1. 1 \in 1..l /\ 2 \in 1..n /\ k + 1 = 2 /\ m + 2 = 4
        BY <2>12, <3>1
      <4>2. v[k + 1] = w[1] /\ t[m + 2] = v[2]
        BY <2>5, <2>7, <4>1
      <4> QED BY <1>6, <2>10, <4>1, <4>2
    <3>3. /\ 1 \in 1..4 /\ 2 \in 1..4 /\ 3 \in 1..4
          /\ \A i \in 1..4 : i = 1 \/ i = 2 \/ i = 3 \/ i = 4
      OBVIOUS
    <3>4. /\ Len(t) = 4 /\ DOMAIN t = 1..Len(t)
          /\ 1 \in DOMAIN t /\ 2 \in DOMAIN t /\ 3 \in DOMAIN t
          /\ \A i \in DOMAIN t : i = 1 \/ i = 2 \/ i = 3 \/ i = 4
      BY <2>7, <3>1, <3>3
    <3>5. /\ t[1].call = "say" /\ t[1].buttons \subseteq B /\ t[2].call = "say" /\ t[2].buttons = B
      BY <1>5, <2>8
    <3>6. \A i \in DOMAIN t :
             \/ t[i].call = "say" /\ t[i].buttons \subseteq B
             \/ t[i].call = "resolve_error" /\ t[i].buttons = {} /\ counts /\ i = 3
             \/ t[i].call = "tell" /\ t[i].buttons = {} /\ counts /\ tells /\ i = 4
      BY <1>8, <2>9, <2>10, <3>2, <3>4, <3>5, ZenonT(60)
    <3>7. \E i \in DOMAIN t : t[i].buttons = B
      BY <3>4, <3>5
    <3> QED BY <1>8, <2>7, <2>9, <2>10, <3>2, <3>4, <3>6, <3>7 DEF Ends
  <2>11. CASE ~tells
    <3>1. n = 1 /\ m + n = 3
      BY <2>11, <2>12
    <3>2. 1 \in 1..3 /\ 2 \in 1..3 /\ 3 \in 1..3 /\ \A i \in 1..3 : i = 1 \/ i = 2 \/ i = 3
      OBVIOUS
    <3>3. /\ Len(t) = 3 /\ DOMAIN t = 1..Len(t)
          /\ 1 \in DOMAIN t /\ 2 \in DOMAIN t /\ 3 \in DOMAIN t
          /\ \A i \in DOMAIN t : i = 1 \/ i = 2 \/ i = 3
      BY <2>7, <3>1, <3>2
    <3>5. /\ t[1].call = "say" /\ t[1].buttons \subseteq B /\ t[2].call = "say" /\ t[2].buttons = B
      BY <1>5, <2>8
    <3>6. \A i \in DOMAIN t :
             \/ t[i].call = "say" /\ t[i].buttons \subseteq B
             \/ t[i].call = "resolve_error" /\ t[i].buttons = {} /\ counts /\ i = 3
      BY <1>8, <2>9, <3>3, <3>5
    <3>7. \E i \in DOMAIN t : t[i].buttons = B
      BY <3>3, <3>5
    <3> QED BY <1>8, <2>7, <2>9, <2>11, <3>3, <3>6, <3>7 DEF Ends
  <2> QED BY <2>10, <2>11
<1> QED BY <1>7, <1>8

LEMMA EndsWaits ==
    ASSUME NEW B, NEW counts \in BOOLEAN, NEW tells \in BOOLEAN, Ends(todo', B, counts, tells), \A b \in B : b.kind = "tutor"
    PROVE  /\ todo' \in Seq(ToDos) /\ ButtonedToDo' /\ Ordered'
           /\ \A b \in B : OnTheWay(b)'
           /\ ~Waits("ask")' /\ ~Waits("homework_id")' /\ (Waits("resolve_error")' <=> counts)
           /\ Waits("tell")' => counts /\ tells
<1>1. \A b \in B : Fits(b)'
  BY DEF Fits, Buttons
<1>2. todo' \in Seq(ToDos) /\ ButtonedToDo' /\ \A b \in B : OnTheWay(b)'
  BY <1>1 DEF Ends, ButtonedToDo, OnTheWay
<1>3. \A i \in DOMAIN todo' : \/ todo'[i].call = "say"
                              \/ todo'[i].call = "resolve_error" /\ counts /\ i = 3
                              \/ todo'[i].call = "tell" /\ counts /\ tells /\ i = 4
  BY DEF Ends
<1>4. ~Waits("ask")' /\ ~Waits("homework_id")' /\ (Waits("resolve_error")' <=> counts)
      /\ (Waits("tell")' => counts /\ tells)
  BY <1>3 DEF Waits, Ends
<1>5. ASSUME NEW i \in DOMAIN todo'
      PROVE  /\ todo'[i].call # "add_homework" /\ todo'[i].call # "homework_id"
             /\ todo'[i].call = "resolve_error" =>
                   i = Len(todo') \/ (i = Len(todo') - 1 /\ todo'[i + 1].call = "tell")
             /\ todo'[i].call = "tell" => i = Len(todo')
  <2>1. todo'[i].call # "add_homework" /\ todo'[i].call # "homework_id"
    BY <1>3
  <2>2. ASSUME todo'[i].call = "tell" PROVE i = Len(todo')
    <3>1. counts /\ tells /\ i = 4
      BY <1>3, <2>2
    <3> QED BY <3>1 DEF Ends
  <2>3. ASSUME todo'[i].call = "resolve_error"
        PROVE  i = Len(todo') \/ (i = Len(todo') - 1 /\ todo'[i + 1].call = "tell")
    <3>1. counts /\ i = 3 /\ i + 1 = 4
      BY <1>3, <2>3
    <3>2. CASE tells
      BY <3>1, <3>2 DEF Ends
    <3>3. CASE ~tells
      BY <3>1, <3>3 DEF Ends
    <3> QED BY <3>2, <3>3
  <2> QED BY <2>1, <2>2, <2>3
<1>6. Ordered'
  BY <1>5 DEF Ordered
<1> QED BY <1>2, <1>4, <1>6

\* What is true after either end.
LEMMA EndsHandler ==
    ASSUME DInv, todo = <<>>, chat.phase = "tutoring", NEW i, i = chat.index,
           NEW counts \in BOOLEAN, NEW tells \in BOOLEAN,
           Ends(todo', RemainingButtons(chat'), counts, tells), counts => chat'.homework # 0, tells => Remaining(chat') = {},
           UNCHANGED <<rows, checks, screen, asked, told, gaveUp, failures>>,
           ended' = ended \union {i}, fixed' \in {fixed, fixed \union {i}},
           chat' \in ChatStates, chat'.phase = "review", chat'.tutor = None,
           chat'.queue = chat.queue, chat'.check = chat.check, chat'.tasks = chat.tasks,
           chat'.homework = chat.homework, Worked'
    PROVE  /\ Counted' => DInv'
           /\ Due' = IF counts THEN 1 ELSE 0
<1>1. chat.queue = <<>> /\ chat.check # 0 /\ i \in DOMAIN chat.tasks
  BY DEF DInv, Phased
<1>2. i \in Nat \ {0}
  BY <1>1, ChatFields, LenProperties DEF DInv
<1>3. HistoryOK'
  BY <1>2 DEF DInv, HistoryOK
<1>4. Phased'
  BY <1>1 DEF DInv, Phased
<1>5. DOMAIN chat'.queue = {} /\ Queued'
  <2>1. DOMAIN chat'.queue = {}
    BY <1>1
  <2> QED BY <2>1 DEF Queued
<1> DEFINE B == RemainingButtons(chat')
<1>6. \A b \in B : b.kind = "tutor"
  <2>1. chat'.check = 0 => chat'.tasks = <<>>
    BY <1>1
  <2> QED BY <2>1, TutorButtons
<1>7. /\ todo' \in Seq(ToDos) /\ ButtonedToDo' /\ Ordered'
      /\ \A b \in B : OnTheWay(b)'
      /\ ~Waits("ask")' /\ ~Waits("homework_id")' /\ (Waits("resolve_error")' <=> counts)
      /\ Waits("tell")' => counts /\ tells
  BY <1>6, EndsWaits
<1>8. Buttoned'
  <2>1. \A b \in screen : Fits(b)'
    BY <1>5, FitsStays DEF DInv, Buttoned
  <2> QED BY <1>7, <2>1 DEF Buttoned, ButtonedToDo
<1>9. Expected'
  BY <1>1, <1>7 DEF Expected
<1>10. Heard'
  BY <1>1 DEF Heard
<1>11. Offered'
  <2>1. \A j \in Remaining(chat') : TutorButton(chat', j) \in B
    BY DEF RemainingButtons
  <2>2. \A j \in Remaining(chat') : OnTheWay(TutorButton(chat, j))'
    BY <1>7, <2>1
  <2> QED BY <2>2 DEF Offered
<1>12. Kept'
  BY IdleFacts DEF Kept
<1>13. Told'
  BY <1>1 DEF DInv, Told
<1>14. Due' = IF counts THEN 1 ELSE 0
  BY <1>7 DEF Due
<1> QED BY <1>3, <1>4, <1>5, <1>7, <1>8, <1>9, <1>10, <1>11, <1>12, <1>13, <1>14 DEF DInv

LEMMA EndsFixedStep ==
    ASSUME DInv, todo = <<>>, chat.phase = "tutoring", NEW session, EndsFixed(session),
           UNCHANGED <<rows, checks, screen, asked, told, gaveUp, failures>>
    PROVE  DInv'
<1>1. PICK i : i = chat.index
  OBVIOUS
<1>2. i \in DOMAIN chat.tasks /\ chat.check # 0
  BY <1>1 DEF DInv, Phased
<1>3. i \in Nat \ {0}
  BY <1>2, ChatFields, LenProperties DEF DInv
<1>4. /\ chat' = [Ended(chat) EXCEPT !.resolved = Append(@, i)] /\ chat \in ChatStates
      /\ todo' = <<Say({}), Say(RemainingButtons(chat'))>> \o Notify(chat', i)
      /\ fixed' = fixed \union {i} /\ ended' = ended \union {i}
  BY <1>1 DEF EndsFixed, DInv
<1>5. /\ chat' \in ChatStates /\ chat'.phase = "review" /\ chat'.tutor = None
      /\ chat'.resolved = Append(chat.resolved, i)
      /\ chat'.queue = chat.queue /\ chat'.check = chat.check /\ chat'.subject = chat.subject
      /\ chat'.tasks = chat.tasks /\ chat'.shown = chat.shown /\ chat'.homework = chat.homework
  <2>1. Append(chat.resolved, i) \in Seq(Nat \ {0})
    BY <1>3, <1>4, AppendProperties, ChatFields
  <2> QED BY <1>4, <2>1 DEF ChatStates, Ended, Phases
<1>6. PICK counts \in BOOLEAN : counts = CountsFixed(chat', i)
  BY DEF CountsFixed
<1>7. PICK tells \in BOOLEAN : tells = (Remaining(chat') = {})
  OBVIOUS
<1>8. PICK B \in SUBSET AllButtons : B = RemainingButtons(chat')
  BY <1>2, <1>5, TutorButtons
<1>9. Ends(todo', B, counts, tells)
  <2>1. todo' = <<Say({}), Say(B)>>
                   \o (IF ~counts THEN <<>> ELSE <<Count>> \o (IF tells THEN <<Tell>> ELSE <<>>))
    BY <1>4, <1>6, <1>7, <1>8 DEF Notify
  <2> QED BY <2>1, EndsAs
<1>10. counts => chat'.homework # 0
  BY <1>6 DEF CountsFixed
<1>11. Elements(chat.resolved) = fixed /\ Elements(chat.resolved) \union chat.shown = ended
       /\ chat.resolved \in Seq(Nat \ {0})
  BY <1>2, ChatFields DEF DInv, Worked
<1>12. Worked'
  <2>1. Elements(chat'.resolved) = Elements(chat.resolved) \union {i}
    <3>1. chat.resolved \in Seq(Nat \ {0}) /\ chat'.resolved = Append(chat.resolved, i)
      BY <1>5, <1>11
    <3> QED BY <1>3, <3>1, AppendedElements, ZenonT(60)
  <2> QED BY <1>4, <1>5, <1>11, <2>1 DEF Worked
<1>13. (Counted' => DInv') /\ Due' = IF counts THEN 1 ELSE 0
  <2>1. Ends(todo', RemainingButtons(chat'), counts, tells) /\ (tells => Remaining(chat') = {})
    BY <1>7, <1>8, <1>9
  <2>2. fixed' \in {fixed, fixed \union {i}} /\ ended' = ended \union {i}
    BY <1>4
  <2> QED BY <1>1, <1>5, <1>10, <1>12, <2>1, <2>2, EndsHandler
<1>14. counts <=> chat.homework # 0 /\ i \notin fixed
  <2>1. Cardinality({n \in DOMAIN chat'.resolved : chat'.resolved[n] = i}) <= 1 <=> i \notin fixed
    BY <1>3, <1>5, <1>11, CountedWhenNew
  <2> QED BY <1>5, <1>6, <2>1 DEF CountsFixed
<1>15. IsFiniteSet(fixed) /\ Cardinality(fixed) \in Nat
  BY <1>2, FixedIsFinite
<1>16. Cardinality(fixed') = IF i \in fixed THEN Cardinality(fixed) ELSE Cardinality(fixed) + 1
  BY <1>4, <1>15, FS_AddElement
<1>17. Counted'
  <2> SUFFICES ASSUME chat.homework # 0
               PROVE  /\ rows[chat.homework].check = chat.check
                      /\ rows[chat.homework].resolved + Due' <= Cardinality(fixed')
                      /\ failures = 0 => rows[chat.homework].resolved + Due' = Cardinality(fixed')
    BY <1>5 DEF Counted
  <2>1. PICK r \in Nat : r = rows[chat.homework].resolved
    BY IdleFacts
  <2>2. rows[chat.homework].check = chat.check /\ r <= Cardinality(fixed)
        /\ (failures = 0 => r = Cardinality(fixed))
    BY <2>1, IdleFacts
  <2>3. Due' = IF i \notin fixed THEN 1 ELSE 0
    BY <1>13, <1>14
  <2>4. PICK k \in Nat : k = Cardinality(fixed)
    BY <1>15
  <2>5. Due' = (IF i \notin fixed THEN 1 ELSE 0) /\ Cardinality(fixed') = (IF i \in fixed THEN k ELSE k + 1)
        /\ r <= k /\ (failures = 0 => r = k)
    BY <1>16, <2>2, <2>3, <2>4
  <2>6. r + Due' <= Cardinality(fixed') /\ (failures = 0 => r + Due' = Cardinality(fixed'))
    BY <2>5
  <2> QED BY <2>1, <2>2, <2>6
<1> QED BY <1>13, <1>17

LEMMA EndsShownStep ==
    ASSUME DInv, todo = <<>>, chat.phase = "tutoring", NEW session, NEW says, EndsShown(session, says),
           UNCHANGED <<rows, checks, screen, asked, told, gaveUp, failures>>
    PROVE  DInv'
<1>1. PICK i : i = chat.index
  OBVIOUS
<1>2. i \in DOMAIN chat.tasks /\ chat.check # 0
  BY <1>1 DEF DInv, Phased
<1>3. i \in Nat \ {0}
  BY <1>2, ChatFields, LenProperties DEF DInv
<1>4. /\ chat' = [Ended(chat) EXCEPT !.shown = @ \union {i}] /\ chat \in ChatStates
      /\ todo' = <<Say({}), Say(RemainingButtons(chat'))>>
      /\ fixed' = fixed /\ ended' = ended \union {i}
  BY <1>1 DEF EndsShown, DInv
<1>5. /\ chat' \in ChatStates /\ chat'.phase = "review" /\ chat'.tutor = None
      /\ chat'.shown = chat.shown \union {i}
      /\ chat'.queue = chat.queue /\ chat'.check = chat.check /\ chat'.subject = chat.subject
      /\ chat'.tasks = chat.tasks /\ chat'.resolved = chat.resolved /\ chat'.homework = chat.homework
  BY <1>3, <1>4 DEF ChatStates, Ended, Phases
<1>6. PICK counts, tells \in BOOLEAN : counts = FALSE /\ tells = FALSE
  OBVIOUS
<1>7. PICK B \in SUBSET AllButtons : B = RemainingButtons(chat')
  BY <1>2, <1>5, TutorButtons
<1>8. Ends(todo', B, counts, tells)
  <2>1. PICK u : u = <<Say({}), Say(B)>>
    OBVIOUS
  <2>2. u \in Seq(ToDos) /\ u \o <<>> = u
    <3>1. {} \in SUBSET AllButtons
      OBVIOUS
    <3>2. u \in Seq(ToDos)
      BY <2>1, <3>1, SayIsToDo, TwoCalls
    <3> QED BY <3>2, ConcatEmptySeq
  <2>3. todo' = <<Say({}), Say(B)>>
                   \o (IF ~counts THEN <<>> ELSE <<Count>> \o (IF tells THEN <<Tell>> ELSE <<>>))
    BY <1>4, <1>6, <1>7, <2>1, <2>2
  <2> QED BY <2>3, EndsAs
<1>9. Worked'
  BY <1>2, <1>4, <1>5 DEF DInv, Worked, Elements
<1>10. (Counted' => DInv') /\ Due' = IF counts THEN 1 ELSE 0
  <2>1. Ends(todo', RemainingButtons(chat'), counts, tells)
    BY <1>7, <1>8
  <2>2. fixed' \in {fixed, fixed \union {i}} /\ ended' = ended \union {i}
    BY <1>4
  <2>3. (tells => Remaining(chat') = {}) /\ (counts => chat'.homework # 0)
    BY <1>6
  <2> QED BY <1>1, <1>5, <1>9, <2>1, <2>2, <2>3, EndsHandler
<1>11. Counted'
  <2>1. Due' = 0
    BY <1>6, <1>10
  <2> QED BY <1>4, <1>5, <2>1, IdleFacts DEF Counted
<1> QED BY <1>10, <1>11

LEMMA TurnIsSession ==
    ASSUME NEW session \in Sessions, NEW says
    PROVE  Turn(session, says) \in Sessions
<1>1. /\ [session EXCEPT !.resolved = TRUE] \in Sessions
  BY DEF Sessions
<1>2. [session EXCEPT !.level = IF @ < MaxHintLevel THEN @ + 1 ELSE @] \in Sessions
  <2>1. PICK l \in 0..MaxHintLevel : l = IF session.level < MaxHintLevel THEN session.level + 1 ELSE session.level
    <3>1. session.level \in 0..3 /\ MaxHintLevel = 3
      BY DEF Sessions, MaxHintLevel
    <3> QED BY <3>1
  <2>2. PICK s : s = [session EXCEPT !.level = l]
    OBVIOUS
  <2>3. s \in Sessions
    BY <2>2 DEF Sessions
  <2>4. [session EXCEPT !.level = IF @ < MaxHintLevel THEN @ + 1 ELSE @] = s
    BY <2>1, <2>2
  <2> QED BY <2>3, <2>4
<1>3. \/ Turn(session, says) = [session EXCEPT !.resolved = TRUE]
      \/ Turn(session, says) = session
      \/ Turn(session, says) = [session EXCEPT !.level = IF @ < MaxHintLevel THEN @ + 1 ELSE @]
  BY DEF Turn
<1>4. CASE Turn(session, says) = [session EXCEPT !.resolved = TRUE]
  BY <1>1, <1>4
<1>5. CASE Turn(session, says) = [session EXCEPT !.level = IF @ < MaxHintLevel THEN @ + 1 ELSE @]
  BY <1>2, <1>5, Zenon
<1> QED BY <1>3, <1>4, <1>5

LEMMA ReplyStep ==
    ASSUME DInv, NEW says, Reply(says)
    PROVE  DInv'
<1>1. PICK session : session = Turn(chat.tutor, says)
  OBVIOUS
<1>2. /\ todo = <<>> /\ chat.phase = "tutoring"
      /\ EndsFixed(session) \/ EndsShown(session, says) \/ GoesOn(session, says)
      /\ UNCHANGED <<rows, checks, screen, asked, told, gaveUp, failures>>
  BY <1>1 DEF Reply, Idle
<1>3. session \in Sessions
  <2>1. chat.tutor \in Sessions
    BY <1>2, ChatFields DEF DInv, Phased
  <2> QED BY <1>1, <2>1, TurnIsSession
<1> QED BY <1>2, <1>3, EndsFixedStep, EndsShownStep, GoesOnStep

-----------------------------------------------------------------------------
(***************************************************************************)
(* A new homework.                                                         *)
(***************************************************************************)
\* The calls of _process_photos(): it talks, and then the notifier saves.
Saves(t, B, ask) ==
    /\ t \in Seq(ToDos)
    /\ \A i \in DOMAIN t :
          \/ t[i].call = "say" /\ t[i].buttons \subseteq B
          \/ t[i].call = "ask" /\ t[i].buttons = {} /\ ask
          \/ t[i].call = "add_homework" /\ t[i].buttons = {} /\ i = Len(t) - 1 /\ t[i + 1].call = "homework_id"
          \/ /\ t[i].call = "homework_id" /\ t[i].buttons = {} /\ i = Len(t) /\ i > 1
             /\ t[i - 1].call = "add_homework"
    /\ \E i \in DOMAIN t : t[i].buttons = B
    /\ ask => \E i \in DOMAIN t : t[i].call = "ask"
    /\ \E i \in DOMAIN t : t[i].call = "homework_id"

LEMMA SavesAfter ==
    ASSUME NEW B, NEW ask \in BOOLEAN, NEW u, Talks(u, B, ask), NEW t, t = u \o <<Save, Link>>
    PROVE  Saves(t, B, ask)
<1>1. PICK v : v = <<Save, Link>>
  OBVIOUS
<1>2. /\ v \in Seq(ToDos) /\ Len(v) = 2
      /\ v[1].call = "add_homework" /\ v[1].buttons = {} /\ v[2].call = "homework_id" /\ v[2].buttons = {}
  BY <1>1, OthersAreToDos, TwoCalls
<1>3. u \in Seq(ToDos) /\ v \in Seq(ToDos)
  BY <1>2 DEF Talks
<1>4. /\ u \o v \in Seq(ToDos) /\ Len(u) \in Nat /\ Len(u \o v) = Len(u) + Len(v)
      /\ DOMAIN (u \o v) = 1..(Len(u) + Len(v)) /\ DOMAIN u = 1..Len(u)
      /\ \A i \in 1..Len(u) : (u \o v)[i] = u[i]
      /\ \A i \in 1..Len(v) : (u \o v)[Len(u) + i] = v[i]
  BY <1>3, Joined, LenProperties
<1>5. t = u \o v
  BY <1>1, SMTT(60)
<1>6. PICK k \in Nat : k = Len(u)
  BY <1>4
<1>7. /\ t \in Seq(ToDos) /\ Len(t) = k + 2 /\ DOMAIN t = 1..(k + 2)
      /\ DOMAIN u = 1..k /\ \A i \in 1..k : t[i] = u[i]
      /\ \A i \in 1..2 : t[k + i] = v[i]
  BY <1>2, <1>4, <1>5, <1>6
<1>8. t[k + 1].call = "add_homework" /\ t[k + 1].buttons = {}
      /\ t[k + 2].call = "homework_id" /\ t[k + 2].buttons = {}
  <2>1. 1 \in 1..2 /\ 2 \in 1..2
    OBVIOUS
  <2> QED BY <1>2, <1>7, <2>1
<1>9. ASSUME NEW i \in DOMAIN t
      PROVE  \/ t[i].call = "say" /\ t[i].buttons \subseteq B
             \/ t[i].call = "ask" /\ t[i].buttons = {} /\ ask
             \/ /\ t[i].call = "add_homework" /\ t[i].buttons = {} /\ i = Len(t) - 1
                /\ t[i + 1].call = "homework_id"
             \/ /\ t[i].call = "homework_id" /\ t[i].buttons = {} /\ i = Len(t) /\ i > 1
                /\ t[i - 1].call = "add_homework"
  <2>1. i \in 1..k \/ i = k + 1 \/ i = k + 2
    BY <1>7, SMTT(60)
  <2>2. CASE i \in 1..k
    BY <1>7, <2>2 DEF Talks
  <2>3. CASE i = k + 1
    <3>1. i + 1 = k + 2 /\ i = (k + 2) - 1
      BY <2>3
    <3> QED BY <1>7, <1>8, <2>3, <3>1
  <2>4. CASE i = k + 2
    <3>1. i - 1 = k + 1 /\ i > 1
      BY <2>4
    <3> QED BY <1>7, <1>8, <2>4, <3>1
  <2> QED BY <2>1, <2>2, <2>3, <2>4
<1>10. \A j \in DOMAIN u : j \in DOMAIN t /\ t[j] = u[j]
  <2>1. 1..k \subseteq 1..(k + 2)
    OBVIOUS
  <2> QED BY <1>7, <2>1
<1>11. k + 2 \in DOMAIN t
  BY <1>7
<1>12. (\E i \in DOMAIN t : t[i].buttons = B) /\ (ask => \E i \in DOMAIN t : t[i].call = "ask")
  BY <1>10 DEF Talks
<1>13. \E i \in DOMAIN t : t[i].call = "homework_id"
  BY <1>8, <1>11
<1> QED BY <1>7, <1>9, <1>12, <1>13 DEF Saves

LEMMA OnPhotoStep ==
    ASSUME DInv, NEW album \in Albums, OnPhoto(album)
    PROVE  DInv'
<1>1. PICK tasks, check : tasks = album.tasks /\ check = checks + 1
  OBVIOUS
<1>2. tasks \in Found /\ album.subject \in Subjects
  BY <1>1, DialogAssumption DEF Found
<1>3. checks \in Nat /\ check \in Checks /\ check # 0 /\ check = checks + 1
  <2>1. checks \in Nat /\ checks < MaxChecks /\ MaxChecks \in Nat
    BY HistoryTypes, DialogAssumption DEF DInv, OnPhoto
  <2> QED BY <1>1, <2>1 DEF Checks
<1>4. PICK plan : plan = Plan(tasks, check)
  OBVIOUS
<1>5. /\ plan \in Seq(Questions)
      /\ \A n \in DOMAIN plan :
            /\ plan[n].task \in DOMAIN tasks /\ plan[n].token = <<check, n>>
            /\ plan[n].kind = "word" => plan[n].word \in DOMAIN tasks[plan[n].task].words
      /\ \A n, m \in DOMAIN plan : n # m => ~SameWord(plan[n], plan[m])
  BY <1>2, <1>3, <1>4, PlanFacts
<1>6. PICK phase \in Phases : phase = IF plan # <<>> THEN "clarifying" ELSE "review"
  BY DEF Phases
<1>7. /\ todo = <<>> /\ checks' = check /\ gaveUp' = FALSE /\ ended' = {} /\ fixed' = {} /\ asked' = None
      /\ UNCHANGED <<rows, screen, told, failures>>
      /\ chat' = [Fresh EXCEPT !.phase = phase, !.check = check, !.subject = album.subject,
                               !.tasks = tasks, !.queue = plan]
      /\ todo' = <<Say(ReviewButtons(chat'))>>
                    \o (IF chat'.queue # <<>> THEN <<Ask>> ELSE <<>>) \o <<Save, Link>>
  BY <1>1, <1>4, <1>6 DEF OnPhoto, Checked, Idle
<1>8. /\ chat' \in ChatStates /\ chat'.phase = phase /\ chat'.check = check
      /\ chat'.tasks = tasks /\ chat'.queue = plan /\ chat'.tutor = None /\ chat'.resolved = <<>>
      /\ chat'.shown = {} /\ chat'.homework = 0
  <2>1. tasks \in Seq(Tasks) /\ Fresh \in ChatStates
    BY <1>2, FreshFields DEF Found
  <2>2. chat' \in ChatStates
    BY <1>2, <1>3, <1>5, <1>7, <2>1 DEF ChatStates
  <2> QED BY <1>7, <2>1, <2>2, FreshFields, SMTT(60) DEF ChatStates
<1>9. PICK ask \in BOOLEAN : ask = (plan # <<>>)
  OBVIOUS
<1>10. PICK B \in SUBSET AllButtons : B = ReviewButtons(chat') /\ \A b \in B : b.kind = "tutor"
  BY <1>3, <1>8, TutorButtons
<1>11. Saves(todo', B, ask)
  <2>1. PICK u : u = <<Say(B)>> \o (IF ask THEN <<Ask>> ELSE <<>>)
    OBVIOUS
  <2>2. Talks(u, B, ask)
    BY <2>1, SaysAndAsks
  <2>3. todo' = u \o <<Save, Link>>
    BY <1>7, <1>8, <1>9, <1>10, <2>1
  <2> QED BY <2>2, <2>3, SavesAfter
<1>12. /\ todo' \in Seq(ToDos)
       /\ \A b \in B : OnTheWay(b)'
       /\ ask => Waits("ask")'
       /\ Waits("homework_id")' /\ ~Waits("resolve_error")' /\ ~Waits("tell")' /\ (Waits("ask")' => ask)
  BY <1>11 DEF Saves, OnTheWay, Waits
<1>13. HistoryOK'
  <2>1. told \subseteq 1..check
    <3>1. 1..checks \subseteq 1..check
      BY <1>3
    <3> QED BY <3>1 DEF DInv, HistoryOK
  <2> QED BY <1>3, <1>7, <2>1 DEF DInv, HistoryOK
<1>14. Phased'
  <2>1. (phase = "clarifying" <=> plan # <<>>) /\ phase # "tutoring" /\ phase # "idle"
    BY <1>6
  <2>2. 0 <= Len(rows) /\ rows' = rows
    BY <1>7, HistoryTypes DEF DInv
  <2> QED BY <1>3, <1>7, <1>8, <2>1, <2>2 DEF Phased
<1>15. Queued'
  <2>1. \A n, m \in DOMAIN plan :
           n # m => plan[n].token # plan[m].token /\ ~SameWord(plan[n], plan[m])
    BY <1>5
  <2>2. ASSUME NEW n \in DOMAIN plan
        PROVE  /\ plan[n].task \in DOMAIN tasks /\ plan[n].token[1] = check
               /\ plan[n].kind = "word" => /\ plan[n].word \in DOMAIN tasks[plan[n].task].words
                                           /\ tasks[plan[n].task].words[plan[n].word] = "open"
    BY <1>2, <1>5 DEF Found
  <2> QED BY <1>8, <2>1, <2>2 DEF Queued, Asks
<1>16. Buttoned'
  <2>1. ASSUME NEW b, b \in screen PROVE Fits(b)'
    <3> SUFFICES ASSUME b.kind \in Buttons
                 PROVE  /\ b.token \in Tokens /\ b.token[1] = b.check /\ b.check <= check
                        /\ \A n \in DOMAIN plan : plan[n].token # b.token
      BY <1>7, <1>8 DEF Fits
    <3>1. b.token \in Tokens /\ b.token[1] = b.check /\ b.check <= checks
      BY <2>1 DEF DInv, Buttoned, Fits
    <3>2. b.check \in Nat
      BY <3>1 DEF Tokens, Checks
    <3>3. b.check <= check /\ b.check # check
      BY <1>3, <3>1, <3>2
    <3>4. \A n \in DOMAIN plan : plan[n].token[1] = check
      BY <1>5
    <3> QED BY <3>1, <3>3, <3>4
  <2>2. \A b \in B : Fits(b)'
    BY <1>10 DEF Fits, Buttons
  <2>3. \A i \in DOMAIN todo' : \A b \in todo'[i].buttons : todo'[i].call = "say" /\ b \in B
    BY <1>11 DEF Saves
  <2> QED BY <1>7, <2>1, <2>2, <2>3 DEF Buttoned
<1>17. Ordered'
  <2>1. \A i \in DOMAIN todo' :
           \/ todo'[i].call = "say"
           \/ todo'[i].call = "ask"
           \/ todo'[i].call = "add_homework" /\ i = Len(todo') - 1 /\ todo'[i + 1].call = "homework_id"
           \/ /\ todo'[i].call = "homework_id" /\ i = Len(todo') /\ i > 1
              /\ todo'[i - 1].call = "add_homework"
    BY <1>11 DEF Saves
  <2>2. \A i : i > 1 => i # 1
    OBVIOUS
  <2> QED BY <2>1, <2>2 DEF Ordered
<1>18. Expected' /\ Heard'
  BY <1>3, <1>7, <1>8, <1>9, <1>12 DEF Expected, Heard
<1>19. Offered'
  <2> SUFFICES ASSUME NEW i \in Remaining(chat'), ~\E n \in DOMAIN plan : plan[n].task = i
               PROVE  TutorButton(chat', i) \in B
    BY <1>8, <1>12 DEF Offered
  <2>1. i \in DOMAIN tasks /\ Strength(tasks[i]) = "verified"
    BY <1>8 DEF Remaining
  <2> QED BY <1>8, <1>10, <2>1 DEF ReviewButtons
<1>20. Worked' /\ Counted' /\ Kept'
  <2>1. Elements(<<>>) = {}
    BY DEF Elements
  <2> QED BY <1>7, <1>8, <1>12, <2>1 DEF Worked, Counted, Kept
<1>21. Told'
  <2>1. check \notin told
    <3>1. check \notin 1..checks
      BY <1>3
    <3> QED BY <3>1 DEF DInv, HistoryOK
  <2> QED BY <1>7, <1>8, <2>1 DEF Told
<1> QED BY <1>8, <1>12, <1>13, <1>14, <1>15, <1>16, <1>17, <1>18, <1>19, <1>20, <1>21 DEF DInv

-----------------------------------------------------------------------------
(***************************************************************************)
(* The invariant, and what follows from it.                                *)
(***************************************************************************)
LEMMA InitDInv == Init => DInv
<1> SUFFICES ASSUME Init PROVE DInv
  OBVIOUS
<1> USE DEF Init
<1>1. /\ chat \in ChatStates /\ chat.phase = "idle" /\ chat.check = 0 /\ chat.tasks = <<>>
      /\ chat.queue = <<>> /\ chat.tutor = None /\ chat.homework = 0
  BY FreshFields
<1>2. todo \in Seq(ToDos) /\ rows \in Seq(Rows) /\ Len(rows) = 0 /\ DOMAIN todo = {} /\ DOMAIN chat.queue = {}
  <2>1. todo = <<>> /\ rows = <<>> /\ chat.queue = <<>>
    BY <1>1
  <2> QED BY <2>1, EmptySeq
<1>3. HistoryOK
  <2>1. 0 \in 0..MaxFailures
    BY DialogAssumption
  <2> QED BY <1>2, <2>1 DEF HistoryOK
<1>4. Phased
  BY <1>1, <1>2 DEF Phased
<1>5. Queued /\ Buttoned /\ Ordered
  BY <1>2 DEF Queued, Buttoned, Ordered
<1>6. Expected
  BY <1>2 DEF Expected, Waits
<1>7. Heard /\ Offered /\ Worked /\ Counted /\ Kept /\ Told
  BY <1>1 DEF Heard, Offered, Worked, Counted, Kept, Told
<1> QED BY <1>1, <1>2, <1>3, <1>4, <1>5, <1>6, <1>7 DEF DInv

LEMMA StutterDInv == DInv /\ UNCHANGED vars => DInv'
<1> SUFFICES ASSUME DInv, UNCHANGED vars PROVE DInv'
  OBVIOUS
<1> USE DEF vars
<1>1. /\ chat' = chat /\ todo' = todo /\ rows' = rows /\ checks' = checks /\ screen' = screen
      /\ asked' = asked /\ ended' = ended /\ fixed' = fixed /\ told' = told /\ gaveUp' = gaveUp
      /\ failures' = failures
  OBVIOUS
<1>2. chat' \in ChatStates /\ HistoryOK' /\ todo' \in Seq(ToDos) /\ Phased' /\ Ordered' /\ Worked' /\ Told'
  BY <1>1, SMTT(60) DEF DInv, HistoryOK, Phased, Ordered, Worked, Told
<1>3. Queued' /\ Buttoned'
  BY <1>1 DEF DInv, Queued, Buttoned, Asks, Fits
<1>4. Expected' /\ Heard' /\ Kept' /\ Counted'
  BY <1>1 DEF DInv, Expected, Heard, Kept, Counted, Waits, Due, Remaining
<1>5. Offered'
  BY <1>1 DEF DInv, Offered, OnTheWay, TutorButton, Remaining
<1> QED BY <1>2, <1>3, <1>4, <1>5 DEF DInv

LEMMA NextDInv == DInv /\ [Next]_vars => DInv'
<1> SUFFICES ASSUME DInv, [Next]_vars PROVE DInv'
  OBVIOUS
<1>1. CASE Update
  BY <1>1, OnPhotoStep, OnTextbookStep, AnswerStep, PressTutorStep, ReplyStep, ChatterStep DEF Update
<1>2. CASE Call
  BY <1>2, SendStep, SendQuestionStep, AddHomeworkStep, WriteHomeworkIdStep, ResolveErrorStep,
     TellParentStep DEF Call
<1>3. CASE Failure
  BY <1>3, RestIsLost, ForgetStep DEF Failure
<1>4. CASE UNCHANGED vars
  BY <1>4, StutterDInv
<1> QED BY <1>1, <1>2, <1>3, <1>4 DEF Next

\* What the chat, its row, its screen and the calls on their way say of each other, whatever is
\* sent, pressed or lost, in whatever order.
THEOREM DialogInvariant == Spec => []DInv
BY InitDInv, NextDInv, PTL DEF Spec

\* The types of the run are part of it.
LEMMA TypesFollow == DInv => TypeOK
<1> SUFFICES ASSUME DInv PROVE TypeOK
  OBVIOUS
<1>1. chat \in [phase : Phases, check : Checks \union {0}, subject : Subjects,
                tasks : Seq(Tasks), queue : Seq(Questions),
                tutor : Sessions \union {None}, index : Nat, resolved : Seq(Nat \ {0}),
                shown : SUBSET (Nat \ {0}), homework : 0..Len(rows)]
  <2>1. chat.homework \in 0..Len(rows)
    BY ChatFields, HistoryTypes DEF DInv, Phased
  <2> QED BY <2>1 DEF DInv, ChatStates
<1>2. todo \in Seq([call : Guarded \union {"say", "ask"}, buttons : SUBSET AllButtons])
  BY DEF DInv, ToDos, CallNames
<1>3. told \subseteq Checks
  <2>1. checks \in 0..MaxChecks
    BY DialogAssumption DEF DInv, HistoryOK, Checks
  <2>2. 1..checks \subseteq 1..MaxChecks
    BY <2>1, DialogAssumption
  <2> QED BY <2>2 DEF DInv, HistoryOK, Checks
<1> QED BY <1>1, <1>2, <1>3 DEF DInv, HistoryOK, Phased, Rows, TypeOK

\* The queue of clarifying questions asks about what is still open, each question under a token of
\* its own, and once a handler is done without a failure the student looks at its first question:
\* start_clarification, handle_clarify_answer and _ask_next keep queue and screen together.
THEOREM QuestionsFitTheScreen == Spec => []QuestionsMatch
<1>1. DInv => QuestionsLive
  <2> SUFFICES ASSUME DInv PROVE QuestionsLive
    OBVIOUS
  <2>1. \A n \in DOMAIN chat.queue :
           chat.queue[n].kind = "word" => chat.tasks[chat.queue[n].task].words[chat.queue[n].word] = "open"
    BY DEF DInv, Queued, Asks
  <2>2. \A n, m \in DOMAIN chat.queue : chat.queue[n].token = chat.queue[m].token => n = m
    BY DEF DInv, Queued
  <2> QED BY <2>1, <2>2, SMTT(60) DEF DInv, Phased, QuestionsLive
<1>2. DInv => AskedIsHead
  <2> SUFFICES ASSUME DInv, failures = 0, todo = <<>>, chat.phase = "clarifying"
               PROVE  asked = Head(chat.queue).token
    BY DEF AskedIsHead
  <2> QED BY IdleFacts DEF DInv, Phased
<1> QED BY <1>1, <1>2, TypesFollow, DialogInvariant, PTL DEF QuestionsMatch

\* In review every proved error that was neither fixed nor shown can be opened from the screen,
\* unless a call failed or the student gave up, and a parent is told that all errors are worked
\* through only when no proved error is left and no question could find another.
THEOREM NoErrorGoesUnmentioned == Spec => []ErrorsStand
<1>1. DInv => ErrorsOffered
  <2> SUFFICES ASSUME DInv, failures = 0, ~gaveUp, todo = <<>>, chat.phase = "review", NEW i \in Remaining(chat)
               PROVE  TutorButton(chat, i) \in screen
    BY DEF ErrorsOffered, RemainingButtons
  <2>1. DOMAIN chat.queue = {}
    BY DEF DInv, Phased
  <2> QED BY <2>1, IdleFacts
<1>2. DInv => ToldAllIsFinal
  BY DEF DInv, Told, ToldAllIsFinal
<1> QED BY <1>1, <1>2, DialogInvariant, PTL DEF ErrorsStand

\* resolve_error counts an error once however often its tutor is opened, its button pressed or its
\* answer repeated: the row never has more than were fixed, and without failures exactly those.
THEOREM ErrorsAreCountedOnce == Spec => []CountedOnce
<1>1. DInv => CountedOnce
  <2> SUFFICES ASSUME DInv, chat.homework # 0
               PROVE  /\ rows[chat.homework].check = chat.check
                      /\ rows[chat.homework].resolved <= Cardinality(fixed)
                      /\ failures = 0 /\ todo = <<>> => rows[chat.homework].resolved = Cardinality(fixed)
    BY DEF CountedOnce
  <2>1. PICK r, k \in Nat : r = rows[chat.homework].resolved /\ k = Cardinality(fixed)
    BY RowsCount, FixedIsFinite DEF DInv, Phased
  <2>2. rows[chat.homework].check = chat.check /\ r + Due <= k /\ Due \in {0, 1}
    BY <2>1 DEF DInv, Counted, Due
  <2>3. r <= k
    BY <2>2
  <2> QED BY <2>1, <2>2, <2>3, IdleFacts
<1> QED BY <1>1, DialogInvariant, PTL

\* A press on an old button changes no other task and no other word than the ones it was drawn for:
\* the token at the head of the queue is that of the button, and so the question is.
THEOREM ButtonsAnswerTheirQuestions == Spec => ButtonAnswersItsQuestion
<1>1. ASSUME DInv, NEW b \in screen, PressAnswer(b), chat'.tasks # chat.tasks
      PROVE  /\ b.check = chat.check
             /\ \A i \in DOMAIN chat.tasks :
                   chat'.tasks[i] # chat.tasks[i]
                   => /\ i = b.task
                      /\ \A w \in DOMAIN chat.tasks[i].words :
                            chat'.tasks[i].words[w] # chat.tasks[i].words[w] => w = b.word
  <2>1. PICK q : q = Head(chat.queue)
    OBVIOUS
  <2>2. b.kind \in Buttons /\ chat.phase = "clarifying" /\ b.token = q.token
    BY <1>1, <2>1 DEF PressAnswer, AnswersHead
  <2>3. Understood(q)
    <3>1. ~NotUnderstood
      <4> SUFFICES ASSUME NotUnderstood PROVE chat'.tasks = chat.tasks
        BY <1>1
      <4>1. chat \in ChatStates
        BY <1>1 DEF DInv
      <4>2. CASE TryAgain
        <5>1. PICK queue : chat' = [chat EXCEPT !.queue = queue]
          BY <4>2 DEF TryAgain
        <5> QED BY <4>1, <5>1 DEF ChatStates
      <4>3. CASE GiveUp
        <5>1. PICK queue, phase : chat' = [chat EXCEPT !.queue = queue, !.phase = phase]
          BY <4>3 DEF GiveUp
        <5> QED BY <4>1, <5>1 DEF ChatStates
      <4> QED BY <4>2, <4>3, NotUnderstoodEither
    <3> QED BY <1>1, <2>1, <3>1 DEF PressAnswer
  <2>4. 1 \in DOMAIN chat.queue /\ q = chat.queue[1]
    BY <1>1, <2>1, <2>2, HeadFacts
  <2>5. b.kind = q.kind /\ b.task = q.task /\ b.word = q.word /\ b.token[1] = b.check
    BY <1>1, <2>2, <2>4 DEF DInv, Buttoned, Fits
  <2>6. q.token[1] = chat.check
    BY <1>1, <2>4 DEF DInv, Queued, Asks
  <2>7. /\ \A i \in DOMAIN chat.tasks : i # q.task => chat'.tasks[i] = chat.tasks[i]
        /\ \A w \in DOMAIN chat.tasks[q.task].words :
              chat'.tasks[q.task].words[w] # chat.tasks[q.task].words[w] => q.kind = "word" /\ w = q.word
    BY <1>1, <2>1, <2>2, <2>3, UnderstoodFacts
  <2> QED BY <2>2, <2>5, <2>6, <2>7
<1>2. DInv /\ [Next]_vars =>
        [\A b \in screen :
            PressAnswer(b) /\ chat'.tasks # chat.tasks
            => /\ b.check = chat.check
               /\ \A i \in DOMAIN chat.tasks :
                     chat'.tasks[i] # chat.tasks[i]
                     => /\ i = b.task
                        /\ \A w \in DOMAIN chat.tasks[i].words :
                              chat'.tasks[i].words[w] # chat.tasks[i].words[w] => w = b.word]_vars
  BY <1>1
<1> QED BY <1>2, DialogInvariant, PTL DEF Spec, ButtonAnswersItsQuestion
=============================================================================
