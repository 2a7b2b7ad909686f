---------------------------- MODULE FamiliesProofs ----------------------------
(***************************************************************************)
(* Proofs about the desk and the knowledge base, for any children, photos, *)
(* policies and periods, any exercises with any gaps and words, any number *)
(* of checks at once and whatever a model may answer.  Each machine has an *)
(* inductive invariant of its own, BInv and DInv; a step of one leaves the *)
(* other alone.                                                            *)
(***************************************************************************)
EXTENDS MCFamilies, Sequences, WellFoundedInduction, NaturalsInduction, TLAPS

-----------------------------------------------------------------------------
(* Lemmas about numbers.                                                   *)

\* A set of numbers has a least one.
LEMMA LeastExists ==
    ASSUME NEW S, S \subseteq Nat, S # {}
    PROVE  \E n \in S : \A m \in S : n <= m
<1> DEFINE R == OpToRel(<, Nat)
<1>1. IsWellFoundedOn(R, Nat)
  BY NatLessThanWellFounded
<1> HIDE DEF R
<1>2. PICK n \in S : \A m \in S : ~(<<m, n>> \in R)
  BY <1>1, WFMin
<1>3. ASSUME NEW m \in S PROVE n <= m
  <2>1. m \in Nat /\ n \in Nat
    OBVIOUS
  <2>2. <<m, n>> \notin R
    BY <1>2
  <2>3. ~(m < n)
    BY <2>1, <2>2 DEF R, OpToRel
  <2> QED
    BY <2>1, <2>3
<1> QED
  BY <1>3

\* A bounded one has a greatest.
LEMMA GreatestExists ==
    ASSUME NEW bound \in Nat, NEW S, S \subseteq 1..bound, S # {}
    PROVE  \E n \in S : \A m \in S : n >= m
<1> DEFINE T == {bound - n : n \in S}
<1>1. T \subseteq Nat /\ T # {}
  <2>1. \A n \in S : bound - n \in Nat
    OBVIOUS
  <2> QED
    BY <2>1
<1>2. PICK d \in T : \A e \in T : d <= e
  BY <1>1, LeastExists
<1>3. PICK n \in S : d = bound - n
  BY <1>2
<1>4. \A m \in S : bound - m \in T
  OBVIOUS
<1> HIDE DEF T
<1>5. ASSUME NEW m \in S PROVE n >= m
  <2>1. bound - n <= bound - m
    BY <1>2, <1>3, <1>4
  <2>2. m \in Int /\ n \in Int
    OBVIOUS
  <2> QED
    BY <2>1, <2>2
<1> QED
  BY <1>5

-----------------------------------------------------------------------------
(***************************************************************************)
(* The knowledge base.  BInv joins its safety properties with what they    *)
(* rest on:                                                                *)
(*   Queue     what the reviewer looks at is in the base;                  *)
(*   Rows      a verified answer has a proof, one the check can read fits  *)
(*             the exercise, and the page of an answer is in the base;     *)
(*   Checked   what a check is about to keep or has given is proved, too,  *)
(*             only a check that found no answer in the base saves one, and *)
(*             a check without a failure that saves none found one.         *)
(***************************************************************************)
Words(t) == {K!Pattern} \cup (UNION {Gaps[t][g].candidates \cup Gaps[t][g].fits : g \in DOMAIN Gaps[t]})
Fillings == {<<>>} \cup (UNION {[DOMAIN Gaps[t] -> Words(t)] : t \in Texts}) \cup {K!Right(t) : t \in Texts}

CheckRows == [pc : {"idle", "find", "answers", "derive", "save page", "save answer", "done"},
              text : Texts \cup {"none"}, words : Fillings,
              trust : {"none", "verified", "unverified"}, origin : {"none", "kb", "derived"},
              save : BOOLEAN, faulted : BOOLEAN, answered : BOOLEAN, corrected : BOOLEAN]
AnswerRows == [text : Texts, words : Fillings, form : {"derived", "typed"},
               checked : {"dictionary", "none", "manual"},
               status : {"verified", "unverified", "rejected"}]

BTypes ==
    /\ pages \in SUBSET Texts
    /\ answers \in Seq(AnswerRows)
    /\ check \in [Checks -> CheckRows]
    /\ \A c \in Checks : check[c].pc # "idle" => check[c].text \in Texts
    /\ review \in [queue : SUBSET Nat, pc : {"read", "ask", "type"}]

\* The words are words of the exercise, or gaps that stay open.
Fits(t, words) ==
    /\ DOMAIN words = DOMAIN Gaps[t]
    /\ \A g \in DOMAIN words : words[g] \in Gaps[t][g].candidates \cup Gaps[t][g].fits \cup {K!Pattern}

\* The dictionary, or the reviewer, has said so.
Backed(t, words) ==
    \/ Gaps[t] # <<>> /\ \A g \in DOMAIN Gaps[t] : Gaps[t][g].candidates = {words[g]}
    \/ words = K!Right(t)

Sound(t, words, trust) == Fits(t, words) /\ (trust = "verified" => Backed(t, words))

Queue ==
    /\ review.queue \subseteq DOMAIN answers
    /\ review.pc # "read" => review.queue # {}

Rows ==
    \A i \in DOMAIN answers :
        /\ answers[i].form = "derived" => Fits(answers[i].text, answers[i].words)
        /\ K!TrustOf(i) = "verified" => Backed(answers[i].text, answers[i].words)
        /\ answers[i].text \in pages

Saves == {"save page", "save answer"}

\* A check's row: what it gives or keeps is proved, it saves only what was not there, and it leaves
\* an answer behind unless something failed.
Gives(row) == row.pc = "done" /\ row.origin # "none"

Proved(row) ==
    /\ row.pc \in Saves \/ Gives(row) => Sound(row.text, row.words, row.trust)
    /\ row.pc \in Saves => row.trust # "none"

Saving(row) ==
    /\ row.answered => K!AnswersTo(row.text) # {}
    /\ row.pc \in Saves => row.save
    /\ row.pc \in Saves \cup {"derive"} /\ row.save => ~row.answered
    /\ row.pc = "save answer" => row.text \in pages

Left(row) ==
    (row.pc = "derive" /\ ~row.save) \/ Gives(row) => row.faulted \/ K!AnswersTo(row.text) # {}

Checked == \A c \in Checks : Proved(check[c]) /\ Saving(check[c]) /\ Left(check[c])

BInv == BTypes /\ Queue /\ Rows /\ Checked

-----------------------------------------------------------------------------
(* What the operators of the base return.                                  *)

LEMMA MinIn ==
    ASSUME NEW S, S \subseteq Nat, S # {}
    PROVE  K!Min(S) \in S
BY LeastExists DEF K!Min

LEMMA MaxIn ==
    ASSUME NEW bound \in Nat, NEW S, S \subseteq 1..bound, S # {}
    PROVE  K!Max(S) \in S
BY GreatestExists DEF K!Max

\* A gap is closed with a word that is allowed there, or stays open.
LEMMA ChosenFits ==
    ASSUME NEW t \in Texts, NEW reply, reply \in Replies \/ reply = <<>>
    PROVE  /\ Fits(t, K!Chosen(t, reply))
           /\ K!Chosen(t, reply) \in Fillings
           /\ K!Trust(t, K!Chosen(t, reply)) \in {"verified", "unverified"}
           /\ Sound(t, K!Chosen(t, reply), K!Trust(t, K!Chosen(t, reply)))
<1> DEFINE chosen == K!Chosen(t, reply)
<1>1. PICK n \in Nat : DOMAIN reply = 1..n
  BY BaseAssumption DEF K!RepliesOK
<1>2. ASSUME NEW g \in DOMAIN Gaps[t], K!Single(Gaps[t][g])
      PROVE  Gaps[t][g].candidates = {CHOOSE v \in Gaps[t][g].candidates : TRUE}
  BY <1>2 DEF K!Single
<1>3. ASSUME NEW g \in DOMAIN Gaps[t]
      PROVE  /\ g \notin K!Ambiguous(t) => Gaps[t][g].candidates = {chosen[g]}
             /\ g \in K!Ambiguous(t)
                  => chosen[g] \in Gaps[t][g].candidates \cup Gaps[t][g].fits \cup {K!Pattern}
  <2>1. CASE g \notin K!Ambiguous(t)
    <3>1. chosen[g] = CHOOSE v \in Gaps[t][g].candidates : TRUE
      BY <2>1 DEF K!Chosen
    <3> QED
      BY <1>2, <2>1, <3>1 DEF K!Ambiguous
  <2>2. CASE g \in K!Ambiguous(t)
    <3> DEFINE allowed == K!AllowedFor(t, g, reply)
    <3>1. chosen[g] = IF allowed = {} THEN K!Pattern ELSE reply[K!Max(allowed)].word
      BY <2>2 DEF K!Chosen
    <3>2. allowed \subseteq 1..n
      BY <1>1 DEF K!AllowedFor
    <3>3. \A i \in allowed : reply[i].word \in Gaps[t][g].candidates \cup Gaps[t][g].fits
      BY DEF K!AllowedFor, K!Allowed
    <3> HIDE DEF allowed, chosen
    <3>4. allowed # {} => K!Max(allowed) \in allowed
      BY <3>2, MaxIn
    <3> QED
      BY <2>2, <3>1, <3>3, <3>4
  <2> QED
    BY <2>1, <2>2
<1>4. DOMAIN chosen = DOMAIN Gaps[t] /\ chosen = [g \in DOMAIN Gaps[t] |-> chosen[g]]
  BY DEF K!Chosen
<1> HIDE DEF chosen
<1>5. Fits(t, chosen)
  BY <1>3, <1>4 DEF Fits
<1>6. chosen \in Fillings
  <2>1. \A g \in DOMAIN Gaps[t] : chosen[g] \in Words(t)
    BY <1>4, <1>5 DEF Fits, Words
  <2>2. chosen \in [DOMAIN Gaps[t] -> Words(t)]
    BY <1>4, <2>1
  <2> QED
    BY <2>2 DEF Fillings
<1>7. K!Trust(t, chosen) \in {"verified", "unverified"}
  BY DEF K!Trust
<1>8. K!Trust(t, chosen) = "verified" => Backed(t, chosen)
  BY <1>3 DEF K!Trust, Backed
<1> QED
  BY <1>5, <1>6, <1>7, <1>8 DEF chosen, Sound

\* The best answer is one of those that were not rejected.
LEMMA BestIsOne ==
    ASSUME BTypes, NEW t, NEW j \in K!AnswersTo(t), K!Valid(j)
    PROVE  K!Best(t) \in K!AnswersTo(t) /\ K!Valid(K!Best(t))
<1> DEFINE valid == {i \in K!AnswersTo(t) : K!Valid(i)}
           verified == {i \in valid : K!TrustOf(i) = "verified"}
<1>1. Len(answers) \in Nat /\ DOMAIN answers = 1..Len(answers)
  BY DEF BTypes
<1>2. valid \subseteq 1..Len(answers) /\ verified \subseteq 1..Len(answers) /\ valid # {}
  BY <1>1 DEF K!AnswersTo
<1>3. \A i \in valid : i \notin verified => K!TrustOf(i) = "unverified"
  BY DEF K!TrustOf
<1>4. \E i \in valid : \A k \in valid :
           \/ K!TrustOf(i) = "verified" /\ K!TrustOf(k) # "verified"
           \/ K!TrustOf(i) = K!TrustOf(k) /\ k <= i
  <2>1. CASE verified # {}
    <3>1. PICK i \in verified : \A k \in verified : i >= k
      <4> HIDE DEF verified
      <4> QED
        BY <1>1, <1>2, <2>1, GreatestExists
    <3>2. ASSUME NEW k \in valid
          PROVE  \/ K!TrustOf(i) = "verified" /\ K!TrustOf(k) # "verified"
                 \/ K!TrustOf(i) = K!TrustOf(k) /\ k <= i
      <4>1. CASE k \in verified
        <5>1. k <= i
          BY <1>1, <1>2, <3>1, <4>1
        <5> QED
          BY <4>1, <5>1
      <4> QED
        BY <4>1
    <3> QED
      BY <3>2
  <2>2. CASE verified = {}
    <3>1. PICK i \in valid : \A k \in valid : i >= k
      <4> HIDE DEF valid
      <4> QED
        BY <1>1, <1>2, GreatestExists
    <3>2. ASSUME NEW k \in valid PROVE K!TrustOf(i) = K!TrustOf(k) /\ k <= i
      <4>1. k <= i
        BY <1>1, <1>2, <3>1
      <4>2. K!TrustOf(i) = "unverified" /\ K!TrustOf(k) = "unverified"
        BY <1>3, <2>2
      <4> QED
        BY <4>1, <4>2
    <3> QED
      BY <3>2
  <2> QED
    BY <2>1, <2>2
<1>5. \E i \in K!AnswersTo(t) :
        /\ K!Valid(i)
        /\ \A k \in K!AnswersTo(t) : K!Valid(k) =>
              \/ K!TrustOf(i) = "verified" /\ K!TrustOf(k) # "verified"
              \/ K!TrustOf(i) = K!TrustOf(k) /\ k <= i
  BY <1>4
<1> QED
  BY <1>5, Zenon DEF K!Best

-----------------------------------------------------------------------------
(* The steps of the base.                                                  *)

\* Nothing is taken out of the base, and no answer changes its exercise.
Grows ==
    /\ pages \subseteq pages'
    /\ \A i \in DOMAIN answers : i \in DOMAIN answers' /\ answers'[i].text = answers[i].text

\* What AnsweredOnce says of a step.
SavesOnce ==
    \A c \in Checks :
        check[c].pc = "save answer" /\ check'[c].pc = "done" /\ answers' # answers => ~check[c].answered

\* AnsweredOnce follows from the invariant.
LEMMA SavedOnce == BInv => SavesOnce
BY DEF BInv, Checked, Saving, Saves, SavesOnce

LEMMA AnswersStay ==
    ASSUME Grows, NEW t, K!AnswersTo(t) # {}
    PROVE  K!AnswersTo(t)' # {}
BY DEF Grows, K!AnswersTo

\* A row keeps what is true of it when the base grows.
LEMMA RowStays ==
    ASSUME Grows, NEW row, Proved(row), Saving(row), Left(row)
    PROVE  Proved(row)' /\ Saving(row)' /\ Left(row)'
<1>1. Proved(row)'
  BY DEF Proved, Sound, Fits, Backed, Gives, K!Right
<1>2. Saving(row)'
  BY AnswersStay DEF Saving, Grows
<1>3. Left(row)'
  BY AnswersStay DEF Left, Gives
<1> QED
  BY <1>1, <1>2, <1>3

\* The step of one check, which leaves the answers alone.
LEMMA CheckStep ==
    ASSUME BInv, NEW c \in Checks, NEW row \in CheckRows, check' = [check EXCEPT ![c] = row],
           row.pc # "idle" => row.text \in Texts,
           pages \subseteq pages', pages' \in SUBSET Texts, UNCHANGED <<answers, review>>,
           Proved(row), Saving(row)', Left(row)
    PROVE  BInv'
<1>1. BTypes /\ Queue /\ Rows /\ Checked
  BY DEF BInv
<1>2. check' \in [Checks -> CheckRows] /\ check'[c] = row /\ \A d \in Checks : d # c => check'[d] = check[d]
  BY <1>1 DEF BTypes
<1>3. BTypes'
  BY <1>1, <1>2 DEF BTypes
<1>4. Queue' /\ Rows'
  BY <1>1 DEF Queue, Rows, Fits, Backed, K!TrustOf, K!Right
<1>5. Grows
  BY DEF Grows
<1>6. ASSUME NEW d \in Checks PROVE (Proved(check[d]) /\ Saving(check[d]) /\ Left(check[d]))'
  <2>1. CASE d = c
    <3>1. Proved(row)' /\ Left(row)'
      BY DEF Proved, Left, Sound, Fits, Backed, Gives, K!Right, K!AnswersTo
    <3>2. check'[d] = row
      BY <1>2, <2>1
    <3> QED
      BY <3>1, <3>2, Zenon
  <2>2. CASE d # c
    <3> PICK other : other = check[d]
      OBVIOUS
    <3>1. Proved(other) /\ Saving(other) /\ Left(other)
      BY <1>1, Zenon DEF Checked
    <3>2. Proved(other)' /\ Saving(other)' /\ Left(other)'
      BY <1>5, <3>1, RowStays
    <3>3. check'[d] = other
      BY <1>2, <2>2
    <3> QED
      BY <3>2, <3>3, Zenon
  <2> QED
    BY <2>1, <2>2
<1>7. Checked'
  BY <1>6, Zenon DEF Checked
<1> QED
  BY <1>3, <1>4, <1>7 DEF BInv

LEMMA SameAnswers ==
    ASSUME UNCHANGED answers
    PROVE  \A t : K!AnswersTo(t)' = K!AnswersTo(t)
BY DEF K!AnswersTo

LEMMA SavingStays ==
    ASSUME UNCHANGED <<pages, answers>>, NEW row, Saving(row)
    PROVE  Saving(row)'
BY SameAnswers DEF Saving

LEMMA RowsStay ==
    ASSUME UNCHANGED <<pages, answers>>, Rows
    PROVE  Rows'
<1>1. SUFFICES ASSUME NEW i \in DOMAIN answers
               PROVE  /\ answers'[i].form = "derived" => Fits(answers'[i].text, answers'[i].words)
                      /\ K!TrustOf(i)' = "verified" => Backed(answers'[i].text, answers'[i].words)
                      /\ answers'[i].text \in pages'
  BY DEF Rows, Fits, Backed, K!Right
<1>2. K!TrustOf(i)' = K!TrustOf(i)
  BY DEF K!TrustOf
<1> QED
  BY <1>2, SMTT(60) DEF Rows

LEMMA ProvedStays == ASSUME NEW row, Proved(row) PROVE Proved(row)'
BY DEF Proved, Sound, Fits, Backed, Gives, K!Right

\* What a step of a check starts from.
LEMMA RowOf ==
    ASSUME BInv, NEW c \in Checks
    PROVE  /\ check \in [Checks -> CheckRows] /\ pages \in SUBSET Texts
           /\ check[c] \in CheckRows
           /\ check[c].pc # "idle" => check[c].text \in Texts
           /\ Proved(check[c]) /\ Saving(check[c]) /\ Left(check[c])
BY DEF BInv, BTypes, Checked

LEMMA EmptyFilling == <<>> \in Fillings
BY DEF Fillings

LEMMA RightFilling == \A t \in Texts : K!Right(t) \in Fillings
<1> DEFINE rights == {K!Right(t) : t \in Texts}
           others == {<<>>} \cup (UNION {[DOMAIN Gaps[t] -> Words(t)] : t \in Texts})
<1>1. \A t \in Texts : K!Right(t) \in rights
  BY DEF K!Right
<1>2. Fillings = others \cup rights
  BY DEF Fillings
<1> HIDE DEF rights, others
<1> QED
  BY <1>1, <1>2

LEMMA BeginKeeps == ASSUME BInv, NEW c \in Checks, K!Begin(c) PROVE BInv'
<1>1. PICK t \in Texts :
        check' = [check EXCEPT ![c] = [K!Idle EXCEPT
            !.pc = "find", !.text = t, !.answered = (K!AnswersTo(t) # {}),
            !.corrected = (\E i \in K!AnswersTo(t) : /\ K!Valid(i) /\ answers[i].checked = "manual"
                                                     /\ answers[i].form = "typed")]]
  BY DEF K!Begin
<1> PICK row : row = [K!Idle EXCEPT
            !.pc = "find", !.text = t, !.answered = (K!AnswersTo(t) # {}),
            !.corrected = (\E i \in K!AnswersTo(t) : /\ K!Valid(i) /\ answers[i].checked = "manual"
                                                     /\ answers[i].form = "typed")]
  OBVIOUS
<1>2. row \in CheckRows /\ row.pc = "find" /\ row.text = t /\ row.answered = (K!AnswersTo(t) # {})
  BY EmptyFilling DEF K!Idle, CheckRows
<1>3. check' = [check EXCEPT ![c] = row] /\ UNCHANGED <<pages, answers, review>>
  BY <1>1 DEF K!Begin
<1>4. Proved(row) /\ Left(row) /\ Saving(row)'
  BY <1>2, <1>3 DEF Proved, Left, Saving, Saves, Gives, K!AnswersTo
<1> QED
  BY <1>2, <1>3, <1>4, RowOf, CheckStep, ZenonT(60)

LEMMA FindKeeps == ASSUME BInv, NEW c \in Checks, K!Find(c) PROVE BInv'
<1>1. /\ check[c].pc = "find" /\ UNCHANGED <<pages, answers, review>> /\ check[c].text \in Texts
      /\ check[c] \in CheckRows /\ Saving(check[c])
  BY RowOf DEF K!Find
<1>2. CASE check[c].text \in pages
  <2> PICK row : row = [check[c] EXCEPT !.pc = "answers", !.save = FALSE]
    OBVIOUS
  <2>1. check' = [check EXCEPT ![c] = row]
    BY <1>2, RowOf DEF K!Find
  <2>2. /\ row \in CheckRows /\ row.pc = "answers" /\ row.save = FALSE
        /\ row.text = check[c].text /\ row.answered = check[c].answered
    BY <1>1 DEF CheckRows
  <2>3. Proved(row) /\ Left(row) /\ Saving(row)
    BY <1>1, <2>2 DEF Proved, Left, Saving, Saves, Gives
  <2> QED
    BY <1>1, <2>1, <2>2, <2>3, RowOf, SavingStays, CheckStep
<1>3. CASE check[c].text \notin pages
  <2> PICK row : row = [check[c] EXCEPT !.pc = "derive", !.save = TRUE]
    OBVIOUS
  <2>1. check' = [check EXCEPT ![c] = row]
    BY <1>3, RowOf DEF K!Find
  <2>2. K!AnswersTo(check[c].text) = {}
    BY <1>3 DEF BInv, Rows, K!AnswersTo
  <2>3. check[c].answered = FALSE
    BY <1>1, <2>2 DEF Saving, CheckRows
  <2>4. /\ row \in CheckRows /\ row.pc = "derive" /\ row.save = TRUE
        /\ row.text = check[c].text /\ row.answered = FALSE
    BY <1>1, <2>3 DEF CheckRows
  <2>5. Proved(row) /\ Left(row) /\ Saving(row)
    BY <2>4 DEF Proved, Left, Saving, Saves, Gives
  <2> QED
    BY <1>1, <2>1, <2>4, <2>5, RowOf, SavingStays, CheckStep
<1> QED
  BY <1>2, <1>3

LEMMA ReadAnswersKeeps == ASSUME BInv, NEW c \in Checks, K!ReadAnswers(c) PROVE BInv'
<1> DEFINE t == check[c].text
           valid == {i \in K!AnswersTo(t) : K!Valid(i)}
<1>1. check[c].pc = "answers" /\ UNCHANGED <<pages, answers, review>> /\ t \in Texts
  BY RowOf DEF K!ReadAnswers
<1>2. Saving(check[c]) /\ check[c] \in CheckRows
  BY RowOf
<1>3. CASE valid = {} /\ check' = [check EXCEPT ![c].pc = "derive", ![c].save = ~K!Known(t)]
  <2> PICK row : row = [check[c] EXCEPT !.pc = "derive", !.save = ~K!Known(t)]
    OBVIOUS
  <2>1. check' = [check EXCEPT ![c] = row]
    BY <1>3, RowOf
  <2>2. /\ row \in CheckRows /\ row.pc = "derive" /\ row.save = ~K!Known(t)
        /\ row.text = t /\ row.answered = check[c].answered
    BY <1>2 DEF CheckRows, K!Known
  <2>3. Proved(row) /\ Left(row) /\ Saving(row)'
    BY <1>1, <1>2, <2>2, ZenonT(60) DEF Proved, Left, Saving, Saves, Gives, K!Known, K!AnswersTo
  <2> QED
    BY <1>1, <2>1, <2>2, <2>3, RowOf, CheckStep
<1>4. CASE /\ valid # {} /\ answers[K!Best(t)].form = "derived"
           /\ check' = [check EXCEPT ![c].pc = "done", ![c].origin = "kb",
                                     ![c].words = answers[K!Best(t)].words,
                                     ![c].trust = K!TrustOf(K!Best(t))]
  <2>1. K!Best(t) \in K!AnswersTo(t)
    BY <1>4, BestIsOne DEF BInv
  <2> PICK best : best = K!Best(t)
    OBVIOUS
  <2>2. best \in DOMAIN answers /\ answers[best].text = t
    BY <2>1 DEF K!AnswersTo
  <2>3. answers[best].words \in Fillings
    <3>1. answers[best] \in AnswerRows
      BY <2>2 DEF BInv, BTypes
    <3> QED
      BY <3>1 DEF AnswerRows
  <2>4. Sound(t, answers[best].words, K!TrustOf(best))
    BY <1>4, <2>2 DEF BInv, Rows, Sound
  <2>5. K!TrustOf(best) \in {"verified", "unverified"}
    BY DEF K!TrustOf
  <2> PICK row : row = [check[c] EXCEPT !.pc = "done", !.origin = "kb", !.words = answers[best].words,
                                        !.trust = K!TrustOf(best)]
    OBVIOUS
  <2>6. check' = [check EXCEPT ![c] = row]
    BY <1>4, RowOf
  <2>7. /\ row \in CheckRows /\ row.pc = "done" /\ row.text = t /\ row.answered = check[c].answered
        /\ row.words = answers[best].words /\ row.trust = K!TrustOf(best)
    BY <1>2, <2>3, <2>5 DEF CheckRows
  <2>8. Proved(row)
    BY <2>4, <2>7 DEF Proved, Saves
  <2>9. Left(row) /\ Saving(row)'
    BY <1>1, <1>2, <2>1, <2>7 DEF Left, Saving, Saves, Gives, K!AnswersTo
  <2> QED
    BY <1>1, <2>6, <2>7, <2>8, <2>9, RowOf, CheckStep
<1>5. CASE valid # {} /\ check' = [check EXCEPT ![c].pc = "derive", ![c].save = FALSE]
  <2> PICK row : row = [check[c] EXCEPT !.pc = "derive", !.save = FALSE]
    OBVIOUS
  <2>1. check' = [check EXCEPT ![c] = row]
    BY <1>5, RowOf
  <2>2. /\ row \in CheckRows /\ row.pc = "derive" /\ row.save = FALSE
        /\ row.text = t /\ row.answered = check[c].answered
    BY <1>2 DEF CheckRows
  <2>3. Proved(row) /\ Left(row) /\ Saving(row)'
    BY <1>1, <1>2, <1>5, <2>2 DEF Proved, Left, Saving, Saves, Gives, K!AnswersTo
  <2> QED
    BY <1>1, <2>1, <2>2, <2>3, RowOf, CheckStep
<1> QED
  BY <1>3, <1>4, <1>5 DEF K!ReadAnswers

LEMMA ReadFailsKeeps == ASSUME BInv, NEW c \in Checks, K!ReadFails(c) PROVE BInv'
<1> PICK row : row = [check[c] EXCEPT !.pc = "derive", !.save = FALSE, !.faulted = TRUE]
  OBVIOUS
<1>1. check[c].pc # "idle" /\ UNCHANGED <<pages, answers, review>>
  BY DEF K!ReadFails
<1>2. check' = [check EXCEPT ![c] = row]
  BY RowOf DEF K!ReadFails, K!SavesAfter
<1>3. /\ row \in CheckRows /\ row.pc = "derive" /\ row.save = FALSE /\ row.faulted = TRUE
      /\ row.text = check[c].text /\ row.answered = check[c].answered
  BY RowOf, ZenonT(60) DEF CheckRows
<1>4. Proved(row) /\ Left(row)
  BY <1>3 DEF Proved, Left, Saves, Gives
<1>5. Saving(row)
  BY <1>1, <1>3, RowOf DEF Saving, Saves
<1> QED
  BY <1>1, <1>2, <1>3, <1>4, <1>5, RowOf, SavingStays, CheckStep

LEMMA DeriveKeeps == ASSUME BInv, NEW c \in Checks, K!Derive(c) PROVE BInv'
<1> DEFINE t == check[c].text
<1>1. /\ check[c].pc = "derive" /\ UNCHANGED <<pages, answers, review>> /\ t \in Texts
      /\ Saving(check[c]) /\ Left(check[c]) /\ check[c] \in CheckRows
  BY RowOf DEF K!Derive
<1>2. PICK reply \in IF K!Ambiguous(t) = {} THEN {<<>>} ELSE Replies :
        check' = [check EXCEPT ![c].pc = IF check[c].save THEN "save page" ELSE "done",
                               ![c].words = K!Chosen(t, reply), ![c].origin = "derived",
                               ![c].trust = K!Trust(t, K!Chosen(t, reply))]
  BY DEF K!Derive
<1> PICK words, trust : words = K!Chosen(t, reply) /\ trust = K!Trust(t, words)
  OBVIOUS
<1>3. /\ words \in Fillings /\ trust \in {"verified", "unverified"} /\ Sound(t, words, trust)
  BY <1>1, <1>2, ChosenFits
<1> PICK row : row = [check[c] EXCEPT !.pc = IF check[c].save THEN "save page" ELSE "done",
                                      !.words = words, !.origin = "derived", !.trust = trust]
  OBVIOUS
<1>4. check' = [check EXCEPT ![c] = row]
  BY <1>2, RowOf
<1>5. /\ row \in CheckRows /\ row.pc = (IF check[c].save THEN "save page" ELSE "done")
      /\ row.words = words /\ row.trust = trust /\ row.text = t /\ row.answered = check[c].answered
      /\ row.save = check[c].save /\ row.faulted = check[c].faulted
  BY <1>1, <1>3 DEF CheckRows
<1>6. Proved(row)
  BY <1>3, <1>5 DEF Proved
<1>7. Left(row) /\ Saving(row)'
  BY <1>1, <1>5 DEF Left, Saving, Saves, Gives, K!AnswersTo
<1> QED
  BY <1>1, <1>4, <1>5, <1>6, <1>7, RowOf, CheckStep

LEMMA GiveUpKeeps == ASSUME BInv, NEW c \in Checks, K!GiveUp(c) PROVE BInv'
<1> PICK row : row = [check[c] EXCEPT !.pc = "done", !.words = <<>>, !.origin = "none", !.trust = "none",
                                      !.faulted = TRUE]
  OBVIOUS
<1>1. check[c].pc # "idle" /\ UNCHANGED <<pages, answers, review>>
  BY DEF K!GiveUp
<1>2. check' = [check EXCEPT ![c] = row]
  BY RowOf DEF K!GiveUp
<1>3. /\ row \in CheckRows /\ row.pc = "done" /\ row.origin = "none" /\ row.faulted = TRUE
      /\ row.text = check[c].text /\ row.answered = check[c].answered
  BY RowOf, EmptyFilling, ZenonT(60) DEF CheckRows
<1>4. Proved(row) /\ Left(row)
  BY <1>3 DEF Proved, Left, Saves, Gives
<1>5. Saving(row)
  BY <1>1, <1>3, RowOf DEF Saving, Saves
<1> QED
  BY <1>1, <1>2, <1>3, <1>4, <1>5, RowOf, SavingStays, CheckStep

LEMMA SavePageKeeps == ASSUME BInv, NEW c \in Checks, K!SavePage(c) PROVE BInv'
<1> PICK row : row = [check[c] EXCEPT !.pc = "save answer"]
  OBVIOUS
<1>1. /\ check[c].pc = "save page" /\ UNCHANGED <<answers, review>> /\ check[c].text \in Texts
      /\ pages' = pages \cup {check[c].text} /\ pages \in SUBSET Texts
  BY RowOf DEF K!SavePage
<1>2. check' = [check EXCEPT ![c] = row]
  BY RowOf DEF K!SavePage, K!Step
<1>3. Proved(check[c]) /\ Saving(check[c]) /\ check[c] \in CheckRows
  BY RowOf
<1>4. check[c].save = TRUE /\ check[c].answered = FALSE
  BY <1>1, <1>3 DEF Saving, Saves, CheckRows
<1>5. /\ row \in CheckRows /\ row.pc = "save answer" /\ row.words = check[c].words
      /\ row.trust = check[c].trust /\ row.save = TRUE
      /\ row.text = check[c].text /\ row.answered = FALSE
  BY <1>3, <1>4 DEF CheckRows
<1>6. Proved(row) /\ Left(row)
  BY <1>1, <1>3, <1>5 DEF Proved, Left, Saves, Gives
<1>7. Saving(row)'
  <2>1. check[c].text \in pages'
    BY <1>1
  <2>2. row.text \in pages'
    BY <1>5, <2>1
  <2> QED
    BY <1>5, <2>2 DEF Saving, Saves
<1> QED
  BY <1>1, <1>2, <1>5, <1>6, <1>7, CheckStep

LEMMA SaveFailsKeeps == ASSUME BInv, NEW c \in Checks, K!SaveFails(c) PROVE BInv'
<1> PICK row : row = [check[c] EXCEPT !.pc = "done", !.faulted = TRUE]
  OBVIOUS
<1>1. /\ check[c].pc \in Saves /\ UNCHANGED <<pages, answers, review>>
      /\ Proved(check[c]) /\ Saving(check[c])
  BY RowOf DEF K!SaveFails, Saves
<1>2. check' = [check EXCEPT ![c] = row]
  BY RowOf DEF K!SaveFails
<1>3. /\ row \in CheckRows /\ row.pc = "done" /\ row.faulted = TRUE /\ row.words = check[c].words
      /\ row.trust = check[c].trust /\ row.text = check[c].text /\ row.answered = check[c].answered
  BY RowOf DEF CheckRows
<1>4. Proved(row) /\ Left(row)
  BY <1>1, <1>3 DEF Proved, Left, Saves, Gives
<1>5. Saving(row)'
  BY <1>1, <1>3 DEF Saving, Saves, K!AnswersTo
<1> QED
  BY <1>1, <1>2, <1>3, <1>4, <1>5, RowOf, CheckStep DEF Saves

LEMMA EndKeeps == ASSUME BInv, NEW c \in Checks, K!End(c) PROVE BInv'
<1>1. UNCHANGED <<pages, answers, review>> /\ check' = [check EXCEPT ![c] = K!Idle]
  BY DEF K!End
<1>2. K!Idle \in CheckRows /\ K!Idle.pc = "idle" /\ K!Idle.answered = FALSE
  BY EmptyFilling DEF K!Idle, CheckRows
<1>3. Proved(K!Idle) /\ Left(K!Idle) /\ Saving(K!Idle)'
  BY <1>2 DEF Proved, Left, Saving, Saves, Gives, K!Idle
<1> PICK row : row = K!Idle
  OBVIOUS
<1> QED
  BY <1>1, <1>2, <1>3, RowOf, CheckStep

-----------------------------------------------------------------------------
(* The steps that write answers.                                           *)

\* One more answer, or another status of one that is there.
LEMMA AnswersStep ==
    ASSUME BInv, Grows, UNCHANGED pages, BTypes', Queue', Rows',
           \A c \in Checks : \/ check'[c] = check[c]
                             \/ (Proved(check[c]) /\ Saving(check[c]) /\ Left(check[c]))'
    PROVE  BInv'
<1>1. ASSUME NEW c \in Checks, check'[c] = check[c]
      PROVE  (Proved(check[c]) /\ Saving(check[c]) /\ Left(check[c]))'
  <2> PICK row : row = check[c]
    OBVIOUS
  <2>1. Proved(row) /\ Saving(row) /\ Left(row)
    BY RowOf
  <2>2. Proved(row)' /\ Saving(row)' /\ Left(row)'
    BY <2>1, RowStays
  <2>3. check'[c] = row
    BY <1>1
  <2> QED
    BY <2>2, <2>3, Zenon
<1> QED
  BY <1>1 DEF BInv, Checked

\* An answer is appended.
LEMMA Appended ==
    ASSUME BInv, NEW row \in AnswerRows, answers' = Append(answers, row), UNCHANGED pages,
           row.form = "derived" => Fits(row.text, row.words),
           row.status = "verified" \/ row.checked = "dictionary" => Backed(row.text, row.words),
           row.text \in pages
    PROVE  /\ Grows /\ Rows' /\ answers' \in Seq(AnswerRows)
           /\ DOMAIN answers' = DOMAIN answers \cup {Len(answers) + 1}
           /\ \A i \in DOMAIN answers : answers'[i] = answers[i]
           /\ K!AnswersTo(row.text)' # {}
<1>1. answers \in Seq(AnswerRows)
  BY DEF BInv, BTypes
<1>2. /\ answers' \in Seq(AnswerRows) /\ answers'[Len(answers) + 1] = row
      /\ DOMAIN answers' = DOMAIN answers \cup {Len(answers) + 1}
      /\ \A i \in DOMAIN answers : answers'[i] = answers[i]
  BY <1>1
<1>3. Grows
  BY <1>2 DEF Grows
<1>4. Rows'
  <2>1. SUFFICES ASSUME NEW i \in DOMAIN answers'
                 PROVE  /\ answers'[i].form = "derived" => Fits(answers'[i].text, answers'[i].words)
                        /\ K!TrustOf(i)' = "verified" => Backed(answers'[i].text, answers'[i].words)
                        /\ answers'[i].text \in pages'
    BY DEF Rows, Fits, Backed, K!Right
  <2>2. CASE i \in DOMAIN answers
    BY <1>2, <2>2 DEF BInv, Rows, K!TrustOf
  <2>3. CASE i = Len(answers) + 1
    BY <1>2, <2>3 DEF K!TrustOf
  <2> QED
    BY <1>2, <2>2, <2>3, SMTT(60)
<1>5. K!AnswersTo(row.text)' # {}
  BY <1>2 DEF K!AnswersTo
<1> QED
  BY <1>2, <1>3, <1>4, <1>5

LEMMA SaveAnswerKeeps == ASSUME BInv, NEW c \in Checks, K!SaveAnswer(c) PROVE BInv'
<1> DEFINE t == check[c].text
<1>1. /\ check[c].pc = "save answer" /\ UNCHANGED <<pages, review>> /\ t \in Texts
      /\ check[c] \in CheckRows /\ Proved(check[c]) /\ Saving(check[c])
      /\ check \in [Checks -> CheckRows]
  BY RowOf DEF K!SaveAnswer
<1> PICK row : row = K!Answer(t, check[c].words, "derived",
                        IF check[c].trust = "verified" THEN "dictionary" ELSE "none", check[c].trust)
  OBVIOUS
<1>2. answers' = Append(answers, row)
  BY DEF K!SaveAnswer
<1>3. Sound(t, check[c].words, check[c].trust) /\ check[c].trust \in {"verified", "unverified"} /\ t \in pages
  BY <1>1 DEF Proved, Saving, Saves, CheckRows
<1>4. /\ row \in AnswerRows /\ row.text = t /\ row.words = check[c].words /\ row.form = "derived"
      /\ row.status = check[c].trust /\ (row.checked = "dictionary" => check[c].trust = "verified")
  BY <1>1, <1>3 DEF K!Answer, AnswerRows, CheckRows
<1>5. /\ row.form = "derived" => Fits(row.text, row.words)
      /\ row.status = "verified" \/ row.checked = "dictionary" => Backed(row.text, row.words)
  BY <1>3, <1>4 DEF Sound
<1>6. /\ Grows /\ Rows' /\ answers' \in Seq(AnswerRows)
      /\ DOMAIN answers \subseteq DOMAIN answers' /\ K!AnswersTo(row.text)' # {}
  <2>1. row.text \in pages
    BY <1>3, <1>4
  <2> QED
    BY <1>1, <1>2, <1>4, <1>5, <2>1, Appended
<1> PICK next : next = [check[c] EXCEPT !.pc = "done"]
  OBVIOUS
<1>7. /\ check' = [check EXCEPT ![c] = next]
      /\ next \in CheckRows /\ next.pc = "done" /\ next.text = row.text /\ next.words = check[c].words
      /\ next.trust = check[c].trust /\ next.answered = check[c].answered
  BY <1>1, <1>4 DEF K!SaveAnswer, K!Step, CheckRows
<1>8. check' \in [Checks -> CheckRows] /\ check'[c] = next /\ \A d \in Checks : d # c => check'[d] = check[d]
  BY <1>1, <1>7
<1>9. BTypes' /\ Queue'
  <2>1. next.text \in Texts
    BY <1>1, <1>4, <1>7
  <2>2. \A d \in Checks : check'[d].pc # "idle" => check'[d].text \in Texts
    BY <1>8, <2>1 DEF BInv, BTypes
  <2> QED
    BY <1>1, <1>6, <1>8, <2>2 DEF BInv, BTypes, Queue
<1>10. Proved(next)'
  <2>1. Proved(next)
    BY <1>3, <1>4, <1>7 DEF Proved, Saves
  <2> QED
    BY <2>1, ProvedStays
<1>11. Saving(next)' /\ Left(next)'
  <2>1. K!AnswersTo(next.text)' # {}
    BY <1>6, <1>7
  <2> QED
    BY <1>7, <2>1 DEF Saving, Left, Saves
<1>12. (Proved(check[c]) /\ Saving(check[c]) /\ Left(check[c]))'
  BY <1>8, <1>10, <1>11, Zenon
<1> QED
  BY <1>1, <1>6, <1>8, <1>9, <1>12, AnswersStep

\* The answer that is shown is in the base.
LEMMA ShownIsThere ==
    ASSUME BInv, review.pc # "read"
    PROVE  /\ K!Shown \in DOMAIN answers
           /\ answers[K!Shown] \in AnswerRows
           /\ answers[K!Shown].text \in pages
<1>1. review.queue \subseteq Nat /\ review.queue # {} /\ review.queue \subseteq DOMAIN answers
  BY DEF BInv, BTypes, Queue
<1>2. K!Shown \in review.queue
  BY <1>1, MinIn DEF K!Shown
<1> QED
  BY <1>1, <1>2 DEF BInv, BTypes, Rows

\* An answer gets a status: verified only when it is right.
LEMMA ReviewedRows ==
    ASSUME BInv, review.pc # "read", NEW status \in {"verified", "rejected"},
           answers' = K!Reviewed(status), UNCHANGED pages,
           status = "verified" => answers[K!Shown].words = K!Right(answers[K!Shown].text)
    PROVE  Grows /\ Rows' /\ answers' \in Seq(AnswerRows) /\ DOMAIN answers' = DOMAIN answers
<1> PICK shown : shown = K!Shown
  OBVIOUS
<1>1. shown \in DOMAIN answers /\ answers[shown] \in AnswerRows /\ answers \in Seq(AnswerRows)
  BY ShownIsThere DEF BInv, BTypes
<1> PICK row : row = [answers[shown] EXCEPT !.status = status, !.checked = "manual"]
  OBVIOUS
<1>2. answers' = [answers EXCEPT ![shown] = row]
  BY <1>1 DEF K!Reviewed
<1>3. /\ row \in AnswerRows /\ row.status = status /\ row.checked = "manual"
      /\ row.text = answers[shown].text /\ row.words = answers[shown].words /\ row.form = answers[shown].form
  BY <1>1 DEF AnswerRows
<1>4. /\ answers' \in Seq(AnswerRows) /\ DOMAIN answers' = DOMAIN answers /\ answers'[shown] = row
      /\ \A i \in DOMAIN answers : i # shown => answers'[i] = answers[i]
  BY <1>1, <1>2, <1>3
<1>5. Grows
  BY <1>3, <1>4 DEF Grows
<1>6. Rows'
  <2>1. SUFFICES ASSUME NEW i \in DOMAIN answers
                 PROVE  /\ answers'[i].form = "derived" => Fits(answers'[i].text, answers'[i].words)
                        /\ K!TrustOf(i)' = "verified" => Backed(answers'[i].text, answers'[i].words)
                        /\ answers'[i].text \in pages'
    BY <1>4 DEF Rows, Fits, Backed, K!Right
  <2>2. CASE i = shown
    <3>1. answers[i].form = "derived" => Fits(answers[i].text, answers[i].words)
      BY DEF BInv, Rows
    <3>2. answers[i].text \in pages
      BY DEF BInv, Rows
    <3>3. K!TrustOf(i)' = "verified" => status = "verified"
      BY <1>3, <1>4, <2>2 DEF K!TrustOf
    <3>4. status = "verified" => answers[i].words = K!Right(answers[i].text)
      BY <2>2
    <3> QED
      BY <1>3, <1>4, <2>2, <3>1, <3>2, <3>3, <3>4, ZenonT(60) DEF Backed
  <2>3. CASE i # shown
    BY <1>4, <2>3 DEF BInv, Rows, K!TrustOf
  <2> QED
    BY <2>2, <2>3
<1> QED
  BY <1>4, <1>5, <1>6

LEMMA NextQueued ==
    ASSUME BInv
    PROVE  /\ K!NextInQueue \in [queue : SUBSET Nat, pc : {"read", "ask", "type"}]
           /\ K!NextInQueue.queue \subseteq DOMAIN answers
           /\ K!NextInQueue.pc # "read" => K!NextInQueue.queue # {} \/ review.queue = {}
BY DEF BInv, BTypes, Queue, K!NextInQueue

LEMMA ReviewKeeps ==
    ASSUME BInv, K!ReadQueue \/ K!Confirm \/ K!Reject \/ K!TypeIn \/ K!Quit
    PROVE  BInv'
<1>1. CASE K!ReadQueue
  <2>1. UNCHANGED <<pages, answers, check>> /\ Grows
    BY <1>1 DEF K!ReadQueue, Grows
  <2>2. BTypes' /\ Queue'
    BY <1>1, <2>1 DEF K!ReadQueue, BInv, BTypes, Queue
  <2>3. Rows'
    BY <2>1, RowsStay DEF BInv
  <2> QED
    BY <2>1, <2>2, <2>3, AnswersStep
<1>2. CASE K!Confirm
  <2>1. /\ review.pc # "read" /\ answers' = K!Reviewed("verified") /\ UNCHANGED <<pages, check>>
        /\ answers[K!Shown].words = K!Right(answers[K!Shown].text) /\ review' = K!NextInQueue
    BY <1>2 DEF K!Confirm
  <2>2. Grows /\ Rows' /\ answers' \in Seq(AnswerRows) /\ DOMAIN answers' = DOMAIN answers
    BY <2>1, ReviewedRows
  <2>3. BTypes' /\ Queue'
    BY <2>1, <2>2, NextQueued DEF BInv, BTypes, Queue
  <2> QED
    BY <2>1, <2>2, <2>3, AnswersStep
<1>3. CASE K!Reject
  <2>1. /\ review.pc = "ask" /\ answers' = K!Reviewed("rejected") /\ UNCHANGED <<pages, check>>
        /\ review' \in {K!NextInQueue, [review EXCEPT !.pc = "type"]}
    BY <1>3 DEF K!Reject
  <2>2. Grows /\ Rows' /\ answers' \in Seq(AnswerRows) /\ DOMAIN answers' = DOMAIN answers
    BY <2>1, ReviewedRows
  <2>3. BTypes' /\ Queue'
    BY <2>1, <2>2, NextQueued DEF BInv, BTypes, Queue
  <2> QED
    BY <2>1, <2>2, <2>3, AnswersStep
<1>4. CASE K!TypeIn
  <2> PICK t : t = answers[K!Shown].text
    OBVIOUS
  <2>1. /\ review.pc # "read" /\ UNCHANGED <<pages, check>> /\ review' = K!NextInQueue
        /\ answers' = Append(answers, K!Answer(t, K!Right(t), "typed", "manual", "verified"))
    BY <1>4 DEF K!TypeIn
  <2>2. t \in Texts /\ t \in pages
    BY <2>1, ShownIsThere DEF AnswerRows
  <2> PICK row : row = K!Answer(t, K!Right(t), "typed", "manual", "verified")
    OBVIOUS
  <2>3. /\ row \in AnswerRows /\ row.text = t /\ row.words = K!Right(t) /\ row.form = "typed"
    <3>1. K!Right(t) \in Fillings
      BY <2>2, RightFilling, SMTT(60)
    <3> QED
      BY <2>2, <3>1 DEF K!Answer, AnswerRows
  <2>4. Backed(row.text, row.words)
    BY <2>3 DEF Backed
  <2>5. /\ Grows /\ Rows' /\ answers' \in Seq(AnswerRows) /\ DOMAIN answers \subseteq DOMAIN answers'
    BY <2>1, <2>2, <2>3, <2>4, Appended
  <2>6. BTypes' /\ Queue'
    BY <2>1, <2>5, NextQueued DEF BInv, BTypes, Queue
  <2> QED
    BY <2>1, <2>5, <2>6, AnswersStep
<1>5. CASE K!Quit
  <2>1. UNCHANGED <<pages, answers, check>> /\ Grows /\ review' = [queue |-> {}, pc |-> "read"]
    BY <1>5 DEF K!Quit, Grows
  <2>2. BTypes' /\ Queue'
    BY <2>1 DEF BInv, BTypes, Queue
  <2>3. Rows'
    BY <2>1, RowsStay DEF BInv
  <2> QED
    BY <2>1, <2>2, <2>3, AnswersStep
<1> QED
  BY <1>1, <1>2, <1>3, <1>4, <1>5

-----------------------------------------------------------------------------
(***************************************************************************)
(* The desk.  DInv joins its safety properties with what they rest on:     *)
(*   Entered   a child of the parent has a consent only after its subject, *)
(*             and no consent is newer than the running process;           *)
(*   Reading   a photo of the student on its way has a consent behind it;  *)
(*   OnceOnly  a photo is in one place: read, waiting, or checked;         *)
(*   Marked    a reminder is remembered as long as it keeps the next away, *)
(*             also when the state that holds the mark has expired;        *)
(*   Paused    the last report is the one the pause counts from.           *)
(***************************************************************************)
States == [photos : SUBSET Photos, since : Time \cup {Never}, kid : Young \cup {NoKid},
           chosenAt : Time \cup {Never}, marks : [Kids -> Time \cup {Never}], until : Nat]

\* Whose state holds the mark about child k.
Holder(k) == IF k = Student THEN "student" ELSE "parent"

Entered ==
    /\ \A k \in Young : consent[k] # 0 => k \in started /\ k \in subject
    /\ \A k \in Kids : consent[k] <= policy

Reading ==
    reading # NotReading =>
        /\ Student \in subject
        /\ reading.policy # 0
        /\ reading.policy <= consent[Student]

OnceOnly ==
    /\ saved["student"].photos = {}
    /\ \A p \in Photos : p \in reading.photo => p \notin saved["parent"].photos
    /\ \A p \in Photos :
          checked[p] # NotChecked => /\ checked[p].kid \in Kids
                                     /\ p \notin reading.photo
                                     /\ p \notin saved["parent"].photos

Noted(k) ==
    tried[k] # Never =>
        /\ tried[k] <= now
        /\ \/ now >= tried[k] + RemindEvery
           \/ /\ saved[Holder(k)].marks[k] = tried[k]
              /\ saved[Holder(k)].until >= tried[k] + RemindEvery

Marked == \A k \in Kids : Noted(k)

Paused == reported = recent

DInv == /\ TypeOK /\ Entered /\ Reading /\ OnceOnly /\ Marked /\ Paused
        /\ NothingBeforeConsent /\ CoveredByConsent

-----------------------------------------------------------------------------
(* What writing the state of a user does.                                  *)

USE DeskAssumption DEF Kids, Users, Never, Time

LEMMA SavedTypes ==
    ASSUME TypeOK
    PROVE  /\ now \in Nat /\ now <= MaxNow
           /\ saved \in [Users -> States]
           /\ tried \in [Kids -> Time \cup {Never}]
           /\ consent \in [Kids -> Policies \cup {0}]
BY DEF TypeOK, States

\* The photos and the marks are written as given; marks keep the state for RENEWAL_TTL_S.
LEMMA Written ==
    ASSUME TypeOK, NEW u \in Users, NEW state \in States, Set(u, state)
    PROVE  /\ saved' \in [Users -> States]
           /\ saved'[u].photos = state.photos
           /\ saved'[u].marks = state.marks
           /\ (\E k \in Kids : state.marks[k] # Never) => saved'[u].until >= now + RemindEvery
           /\ \A v \in Users : v # u => saved'[v] = saved[v]
<1>1. Ttl(state) \in Nat
  BY DEF Ttl
<1>2. (\E k \in Kids : state.marks[k] # Never) => Ttl(state) >= RemindEvery
  BY DEF Ttl
<1> DEFINE until == now + Ttl(state)
<1>3. until \in Nat
  BY <1>1, SavedTypes
<1>4. (\E k \in Kids : state.marks[k] # Never) => until >= now + RemindEvery
  BY <1>1, <1>2, SavedTypes
<1>5. saved' = [saved EXCEPT ![u] = [state EXCEPT !.until = until]]
  BY DEF Set
<1> HIDE DEF until
<1> QED
  BY <1>3, <1>4, <1>5, SavedTypes DEF States

\* A write that keeps the marks keeps Marked.
LEMMA WrittenMarks ==
    ASSUME TypeOK, Marked, NEW u \in Users, NEW state \in States, Set(u, state),
           state.marks = saved[u].marks, UNCHANGED <<now, tried>>
    PROVE  Marked'
<1>1. SUFFICES ASSUME NEW k \in Kids PROVE Noted(k)'
  BY DEF Marked
<1>2. Holder(k) \in Users
  BY DEF Holder
<1>3. Noted(k)
  BY DEF Marked
<1>4. tried[k] \in Int
  BY SavedTypes
<1>5. CASE Holder(k) # u
  <2>1. saved'[Holder(k)] = saved[Holder(k)]
    BY <1>2, <1>5, Written
  <2> QED
    BY <1>3, <2>1 DEF Noted, Holder
<1>6. CASE Holder(k) = u /\ tried[k] # Never /\ ~(now >= tried[k] + RemindEvery)
  <2>1. saved[u].marks[k] = tried[k]
    BY <1>3, <1>6 DEF Noted
  <2>2. saved'[u].marks[k] = tried[k] /\ saved'[u].until >= now + RemindEvery
    BY <1>6, <2>1, Written
  <2>3. tried[k] <= now /\ now \in Nat
    BY <1>3, <1>6, SavedTypes DEF Noted
  <2>4. saved'[u].until \in Int
    <3>1. saved'[u] \in States
      BY Written
    <3> QED
      BY <3>1 DEF States
  <2>5. saved'[u].until >= tried[k] + RemindEvery
    BY <1>4, <2>2, <2>3, <2>4
  <2> QED
    BY <1>6, <2>1, <2>2, <2>3, <2>5 DEF Noted, Holder
<1>7. CASE tried[k] = Never \/ now >= tried[k] + RemindEvery
  BY <1>3, <1>7, SavedTypes DEF Noted
<1> QED
  BY <1>5, <1>6, <1>7

\* The reminder: one to a child at a time, never too soon, and remembered.
LEMMA Reminded ==
    ASSUME TypeOK, Marked, NEW u \in Users, NEW k \in Kids, NEW read, NEW state \in States,
           Holder(k) = u, state.marks = saved[u].marks, Remind(u, k, read, state), now' = now
    PROVE  /\ saved' \in [Users -> States]
           /\ saved'[u].photos = state.photos
           /\ \A v \in Users : v # u => saved'[v] = saved[v]
           /\ tried' \in [Kids -> Time \cup {Never}]
           /\ Marked'
           /\ \A j \in Kids : tried'[j] # tried[j] /\ tried[j] # Never
                              => tried'[j] - tried[j] >= RemindEvery
<1>1. CASE /\ Due(state.marks, k, read)
           /\ Set(u, [state EXCEPT !.marks[k] = now])
           /\ tried' = [tried EXCEPT ![k] = now]
  <2> DEFINE noted == [state EXCEPT !.marks[k] = now]
  <2>1. /\ noted \in States
        /\ noted.photos = state.photos
        /\ noted.marks = [state.marks EXCEPT ![k] = now]
    BY SavedTypes DEF States
  <2>2. Set(u, noted)
    BY <1>1
  <2> HIDE DEF noted
  <2>3. state.marks \in [Kids -> Time \cup {Never}]
    BY DEF States
  <2>4. noted.marks[k] = now /\ now # Never
    BY <2>1, <2>3, SavedTypes
  <2>5. /\ saved' \in [Users -> States]
        /\ saved'[u].photos = state.photos
        /\ saved'[u].marks = noted.marks
        /\ saved'[u].until >= now + RemindEvery
        /\ \A v \in Users : v # u => saved'[v] = saved[v]
    BY <2>1, <2>2, <2>4, Written, ZenonT(60)
  <2>6. tried' \in [Kids -> Time \cup {Never}] /\ tried'[k] = now /\ \A j \in Kids : j # k => tried'[j] = tried[j]
    BY <1>1, SavedTypes
  <2>7. tried[k] # Never => now - tried[k] >= RemindEvery
    <3>1. SUFFICES ASSUME tried[k] # Never PROVE now - tried[k] >= RemindEvery
      OBVIOUS
    <3>2. Noted(k) /\ tried[k] \in Int
      BY SavedTypes DEF Marked
    <3>3. CASE saved[u].marks[k] = tried[k]
      <4>1. ~(now - tried[k] < RemindEvery)
        BY <1>1, <3>1, <3>3 DEF Due, Fresh
      <4> QED
        BY <3>2, <4>1, SavedTypes
    <3> QED
      BY <3>1, <3>2, <3>3, SavedTypes DEF Noted
  <2>8. ASSUME NEW j \in Kids PROVE Noted(j)'
    <3>1. Noted(j) /\ tried[j] \in Int
      BY SavedTypes DEF Marked
    <3>2. CASE j = k
      BY <2>4, <2>5, <2>6, <3>2 DEF Noted
    <3>3. CASE j # k /\ Holder(j) # u
      <4>1. Holder(j) \in Users
        BY DEF Holder
      <4>2. saved'[Holder(j)] = saved[Holder(j)] /\ tried'[j] = tried[j]
        BY <2>5, <2>6, <3>3, <4>1
      <4> QED
        BY <3>1, <4>2 DEF Noted, Holder
    <3>4. CASE j # k /\ Holder(j) = u
      <4>1. saved'[u].marks[j] = saved[u].marks[j] /\ tried'[j] = tried[j]
        BY <2>1, <2>3, <2>5, <2>6, <3>4
      <4>2. tried[j] # Never => tried[j] <= now
        BY <3>1 DEF Noted
      <4>3. saved'[u].until \in Int
        BY <2>5 DEF States
      <4>4. tried[j] # Never => saved'[u].until >= tried[j] + RemindEvery
        BY <2>5, <3>1, <4>2, <4>3, SavedTypes
      <4> QED
        BY <3>1, <3>4, <4>1, <4>4 DEF Noted, Holder
    <3> QED
      BY <3>2, <3>3, <3>4
  <2> QED
    BY <2>5, <2>6, <2>7, <2>8 DEF Marked
<1>2. CASE /\ IF state = Get(u) THEN saved' = saved ELSE Set(u, state)
           /\ tried' = tried
  <2>1. CASE state = saved[u]
    <3>1. saved' = saved
      BY <1>2, <2>1 DEF Get
    <3>2. Marked'
      BY <1>2, <3>1 DEF Marked, Noted, Holder
    <3> QED
      BY <1>2, <2>1, <3>1, <3>2, SavedTypes
  <2>2. CASE state # saved[u]
    <3>1. Set(u, state)
      BY <1>2, <2>2 DEF Get
    <3>2. Marked'
      BY <1>2, <3>1, WrittenMarks
    <3> QED
      BY <1>2, <3>1, <3>2, Written, SavedTypes
  <2> QED
    BY <2>1, <2>2
<1> QED
  BY <1>1, <1>2 DEF Remind
-----------------------------------------------------------------------------
(* The steps.                                                              *)

\* What CheckedOnce, RemindedSeldom and ReportsApart say of a step.
StaysChecked ==
    \A p \in Photos : checked[p] # NotChecked =>
        checked'[p] = checked[p] /\ p \notin reading'.photo \cup Get("parent").photos
KeepsApart ==
    /\ \A k \in Kids : tried'[k] # tried[k] /\ tried[k] # Never => tried'[k] - tried[k] >= RemindEvery
    /\ reported' # reported /\ reported # Never /\ reported' # Never => reported' - reported >= Cooldown

Kept == DInv' /\ StaysChecked /\ KeepsApart

\* Steps of the parent that only settle something: nothing about photos, reminders or reports.
Settles == Handled("parent") /\ UNCHANGED <<now, policy, saved, reading, recent, checked, asked, tried, reported>>

\* Policies are numbers, 0 for none.
Numbers ==
    /\ policy \in Nat \ {0}
    /\ \A k \in Kids : consent[k] \in Nat
    /\ reading.policy \in Nat
    /\ \A p \in Photos : checked[p].policy \in Nat

LEMMA PoliciesAreNumbers == (TypeOK => Numbers) /\ (TypeOK' => Numbers')
<1> DEFINE Ps == Policies \cup {0}
           Choices(all, c, r, h) ==
               /\ all \in Policies
               /\ c \in [Kids -> Ps]
               /\ r \in [photo : SUBSET Photos, policy : Ps]
               /\ h \in [Photos -> [kid : Kids \cup {NoKid}, policy : Ps]]
<1>1. Policies \subseteq Nat \ {0} /\ Ps \subseteq Nat
  OBVIOUS
<1>2. TypeOK => Choices(policy, consent, reading, checked)
  BY DEF TypeOK
<1>3. TypeOK' => Choices(policy', consent', reading', checked')
  BY DEF TypeOK
<1> HIDE DEF Ps
<1>4. \A h \in [Photos -> [kid : Kids \cup {NoKid}, policy : Ps]], p \in Photos : h[p].policy \in Ps
  OBVIOUS
<1>5. Choices(policy, consent, reading, checked) => Numbers
  BY <1>1, <1>4 DEF Numbers
<1>6. Choices(policy', consent', reading', checked') => Numbers'
  BY <1>1, <1>4 DEF Numbers
<1> QED
  BY <1>2, <1>3, <1>5, <1>6

\* Consents only grow, so that what a consent covered stays covered.
LEMMA StillCovered ==
    ASSUME Numbers, Numbers', Reading, CoveredByConsent, OnceOnly,
           Student \in subject => Student \in subject', \A k \in Kids : consent[k] <= consent'[k],
           UNCHANGED <<reading, checked>>
    PROVE  Reading' /\ CoveredByConsent'
<1>1. Reading'
  BY DEF Reading, Numbers
<1>2. ASSUME NEW p \in Photos, checked[p] # NotChecked
      PROVE  checked[p].policy # 0 /\ checked[p].policy <= consent'[checked[p].kid]
  <2>1. checked[p].kid \in Kids
    BY <1>2 DEF OnceOnly
  <2>2. checked[p].policy # 0 /\ checked[p].policy <= consent[checked[p].kid]
    BY <1>2 DEF CoveredByConsent
  <2> QED
    BY <2>1, <2>2 DEF Numbers
<1> QED
  BY <1>1, <1>2 DEF CoveredByConsent

LEMMA SettlesKeeps ==
    ASSUME DInv, Settles, started' \in SUBSET Young, subject' \in SUBSET Kids,
           consent' \in [Kids -> Policies \cup {0}], Entered', Student \in subject => Student \in subject',
           \A k \in Kids : consent[k] <= consent'[k]
    PROVE  Kept
<1>1. /\ TypeOK /\ Entered /\ Reading /\ OnceOnly /\ Marked /\ Paused
      /\ NothingBeforeConsent /\ CoveredByConsent
  BY DEF DInv
<1>2. TypeOK'
  BY <1>1 DEF TypeOK, Settles, Handled, Goes
<1>3. Reading' /\ CoveredByConsent'
  BY <1>1, <1>2, PoliciesAreNumbers, StillCovered DEF Settles
<1>4. OnceOnly' /\ Marked' /\ Paused'
  BY <1>1 DEF OnceOnly, Marked, Noted, Holder, Paused, Settles
<1>5. NothingBeforeConsent'
  BY DEF NothingBeforeConsent, Settles, Handled, Goes
<1>6. StaysChecked
  BY <1>1 DEF StaysChecked, OnceOnly, Get, Settles
<1>7. KeepsApart
  BY DEF KeepsApart, Settles
<1> QED
  BY <1>1, <1>2, <1>3, <1>4, <1>5, <1>6, <1>7 DEF Kept, DInv

LEMMA StartChildKeeps == ASSUME DInv, NEW k \in Kids, StartChild(k) PROVE Kept
<1>1. TypeOK /\ Entered /\ Numbers
  BY PoliciesAreNumbers DEF DInv
<1>2. Settles
  BY DEF Settles, StartChild
<1>3. /\ started' \in SUBSET Young /\ subject' \in SUBSET Kids
      /\ Student \in subject => Student \in subject'
  BY <1>1 DEF TypeOK, StartChild, Unfinished
<1>4. Entered'
  BY <1>1 DEF Entered, TypeOK, StartChild, Unfinished
<1>5. \A j \in Kids : consent[j] <= consent'[j]
  BY <1>1 DEF Numbers, StartChild
<1>6. consent' \in [Kids -> Policies \cup {0}]
  BY <1>1 DEF TypeOK, StartChild
<1> QED
  BY <1>2, <1>3, <1>4, <1>5, <1>6, SettlesKeeps

LEMMA AgreeKeeps == ASSUME DInv, NEW k \in Kids, Agree(k) PROVE Kept
<1>1. TypeOK /\ Entered /\ Numbers
  BY PoliciesAreNumbers DEF DInv
<1>2. Settles
  BY DEF Settles, Agree
<1>3. consent' \in [Kids -> Policies \cup {0}] /\ policy' = policy
  BY <1>1 DEF TypeOK, Agree
<1>4. consent'[k] = policy /\ \A j \in Kids : j # k => consent'[j] = consent[j]
  BY <1>1 DEF TypeOK, Agree
<1>5. Entered'
  BY <1>1, <1>3, <1>4 DEF Entered, Agree, Unfinished, Numbers
<1>6. \A j \in Kids : consent[j] <= consent'[j]
  BY <1>1, <1>4 DEF Numbers, Agree
<1>7. started' \in SUBSET Young /\ subject' = subject /\ subject' \in SUBSET Kids
  BY <1>1 DEF TypeOK, Agree
<1> QED
  BY <1>2, <1>3, <1>5, <1>6, <1>7, SettlesKeeps

LEMMA RenewKeeps == ASSUME DInv, NEW k \in Kids, Renew(k) PROVE Kept
<1>1. TypeOK /\ Entered /\ Numbers
  BY PoliciesAreNumbers DEF DInv
<1>2. Settles
  BY DEF Settles, Renew
<1>3. consent' \in [Kids -> Policies \cup {0}] /\ policy' = policy
  BY <1>1 DEF TypeOK, Renew
<1>4. consent'[k] = policy /\ \A j \in Kids : j # k => consent'[j] = consent[j]
  BY <1>1 DEF TypeOK, Renew
<1>5. Entered'
  BY <1>1, <1>3, <1>4 DEF Entered, Renew, Numbers
<1>6. \A j \in Kids : consent[j] <= consent'[j]
  BY <1>1, <1>4 DEF Numbers, Entered
<1>7. started' \in SUBSET Young /\ subject' = subject /\ subject' \in SUBSET Kids
  BY <1>1 DEF TypeOK, Renew
<1> QED
  BY <1>2, <1>3, <1>5, <1>6, <1>7, SettlesKeeps

LEMMA ChooseSubjectKeeps == ASSUME DInv, NEW k \in Kids, ChooseSubject(k) PROVE Kept
<1>1. TypeOK /\ Entered /\ Numbers
  BY PoliciesAreNumbers DEF DInv
<1>2. Settles
  BY DEF Settles, ChooseSubject
<1>3. /\ started' \in SUBSET Young /\ subject' \in SUBSET Kids
      /\ Student \in subject => Student \in subject'
  BY <1>1 DEF TypeOK, ChooseSubject
<1>4. Entered'
  BY <1>1 DEF Entered, TypeOK, ChooseSubject
<1>5. \A j \in Kids : consent[j] <= consent'[j]
  BY <1>1 DEF Numbers, ChooseSubject
<1>6. consent' \in [Kids -> Policies \cup {0}]
  BY <1>1 DEF TypeOK, ChooseSubject
<1> QED
  BY <1>2, <1>3, <1>4, <1>5, <1>6, SettlesKeeps

\* Steps that read no photo and check none; a photo may begin to wait.
LEMMA StandsKeeps ==
    ASSUME DInv, UNCHANGED <<now, policy, consent, subject, started, reading, checked, tried>>,
           saved' \in [Users -> States], Marked', saved'["student"].photos = {},
           \A p \in Photos : p \in saved'["parent"].photos =>
               \/ p \in saved["parent"].photos
               \/ checked[p] = NotChecked /\ p \notin reading.photo,
           asked' \in BOOLEAN, recent' \in Time \cup {Never}, reported' = recent',
           reported' # reported /\ reported # Never /\ reported' # Never
               => reported' - reported >= Cooldown,
           route' \in [by : Users, to : {"none", "handled", "pass", "check"}], NothingBeforeConsent'
    PROVE  Kept
<1>1. TypeOK /\ Entered /\ Reading /\ OnceOnly /\ CoveredByConsent
  BY DEF DInv
<1>2. TypeOK'
  BY <1>1 DEF TypeOK, States
<1>3. Entered' /\ Reading' /\ CoveredByConsent' /\ Paused'
  BY <1>1 DEF Entered, Reading, CoveredByConsent, Paused
<1>4. OnceOnly'
  BY <1>1 DEF OnceOnly
<1>5. StaysChecked
  BY <1>1 DEF StaysChecked, OnceOnly, Get
<1>6. KeepsApart
  BY DEF KeepsApart
<1> QED
  BY <1>2, <1>3, <1>4, <1>5, <1>6 DEF Kept, DInv

\* Photos go to the check for a child with a consent, and nothing else holds them.
LEMMA ChecksKeeps ==
    ASSUME DInv, NEW u \in Users, NEW photos \in SUBSET Photos, NEW k \in Kids, NEW read \in Policies,
           Check(u, photos, k, read), read <= consent[k], k \in subject,
           Holder(k) = u, k \in Young => k \in started,
           UNCHANGED <<now, policy, consent, subject, started, recent, reported>>,
           reading' \in {reading, NotReading}, asked' \in BOOLEAN,
           \A p \in photos : /\ checked[p] = NotChecked
                             /\ p \notin reading'.photo
                             /\ p \notin saved'["parent"].photos,
           saved' \in [Users -> States], saved'["student"].photos = {},
           \A p \in Photos : p \in saved'["parent"].photos => p \in saved["parent"].photos,
           tried' \in [Kids -> Time \cup {Never}], Marked',
           \A j \in Kids : tried'[j] # tried[j] /\ tried[j] # Never => tried'[j] - tried[j] >= RemindEvery
    PROVE  Kept
<1>1. TypeOK /\ Entered /\ Reading /\ OnceOnly /\ CoveredByConsent /\ Paused /\ Numbers
  BY PoliciesAreNumbers DEF DInv
<1>2. /\ checked' \in [Photos -> [kid : Kids \cup {NoKid}, policy : Policies \cup {0}]]
      /\ \A p \in photos : checked'[p] = [kid |-> k, policy |-> read]
      /\ \A p \in Photos : p \notin photos => checked'[p] = checked[p]
  BY <1>1 DEF Check, PhotosOf, TypeOK
<1>3. route' = [by |-> u, to |-> "check"]
  BY DEF Check, Goes
<1>4. reading' \in [photo : SUBSET Photos, policy : Policies \cup {0}]
  BY <1>1 DEF TypeOK, NotReading
<1>5. TypeOK'
  BY <1>1, <1>2, <1>3, <1>4 DEF TypeOK, States
<1>6. read # 0 /\ consent[k] # 0
  BY <1>1 DEF Numbers
<1>7. Entered' /\ Reading' /\ Paused'
  BY <1>1 DEF Entered, Reading, Paused
<1>8. OnceOnly'
  <2>1. ASSUME NEW p \in Photos, p \in reading'.photo PROVE p \in reading.photo
    BY <2>1 DEF NotReading
  <2> QED
    BY <1>1, <1>2, <2>1 DEF OnceOnly
<1>9. NothingBeforeConsent'
  BY <1>3, <1>6 DEF NothingBeforeConsent, Holder
<1>10. CoveredByConsent'
  <2>1. SUFFICES ASSUME NEW p \in Photos, checked'[p] # NotChecked
                 PROVE  checked'[p].policy # 0 /\ checked'[p].policy <= consent[checked'[p].kid]
    BY DEF CoveredByConsent
  <2>2. CASE p \in photos
    BY <1>2, <1>6, <2>2
  <2>3. CASE p \notin photos
    BY <1>1, <1>2, <2>1, <2>3 DEF CoveredByConsent
  <2> QED
    BY <2>2, <2>3
<1>11. StaysChecked
  <2>1. ASSUME NEW p \in Photos, p \in reading'.photo PROVE p \in reading.photo
    BY <2>1 DEF NotReading
  <2> QED
    BY <1>1, <1>2, <2>1 DEF StaysChecked, OnceOnly, Get
<1>12. KeepsApart
  BY DEF KeepsApart
<1> QED
  BY <1>5, <1>7, <1>8, <1>9, <1>10, <1>11, <1>12 DEF Kept, DInv

LEMMA HandledIsQuiet ==
    ASSUME NEW u \in Users, Handled(u)
    PROVE  /\ route' \in [by : Users, to : {"none", "handled", "pass", "check"}]
           /\ NothingBeforeConsent'
BY DEF Handled, Goes, NothingBeforeConsent

LEMMA RefusePhotoKeeps == ASSUME DInv, NEW p \in Photos, RefusePhoto(p) PROVE Kept
<1>1. TypeOK /\ OnceOnly /\ Marked /\ Paused
  BY DEF DInv
<1>2. Handled("parent") /\ UNCHANGED <<now, policy, consent, subject, started, reading, recent, reported,
                                       saved, tried, checked, asked>>
  BY DEF RefusePhoto, Refuse
<1>3. Marked'
  BY <1>1, <1>2 DEF Marked, Noted, Holder
<1>4. /\ asked' \in BOOLEAN /\ recent' \in Time \cup {Never} /\ reported' = recent'
      /\ saved' \in [Users -> States] /\ saved'["student"].photos = {}
  BY <1>1, <1>2, SavedTypes DEF TypeOK, Paused, OnceOnly
<1> QED
  BY <1>2, <1>3, <1>4, HandledIsQuiet, StandsKeeps

LEMMA RequestReportKeeps == ASSUME DInv, RequestReport PROVE Kept
<1>1. TypeOK /\ OnceOnly /\ Marked /\ Paused
  BY DEF DInv
<1>2. Handled("parent") /\ UNCHANGED <<now, policy, consent, subject, started, saved, reading, checked,
                                       asked, tried>>
  BY DEF RequestReport
<1>3. Marked'
  BY <1>1, <1>2 DEF Marked, Noted, Holder
<1>4. /\ asked' \in BOOLEAN /\ saved' \in [Users -> States] /\ saved'["student"].photos = {}
  BY <1>1, <1>2, SavedTypes DEF TypeOK, OnceOnly
<1>5. /\ recent' \in Time \cup {Never} /\ reported' = recent'
      /\ reported' # reported /\ reported # Never /\ reported' # Never => reported' - reported >= Cooldown
  <2>1. recent \in Int /\ now \in Int /\ recent \in Time \cup {Never} /\ now \in Time /\ reported = recent
    BY <1>1 DEF TypeOK, Paused
  <2>2. CASE Fresh(recent, Cooldown)
    BY <2>1, <2>2 DEF RequestReport
  <2>3. CASE ~Fresh(recent, Cooldown)
    <3>1. PICK sent \in BOOLEAN : recent' = Remembered(sent) /\ reported' = IF sent THEN now ELSE reported
      BY <2>3 DEF RequestReport
    <3>2. recent # Never => now - recent >= Cooldown
      BY <2>1, <2>3 DEF Fresh
    <3> QED
      BY <2>1, <3>1, <3>2 DEF Remembered
  <2> QED
    BY <2>2, <2>3
<1> QED
  BY <1>2, <1>3, <1>4, <1>5, HandledIsQuiet, StandsKeeps

LEMMA OtherUpdateKeeps == ASSUME DInv, NEW u \in Users, OtherUpdate(u) PROVE Kept
<1>1. TypeOK /\ OnceOnly /\ Marked /\ Paused /\ Entered
  BY DEF DInv
<1>2. UNCHANGED <<now, policy, consent, subject, started, saved, reading, recent, checked, asked, tried,
                  reported>>
  BY DEF OtherUpdate
<1>3. Marked'
  BY <1>1, <1>2 DEF Marked, Noted, Holder
<1>4. /\ asked' \in BOOLEAN /\ recent' \in Time \cup {Never} /\ reported' = recent'
      /\ saved' \in [Users -> States] /\ saved'["student"].photos = {}
  BY <1>1, <1>2, SavedTypes DEF TypeOK, Paused, OnceOnly
<1>5. /\ route' \in [by : Users, to : {"handled", "pass"}] /\ route'.by = u
      /\ route'.to = "pass" => CanCheck(u)
  BY DEF OtherUpdate, Goes, TextRoute, ButtonRoute
<1>6. NothingBeforeConsent'
  <2>1. CanCheck(u) => \E k \in IF u = "parent" THEN started ELSE {Student} : k \in subject /\ consent[k] # 0
    BY <1>1 DEF CanCheck, YoungChildren, Entered, TypeOK
  <2> QED
    BY <1>2, <1>5, <2>1 DEF NothingBeforeConsent
<1> QED
  BY <1>2, <1>3, <1>4, <1>5, <1>6, StandsKeeps

LEMMA AskWhoseKeeps == ASSUME DInv, NEW p \in Photos, AskWhose(p) PROVE Kept
<1>1. TypeOK /\ OnceOnly /\ Marked /\ Paused
  BY DEF DInv
<1> DEFINE state == saved["parent"]
           waiting == state.photos # {} /\ Fresh(state.since, OwnerTtl)
           kept == IF waiting THEN state.photos ELSE {}
           since == IF waiting THEN state.since ELSE now
           asking == [state EXCEPT !.photos = {p} \cup kept, !.since = since]
<1>2. /\ Handled("parent") /\ UNCHANGED <<now, policy, consent, subject, started, reading, recent, tried,
                                          checked, reported>>
      /\ Set("parent", asking) /\ asked' \in BOOLEAN /\ New(p)
  BY <1>1 DEF AskWhose, Get, TypeOK
<1>3. state \in States
  BY <1>1, SavedTypes
<1>4. since \in Time \cup {Never}
  BY <1>1, <1>3 DEF States, TypeOK
<1>5. kept \in SUBSET state.photos
  BY <1>3
<1> HIDE DEF since, kept
<1>6. /\ asking \in States /\ asking.marks = state.marks
      /\ \A q \in asking.photos : q = p \/ q \in state.photos
  BY <1>3, <1>4, <1>5 DEF States
<1> HIDE DEF asking
<1>7. /\ saved' \in [Users -> States] /\ saved'["parent"].photos = asking.photos
      /\ saved'["student"] = saved["student"]
  BY <1>1, <1>2, <1>6, Written
<1>8. Marked'
  BY <1>1, <1>2, <1>6, WrittenMarks
<1>9. checked[p] = NotChecked /\ p \notin reading.photo
  BY <1>2 DEF New
<1>10. recent' \in Time \cup {Never} /\ reported' = recent' /\ saved'["student"].photos = {}
  BY <1>1, <1>2, <1>7 DEF TypeOK, Paused, OnceOnly
<1> QED
  BY <1>2, <1>6, <1>7, <1>8, <1>9, <1>10, HandledIsQuiet, StandsKeeps

LEMMA CheckPhotoKeeps == ASSUME DInv, NEW p \in Photos, CheckPhoto(p) PROVE Kept
<1>1. TypeOK /\ OnceOnly /\ Marked /\ Entered /\ Numbers
  BY PoliciesAreNumbers DEF DInv
<1> DEFINE state == saved["parent"]
           k == HomeworkChild(state)
<1>2. k \in YoungChildren
  BY DEF CheckPhoto, HomeworkChild, Get
<1>3. k \in Young /\ k \in started /\ k \in subject /\ consent[k] # 0 /\ k # Student
  BY <1>1, <1>2 DEF YoungChildren, Entered, TypeOK
<1>4. Holder(k) = "parent" /\ consent[k] \in Policies /\ consent[k] <= consent[k] /\ state \in States
  BY <1>1, <1>3, SavedTypes DEF Holder, TypeOK, Numbers
<1>5. /\ New(p) /\ Remind("parent", k, consent[k], state) /\ Check("parent", {p}, k, consent[k])
      /\ UNCHANGED <<now, policy, consent, subject, started, reading, recent, asked, reported>>
  BY DEF CheckPhoto, Get
<1> HIDE DEF k
<1>6. /\ saved' \in [Users -> States]
      /\ saved'["parent"].photos = state.photos
      /\ saved'["student"] = saved["student"]
      /\ tried' \in [Kids -> Time \cup {Never}]
      /\ Marked'
      /\ \A j \in Kids : tried'[j] # tried[j] /\ tried[j] # Never => tried'[j] - tried[j] >= RemindEvery
  BY <1>1, <1>3, <1>4, <1>5, Reminded
<1>7. checked[p] = NotChecked /\ p \notin reading.photo /\ p \notin state.photos
  BY <1>5 DEF New
<1>8. saved'["student"].photos = {} /\ asked' \in BOOLEAN
  BY <1>1, <1>5, <1>6 DEF OnceOnly, TypeOK
<1>9. /\ {p} \in SUBSET Photos /\ k \in Kids
      /\ reading' \in {reading, NotReading}
      /\ \A q \in {p} : checked[q] = NotChecked /\ q \notin reading'.photo /\ q \notin saved'["parent"].photos
      /\ \A q \in Photos : q \in saved'["parent"].photos => q \in saved["parent"].photos
  BY <1>3, <1>5, <1>6, <1>7
<1> QED
  BY <1>3, <1>4, <1>5, <1>6, <1>8, <1>9, ChecksKeeps, ZenonT(60)

LEMMA AnswerWhoseKeeps == ASSUME DInv, NEW k \in Kids, AnswerWhose(k) PROVE Kept
<1>1. TypeOK /\ OnceOnly /\ Marked /\ Entered /\ Paused /\ Numbers
  BY PoliciesAreNumbers DEF DInv
<1> DEFINE state == saved["parent"]
           taken == Taken(state, k)
<1>2. k \in YoungChildren
      /\ UNCHANGED <<now, policy, consent, subject, started, reading, recent, reported>>
  BY DEF AnswerWhose
<1>3. k \in Young /\ k \in started /\ k \in subject /\ consent[k] # 0 /\ k # Student
  BY <1>1, <1>2 DEF YoungChildren, Entered, TypeOK
<1>4. Holder(k) = "parent" /\ consent[k] \in Policies /\ consent[k] <= consent[k] /\ state \in States
  BY <1>1, <1>3, SavedTypes DEF Holder, TypeOK, Numbers
<1>5. taken \in States /\ taken.photos = {} /\ taken.marks = state.marks
  BY <1>1, <1>3, <1>4 DEF States, Taken, TypeOK
<1>6. state.photos \in SUBSET Photos
  BY <1>4 DEF States
<1>7. recent' \in Time \cup {Never} /\ reported' = recent'
  BY <1>1, <1>2 DEF TypeOK, Paused
<1> HIDE DEF taken
<1>8. CASE /\ asked' = FALSE /\ Remind("parent", k, consent[k], taken)
           /\ Check("parent", state.photos, k, consent[k])
  <2>1. /\ saved' \in [Users -> States]
        /\ saved'["parent"].photos = {}
        /\ saved'["student"] = saved["student"]
        /\ tried' \in [Kids -> Time \cup {Never}]
        /\ Marked'
        /\ \A j \in Kids : tried'[j] # tried[j] /\ tried[j] # Never => tried'[j] - tried[j] >= RemindEvery
    BY <1>1, <1>2, <1>4, <1>5, <1>8, Reminded
  <2>2. \A p \in state.photos : checked[p] = NotChecked /\ p \notin reading.photo
    BY <1>1, <1>6 DEF OnceOnly
  <2>3. saved'["student"].photos = {}
    BY <1>1, <2>1 DEF OnceOnly
  <2> QED
    BY <1>2, <1>3, <1>4, <1>6, <1>8, <2>1, <2>2, <2>3, ChecksKeeps
<1>9. CASE /\ asked' = FALSE /\ Set("parent", taken) /\ Handled("parent")
           /\ UNCHANGED <<tried, checked>>
  <2>1. /\ saved' \in [Users -> States] /\ saved'["parent"].photos = {}
        /\ saved'["student"] = saved["student"]
    BY <1>1, <1>5, <1>9, Written
  <2>2. Marked'
    BY <1>1, <1>2, <1>5, <1>9, WrittenMarks
  <2>3. saved'["student"].photos = {}
    BY <1>1, <2>1 DEF OnceOnly
  <2> QED
    BY <1>2, <1>7, <1>9, <2>1, <2>2, <2>3, HandledIsQuiet, StandsKeeps
<1>10. CASE Refuse
  <2>1. Handled("parent") /\ UNCHANGED <<saved, tried, checked, asked>>
    BY <1>10 DEF Refuse
  <2>2. Marked' /\ saved' \in [Users -> States] /\ saved'["student"].photos = {} /\ asked' \in BOOLEAN
    BY <1>1, <1>2, <2>1, SavedTypes DEF Marked, Noted, Holder, OnceOnly, TypeOK
  <2> QED
    BY <1>2, <1>7, <2>1, <2>2, HandledIsQuiet, StandsKeeps
<1> QED
  BY <1>8, <1>9, <1>10 DEF AnswerWhose, Get, taken

LEMMA StudentCheckKeeps == ASSUME DInv, StudentCheck PROVE Kept
<1>1. TypeOK /\ OnceOnly /\ Marked /\ Reading /\ Numbers
  BY PoliciesAreNumbers DEF DInv
<1>2. /\ reading # NotReading /\ Remind("student", Student, reading.policy, saved["student"])
      /\ Check("student", reading.photo, Student, reading.policy) /\ reading' = NotReading
      /\ UNCHANGED <<now, policy, consent, subject, started, recent, asked, reported>>
  BY DEF StudentCheck, Get
<1>3. /\ Student \in subject /\ reading.policy \in Policies /\ reading.policy <= consent[Student]
      /\ reading.photo \in SUBSET Photos /\ saved["student"] \in States
  BY <1>1, <1>2, SavedTypes DEF Reading, TypeOK
<1>4. Holder(Student) = "student"
  BY DEF Holder
<1>5. /\ saved' \in [Users -> States]
      /\ saved'["student"].photos = saved["student"].photos
      /\ saved'["parent"] = saved["parent"]
      /\ tried' \in [Kids -> Time \cup {Never}]
      /\ Marked'
      /\ \A j \in Kids : tried'[j] # tried[j] /\ tried[j] # Never => tried'[j] - tried[j] >= RemindEvery
  BY <1>1, <1>2, <1>3, <1>4, Reminded
<1>6. \A p \in reading.photo : /\ checked[p] = NotChecked /\ p \notin reading'.photo
                               /\ p \notin saved'["parent"].photos
  BY <1>1, <1>2, <1>3, <1>5 DEF OnceOnly, NotReading
<1>7. saved'["student"].photos = {} /\ asked' \in BOOLEAN
  BY <1>1, <1>2, <1>5 DEF OnceOnly, TypeOK
<1> QED
  BY <1>2, <1>3, <1>4, <1>5, <1>6, <1>7, ChecksKeeps

LEMMA StudentPhotoKeeps == ASSUME DInv, NEW p \in Photos, StudentPhoto(p) PROVE Kept
<1>1. TypeOK /\ OnceOnly /\ Marked /\ Entered /\ Paused /\ CoveredByConsent /\ NothingBeforeConsent /\ Numbers
  BY PoliciesAreNumbers DEF DInv
<1>2. /\ New(p) /\ reading = NotReading
      /\ UNCHANGED <<now, policy, consent, subject, started, saved, recent, checked, asked, tried, reported>>
  BY DEF StudentPhoto
<1>3. Marked'
  BY <1>1, <1>2 DEF Marked, Noted, Holder
<1>4. KeepsApart
  BY <1>2 DEF KeepsApart
<1>5. CASE Handled("student") /\ UNCHANGED reading
  BY <1>1, <1>2, <1>3, <1>5, SavedTypes, HandledIsQuiet, StandsKeeps DEF TypeOK, Paused, OnceOnly
<1>6. CASE CanCheck("student") /\ reading' = [photo |-> {p}, policy |-> consent[Student]] /\ route' = route
  <2>1. Student \in subject /\ consent[Student] # 0
    BY <1>6 DEF CanCheck
  <2>2. TypeOK'
    BY <1>1, <1>2, <1>6, <2>1 DEF TypeOK
  <2>3. Reading'
    BY <1>1, <1>2, <1>6, <2>1 DEF Reading, Numbers
  <2>4. Entered' /\ Paused' /\ CoveredByConsent' /\ NothingBeforeConsent'
    BY <1>1, <1>2, <1>6 DEF Entered, Paused, CoveredByConsent, NothingBeforeConsent
  <2>5. checked[p] = NotChecked /\ p \notin saved["parent"].photos
    BY <1>2 DEF New
  <2>6. OnceOnly'
    BY <1>1, <1>2, <1>6, <2>5 DEF OnceOnly
  <2>7. StaysChecked
    BY <1>1, <1>2, <1>6, <2>5 DEF StaysChecked, OnceOnly, Get
  <2> QED
    BY <1>3, <1>4, <2>2, <2>3, <2>4, <2>6, <2>7 DEF Kept, DInv
<1> QED
  BY <1>5, <1>6 DEF StudentPhoto

LEMMA TickKeeps == ASSUME DInv, Tick PROVE Kept
<1>1. TypeOK /\ OnceOnly /\ Marked /\ Entered /\ Reading /\ Paused /\ CoveredByConsent
  BY DEF DInv
<1>2. now < MaxNow /\ now' = now + 1 /\ route' = Nowhere
      /\ UNCHANGED <<policy, consent, subject, started, reading, recent, checked, asked, tried, reported>>
  BY DEF Tick
<1>3. EmptyState \in States /\ EmptyState.photos = {}
  BY DEF EmptyState, States
<1> HIDE DEF EmptyState
<1>4. /\ saved' \in [Users -> States]
      /\ \A u \in Users : \/ saved'[u] = saved[u]
                          \/ saved'[u] = EmptyState /\ ~(now' < saved[u].until)
  BY <1>1, <1>3, SavedTypes DEF Tick
<1>5. now' \in Time
  BY <1>1, <1>2 DEF TypeOK
<1>6. TypeOK'
  BY <1>1, <1>2, <1>4, <1>5 DEF TypeOK, States, Nowhere
<1>7. Entered' /\ Reading' /\ Paused' /\ CoveredByConsent' /\ NothingBeforeConsent'
  BY <1>1, <1>2 DEF Entered, Reading, Paused, CoveredByConsent, NothingBeforeConsent, Nowhere
<1>8. /\ saved'["student"].photos = {}
      /\ \A p \in Photos : p \in saved'["parent"].photos => p \in saved["parent"].photos
  BY <1>1, <1>3, <1>4 DEF OnceOnly
<1>9. OnceOnly' /\ StaysChecked
  BY <1>1, <1>2, <1>8 DEF OnceOnly, StaysChecked, Get
<1>10. Marked'
  <2>1. SUFFICES ASSUME NEW k \in Kids PROVE Noted(k)'
    BY DEF Marked
  <2>2. Noted(k) /\ tried[k] \in Int /\ now \in Int /\ tried'[k] = tried[k] /\ Holder(k) \in Users
    BY <1>1, <1>2, SavedTypes DEF Marked, Holder
  <2>3. CASE tried[k] = Never \/ now >= tried[k] + RemindEvery
    BY <1>2, <2>2, <2>3 DEF Noted
  <2>4. CASE saved'[Holder(k)] = saved[Holder(k)]
    BY <1>2, <2>2, <2>4 DEF Noted, Holder
  <2>5. CASE /\ ~(now' < saved[Holder(k)].until) /\ tried[k] # Never
             /\ saved[Holder(k)].until >= tried[k] + RemindEvery /\ tried[k] <= now
    <3>1. saved[Holder(k)].until \in Int
      <4>1. saved[Holder(k)] \in States
        BY <1>1, <2>2, SavedTypes
      <4> QED
        BY <4>1 DEF States
    <3>2. now' >= tried[k] + RemindEvery /\ tried[k] <= now'
      BY <1>2, <2>2, <2>5, <3>1
    <3> QED
      BY <2>2, <3>2 DEF Noted
  <2> QED
    BY <1>4, <2>2, <2>3, <2>4, <2>5 DEF Noted
<1>11. KeepsApart
  BY <1>2 DEF KeepsApart
<1> QED
  BY <1>6, <1>7, <1>9, <1>10, <1>11 DEF Kept, DInv

LEMMA RestartKeeps == ASSUME DInv, NEW v \in Policies, Restart(v) PROVE Kept
<1>1. TypeOK /\ OnceOnly /\ Marked /\ Entered /\ Reading /\ Paused /\ CoveredByConsent /\ Numbers
  BY PoliciesAreNumbers DEF DInv
<1>2. /\ v >= policy /\ policy' = v /\ reading' = NotReading /\ recent' = Never /\ reported' = Never
      /\ route' = Nowhere /\ UNCHANGED <<now, consent, subject, started, saved, checked, asked, tried>>
  BY DEF Restart
<1>3. TypeOK'
  BY <1>1, <1>2 DEF TypeOK, Nowhere, NotReading
<1>4. Entered'
  <2>1. \A k \in Kids : consent[k] <= policy /\ consent[k] \in Nat
    BY <1>1 DEF Entered, Numbers
  <2>2. v \in Nat /\ policy \in Nat /\ policy <= v
    BY <1>1, <1>2 DEF Numbers
  <2>3. \A k \in Kids : consent[k] <= v
    BY <2>1, <2>2
  <2> QED
    BY <1>1, <1>2, <2>3 DEF Entered
<1>5. Reading' /\ Paused' /\ CoveredByConsent' /\ NothingBeforeConsent'
  BY <1>1, <1>2 DEF Reading, Paused, CoveredByConsent, NothingBeforeConsent, Nowhere
<1>6. OnceOnly' /\ StaysChecked
  BY <1>1, <1>2 DEF OnceOnly, StaysChecked, Get, NotReading
<1>7. Marked'
  BY <1>1, <1>2 DEF Marked, Noted, Holder
<1>8. KeepsApart
  BY <1>2 DEF KeepsApart
<1> QED
  BY <1>3, <1>4, <1>5, <1>6, <1>7, <1>8 DEF Kept, DInv

-----------------------------------------------------------------------------
(* The two machines together.                                              *)

FInv == DInv /\ BInv

LEMMA DeskStarts == Init => DInv
<1> SUFFICES ASSUME Init PROVE DInv
  OBVIOUS
<1>1. policy \in Policies
  BY LeastExists DEF Init
<1>2. Policies \subseteq Nat
  OBVIOUS
<1>3. EmptyState \in [photos : SUBSET Photos, since : Time \cup {Never}, kid : Young \cup {NoKid},
                      chosenAt : Time \cup {Never}, marks : [Kids -> Time \cup {Never}], until : Nat]
  BY DEF EmptyState
<1> PICK zero : zero = EmptyState
  OBVIOUS
<1>4. TypeOK
  <2>1. now \in Time /\ policy \in Policies
    BY <1>1 DEF Init
  <2>2. consent \in [Kids -> Policies \cup {0}] /\ subject \subseteq Kids /\ started \subseteq Young
    BY DEF Init
  <2>3. saved = [u \in Users |-> zero] /\ zero \in [photos : SUBSET Photos, since : Time \cup {Never},
                kid : Young \cup {NoKid}, chosenAt : Time \cup {Never},
                marks : [Kids -> Time \cup {Never}], until : Nat]
    BY <1>3 DEF Init
  <2>4. reading \in [photo : SUBSET Photos, policy : Policies \cup {0}]
    BY DEF Init, NotReading
  <2>5. recent \in Time \cup {Never} /\ reported \in Time \cup {Never} /\ asked \in BOOLEAN
    BY DEF Init
  <2>6. checked \in [Photos -> [kid : Kids \cup {NoKid}, policy : Policies \cup {0}]]
    BY DEF Init, NotChecked
  <2>7. tried \in [Kids -> Time \cup {Never}]
    BY DEF Init
  <2>8. route \in [by : Users, to : {"none", "handled", "pass", "check"}]
    BY DEF Init, Nowhere
  <2> QED
    BY <2>1, <2>2, <2>3, <2>4, <2>5, <2>6, <2>7, <2>8 DEF TypeOK
<1>5. Entered /\ Reading /\ Marked /\ Paused
  <2>1. policy \in Nat /\ \A k \in Kids : consent[k] = 0 /\ tried[k] = Never
    BY <1>1, <1>2 DEF Init
  <2>2. reading = NotReading /\ reported = recent
    BY DEF Init
  <2> QED
    BY <2>1, <2>2 DEF Entered, Reading, Marked, Noted, Paused
<1>6. OnceOnly
  BY DEF Init, OnceOnly, EmptyState, NotReading
<1>7. NothingBeforeConsent /\ CoveredByConsent
  BY DEF Init, NothingBeforeConsent, CoveredByConsent, Nowhere
<1> QED
  BY <1>4, <1>5, <1>6, <1>7 DEF DInv

LEMMA BaseStarts == K!Init => BInv
<1> SUFFICES ASSUME K!Init PROVE BInv
  OBVIOUS
<1>1. K!Idle \in CheckRows /\ K!Idle.pc = "idle" /\ K!Idle.answered = FALSE
  BY EmptyFilling DEF K!Idle, CheckRows
<1>2. \A c \in Checks : check[c] = K!Idle
  BY DEF K!Init
<1>3. BTypes /\ Queue /\ Rows
  BY <1>1, <1>2 DEF K!Init, BTypes, Queue, Rows
<1> PICK row : row = K!Idle
  OBVIOUS
<1>4. Proved(row) /\ Saving(row) /\ Left(row)
  BY <1>1 DEF Proved, Saving, Left, Saves, Gives
<1>5. Checked
  BY <1>2, <1>4, Zenon DEF Checked
<1> QED
  BY <1>3, <1>5 DEF BInv

LEMMA DeskSteps == ASSUME DInv, Next PROVE Kept
<1>1. CASE \E p \in Photos : RefusePhoto(p) \/ CheckPhoto(p) \/ AskWhose(p) \/ StudentPhoto(p)
  BY <1>1, RefusePhotoKeeps, CheckPhotoKeeps, AskWhoseKeeps, StudentPhotoKeeps
<1>2. CASE \E k \in Kids : AnswerWhose(k) \/ StartChild(k) \/ Agree(k) \/ Renew(k) \/ ChooseSubject(k)
  BY <1>2, AnswerWhoseKeeps, StartChildKeeps, AgreeKeeps, RenewKeeps, ChooseSubjectKeeps
<1>3. CASE \E u \in Users : OtherUpdate(u)
  BY <1>3, OtherUpdateKeeps
<1>4. CASE StudentCheck \/ RequestReport \/ Tick
  BY <1>4, StudentCheckKeeps, RequestReportKeeps, TickKeeps
<1>5. CASE \E v \in Policies : Restart(v)
  BY <1>5, RestartKeeps
<1> QED
  BY <1>1, <1>2, <1>3, <1>4, <1>5 DEF Next

LEMMA DeskStutters == ASSUME DInv, UNCHANGED vars PROVE Kept
<1>1. DInv'
  BY DEF DInv, vars, TypeOK, Entered, Reading, OnceOnly, Marked, Noted, Holder, Paused,
         NothingBeforeConsent, CoveredByConsent
<1>2. StaysChecked
  BY DEF DInv, vars, StaysChecked, OnceOnly, Get
<1>3. KeepsApart
  BY DEF vars, KeepsApart
<1> QED
  BY <1>1, <1>2, <1>3 DEF Kept

LEMMA BaseSteps == ASSUME BInv, K!Next PROVE BInv'
<1>1. ASSUME NEW c \in Checks,
             \/ K!Begin(c) \/ K!Find(c) \/ K!ReadAnswers(c) \/ K!ReadFails(c) \/ K!Derive(c)
             \/ K!GiveUp(c) \/ K!SavePage(c) \/ K!SaveAnswer(c) \/ K!SaveFails(c) \/ K!End(c)
      PROVE  BInv'
  BY <1>1, BeginKeeps, FindKeeps, ReadAnswersKeeps, ReadFailsKeeps, DeriveKeeps, GiveUpKeeps,
     SavePageKeeps, SaveAnswerKeeps, SaveFailsKeeps, EndKeeps
<1> QED
  BY <1>1, ReviewKeeps DEF K!Next

LEMMA BaseStutters == ASSUME BInv, UNCHANGED bvars PROVE BInv'
<1>1. UNCHANGED <<pages, answers, check, review>> /\ Grows
  BY DEF bvars, Grows
<1>2. BTypes' /\ Queue' /\ Rows'
  BY <1>1, RowsStay DEF BInv, BTypes, Queue
<1> QED
  BY <1>1, <1>2, AnswersStep

LEMMA FamiliesStep == FInv /\ [FNext]_fvars => FInv' /\ StaysChecked /\ KeepsApart
<1> SUFFICES ASSUME FInv, [FNext]_fvars PROVE FInv' /\ StaysChecked /\ KeepsApart
  OBVIOUS
<1>1. (Next \/ UNCHANGED vars) /\ (K!Next \/ UNCHANGED bvars)
  BY DEF FNext, fvars
<1>2. Kept
  BY <1>1, DeskSteps, DeskStutters DEF FInv
<1>3. BInv'
  BY <1>1, BaseSteps, BaseStutters DEF FInv
<1> QED
  BY <1>2, <1>3 DEF FInv, Kept

\* The inductive invariant of both machines.
THEOREM FamiliesInvariant == FSpec => []FInv
<1>1. FInit => FInv
  BY DeskStarts, BaseStarts DEF FInit, FInv
<1>2. FInv /\ [FNext]_fvars => FInv'
  BY FamiliesStep
<1> QED
  BY <1>1, <1>2, PTL DEF FSpec

\* PhotosNeedConsent (handlers.py, router.py, check.py): nothing of a family reaches the check before
\* there is a consent, and photos are read by a model that the consent in force covers, although a
\* consent may be renewed and the process replaced between the reading and the use of a policy.
THEOREM ConsentComesFirst == FSpec => []PhotosNeedConsent
<1>1. FInv => PhotosNeedConsent
  BY DEF FInv, DInv, PhotosNeedConsent
<1> QED
  BY <1>1, FamiliesInvariant, PTL

\* CheckedOnce (parent.py, choose_owner): no photo is checked twice or for two children, whatever the
\* order of photos, answers, expiry and restarts.
THEOREM PhotosAreCheckedOnce == FSpec => CheckedOnce
<1>1. FInv /\ [FNext]_fvars
        => [\A p \in Photos : checked[p] # NotChecked
                => checked'[p] = checked[p] /\ p \notin reading'.photo \cup Get("parent").photos]_vars
  BY FamiliesStep DEF StaysChecked
<1> QED
  BY <1>1, FamiliesInvariant, PTL DEF FSpec, CheckedOnce

\* NotPestered (renewal.py, state.py, report.py): two reminders about a child are REMIND_EVERY apart
\* and two reports on request REPORT_COOLDOWN, over expiring states and failing messages.
THEOREM RemindersKeepApart == FSpec => NotPestered
<1>1. FInv /\ [FNext]_fvars
        => /\ [\A k \in Kids : tried'[k] # tried[k] /\ tried[k] # Never
                               => tried'[k] - tried[k] >= RemindEvery]_vars
           /\ [reported' # reported /\ reported # Never /\ reported' # Never
                               => reported' - reported >= Cooldown]_vars
  BY FamiliesStep DEF KeepsApart
<1> QED
  BY <1>1, FamiliesInvariant, PTL DEF FSpec, NotPestered, RemindedSeldom, ReportsApart

\* VerifiedIsProved (gaps.py, module.py, db/kb.py): a reference counts as verified only when the
\* dictionary closed every gap with the only word there is, or the reviewer confirmed this very text.
THEOREM VerifiedReferencesAreProved == FSpec => []VerifiedIsProved
<1>1. FInv => VerifiedIsProved
  <2>1. SUFFICES ASSUME FInv, NEW c \in Checks, K!Referenced(c)
                 PROVE  LET gaps == Gaps[check[c].text]
                            words == check[c].words
                        IN  /\ \A g \in DOMAIN words :
                                  words[g] \in gaps[g].candidates \cup gaps[g].fits \cup {K!Pattern}
                            /\ check[c].trust = "verified" =>
                                  \/ gaps # <<>> /\ \A g \in DOMAIN gaps : gaps[g].candidates = {words[g]}
                                  \/ words = K!Right(check[c].text)
    BY DEF VerifiedIsProved, K!VerifiedIsProved
  <2>2. Sound(check[c].text, check[c].words, check[c].trust)
    BY <2>1, RowOf DEF FInv, Proved, Gives, K!Referenced
  <2> QED
    BY <2>2, SMTT(60) DEF Sound, Fits, Backed
<1> QED
  BY <1>1, FamiliesInvariant, PTL

\* AnswersKeptOnce (module.py, db/kb.py): a check that found an answer adds none, and one without a
\* failure leaves an answer behind.
THEOREM AnswersAreKeptOnce == FSpec => AnswersKeptOnce
<1>1. FInv => K!NoPageWithoutAnswer
  BY RowOf DEF FInv, Left, Gives, K!NoPageWithoutAnswer, K!Referenced
<1>2. FInv /\ [FNext]_fvars
        => [\A c \in Checks :
              check[c].pc = "save answer" /\ check'[c].pc = "done" /\ answers' # answers
              => ~check[c].answered]_(K!kvars)
  BY SavedOnce DEF FInv, SavesOnce
<1>3. FSpec => K!AnsweredOnce
  BY <1>2, FamiliesInvariant, PTL DEF FSpec, K!AnsweredOnce
<1>4. FSpec => [][K!NoPageWithoutAnswer']_(K!kvars)
  BY <1>1, FamiliesInvariant, PTL
<1> QED
  BY <1>3, <1>4, PTL DEF AnswersKeptOnce, K!AnswersKeptOnce
=============================================================================
