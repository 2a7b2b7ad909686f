-------------------------------- MODULE Desk ---------------------------------
(***************************************************************************)
(* What the onboarding lets through to the check, and for which child      *)
(* (bot/onboarding/router.py, parent.py, renewal.py, state.py), with the   *)
(* report a parent asks for (bot/report.py).  One family: a parent, the    *)
(* children of grades 1-4 whose homework the parent sends, and a student   *)
(* with an account of MAX.  How consents come about is in Linking.         *)
(*                                                                         *)
(* Updates of one user are routed one at a time.  Those of the student and *)
(* of the parent share only the consents, which a photo of the student     *)
(* reads before and uses after the reminder of a new policy.               *)
(***************************************************************************)
EXTENDS Integers, FiniteSets

CONSTANTS
    Young,         \* children of grades 1-4 of the parent
    Student,       \* the child with an account of its own
    Photos,        \* messages with photos, each sent once
    Policies,      \* values of POLICY_VERSION
    OwnerTtl,      \* OWNER_TTL_S
    StateTtl,      \* ONBOARDING_TTL_S
    RemindEvery,   \* REMIND_EVERY
    RenewalTtl,    \* RENEWAL_TTL_S
    Cooldown,      \* REPORT_COOLDOWN
    MaxNow,        \* bound: the time at which the clock stops
    NoKid

ASSUME DeskAssumption ==
    /\ Student \notin Young /\ NoKid \notin Young \cup {Student}
    /\ Policies \subseteq Nat \ {0} /\ Policies # {}
    /\ {OwnerTtl, StateTtl, RemindEvery, RenewalTtl, Cooldown, MaxNow} \subseteq Nat \ {0}
    /\ OwnerTtl <= StateTtl /\ RemindEvery <= RenewalTtl

VARIABLES
    now,
    policy,        \* POLICY_VERSION of the running process
    consent,       \* per child: policy of the consent in force, 0 without one
    subject,       \* children whose subject is chosen
    started,       \* children of grades 1-4 the parent has entered
    saved,         \* OnboardingState of the parent and of the student, with its TTL in Redis
    reading,       \* the photo of the student between its position and its check
    recent,        \* ParentReporter._recent
    \* what came of it
    checked,       \* photos given to the check: the child, and the policy that chose the model
    asked,         \* whether "whose homework?" is on the screen for the photos that wait
    tried,         \* when the parent was last asked for a new consent, per child
    reported,      \* when the last report was sent by this process
    route          \* where the last update went

vars == <<now, policy, consent, subject, started, saved, reading, recent,
          checked, asked, tried, reported, route>>

Kids == Young \cup {Student}
Users == {"parent", "student"}
Never == -1
Time == 0 .. MaxNow

EmptyState == [photos |-> {}, since |-> Never, kid |-> NoKid, chosenAt |-> Never,
               marks |-> [k \in Kids |-> Never], until |-> 0]
Nowhere == [by |-> "parent", to |-> "none"]
NotReading == [photo |-> {}, policy |-> 0]
NotChecked == [kid |-> NoKid, policy |-> 0]

TypeOK ==
    /\ now \in Time /\ policy \in Policies
    /\ consent \in [Kids -> Policies \cup {0}]
    /\ subject \subseteq Kids /\ started \subseteq Young
    /\ saved \in [Users -> [photos : SUBSET Photos, since : Time \cup {Never},
                            kid : Young \cup {NoKid}, chosenAt : Time \cup {Never},
                            marks : [Kids -> Time \cup {Never}], until : Nat]]
    /\ reading \in [photo : SUBSET Photos, policy : Policies \cup {0}]
    /\ recent \in Time \cup {Never} /\ reported \in Time \cup {Never}
    /\ checked \in [Photos -> [kid : Kids \cup {NoKid}, policy : Policies \cup {0}]]
    /\ asked \in BOOLEAN
    /\ tried \in [Kids -> Time \cup {Never}]
    /\ route \in [by : Users, to : {"none", "handled", "pass", "check"}]

Init ==
    /\ now = 0 /\ policy = CHOOSE v \in Policies : \A w \in Policies : v <= w
    /\ consent = [k \in Kids |-> 0] /\ subject = {} /\ started = {}
    /\ saved = [u \in Users |-> EmptyState] /\ reading = NotReading /\ recent = Never
    /\ checked = [p \in Photos |-> NotChecked] /\ asked = FALSE
    /\ tried = [k \in Kids |-> Never] /\ reported = Never /\ route = Nowhere

Goes(u, to) == route' = [by |-> u, to |-> to]
Handled(u) == Goes(u, "handled")

----------------------------------------------------------------------------
(* The state of the onboarding in Redis.                                   *)

Fresh(at, ttl) == at # Never /\ now - at < ttl

Get(u) == saved[u]

\* Mutant of Ttl: every state is kept for the same time.
TtlShort(state) == StateTtl

\* Marks of a reminder make the state live longer.
Ttl(state) == IF \E k \in Kids : state.marks[k] # Never
              THEN IF RenewalTtl > StateTtl THEN RenewalTtl ELSE StateTtl
              ELSE StateTtl

Set(u, state) == saved' = [saved EXCEPT ![u] = [state EXCEPT !.until = now + Ttl(state)]]

----------------------------------------------------------------------------
(* Where a user stands.                                                    *)

YoungChildren == {k \in started : consent[k] # 0}
Unfinished == {k \in started : consent[k] = 0}

\* Mutant of CanCheck: a child of the parent is enough.
CanCheckAny(u) == IF u = "student" THEN Student \in subject /\ consent[Student] # 0
                  ELSE started # {}

\* Position.can_check
CanCheck(u) == IF u = "student" THEN Student \in subject /\ consent[Student] # 0
               ELSE YoungChildren # {}

\* _on_text: a text goes to the check when the user has one, a parent only in the middle of a dialog.
TextRoute(u, busy) == IF CanCheck(u) /\ (u = "student" \/ busy) THEN "pass" ELSE "handled"
\* _on_callback: a button of the check.
ButtonRoute(u) == IF CanCheck(u) THEN "pass" ELSE "handled"

----------------------------------------------------------------------------
(* The reminder of a new policy, and the check.                            *)

\* remind, _due: the consent read with the child is not to the current policy.
Due(marks, k, read) == read # policy /\ ~Fresh(marks[k], RemindEvery)

\* The mark is written, then the message is sent.  Either may fail, or nothing is due: the check
\* goes on.
Remind(u, k, read, state) ==
    \/ /\ Due(state.marks, k, read)
       /\ Set(u, [state EXCEPT !.marks[k] = now])
       /\ tried' = [tried EXCEPT ![k] = now]
    \/ /\ IF state = Get(u) THEN saved' = saved ELSE Set(u, state)
       /\ tried' = tried

\* Mutant of PhotosOf: the policy of the process instead of the one agreed to.
PhotosOfToday(k, read) == [kid |-> k, policy |-> policy]

\* _photos_of: the policy of the consent goes along and chooses the model.
PhotosOf(k, read) == [kid |-> k, policy |-> read]

Check(u, photos, k, read) ==
    /\ checked' = [p \in Photos |-> IF p \in photos THEN PhotosOf(k, read) ELSE checked[p]]
    /\ Goes(u, "check")

Refuse == Handled("parent") /\ UNCHANGED <<saved, tried, checked, asked>>

\* Photos nobody has sent yet
New(p) == /\ checked[p] = NotChecked /\ p \notin reading.photo
          /\ \A u \in Users : p \notin saved[u].photos

----------------------------------------------------------------------------
(* The parent.                                                             *)

\* The child was chosen for photos that came a short while ago.
Chosen(state) == state.kid \in YoungChildren /\ Fresh(state.chosenAt, OwnerTtl)

\* homework_child
HomeworkChild(state) == IF state.kid \in YoungChildren THEN state.kid
                        ELSE CHOOSE k \in YoungChildren : TRUE

\* on_photo: nobody to check for
RefusePhoto(p) ==
    /\ New(p) /\ YoungChildren = {}
    /\ Refuse
    /\ UNCHANGED <<now, policy, consent, subject, started, reading, recent, reported>>

\* the child is known
CheckPhoto(p) ==
    LET state == Get("parent")  k == HomeworkChild(state) IN
    /\ New(p) /\ YoungChildren # {}
    /\ Cardinality(YoungChildren) = 1 \/ Chosen(state)
    /\ Remind("parent", k, consent[k], state)
    /\ Check("parent", {p}, k, consent[k])
    /\ UNCHANGED <<now, policy, consent, subject, started, reading, recent, asked, reported>>

\* or the photo waits for "whose homework?", asked once; the message may fail after the state is
\* written.
AskWhose(p) ==
    LET state == Get("parent")
        waiting == state.photos # {} /\ Fresh(state.since, OwnerTtl)
    IN /\ New(p) /\ Cardinality(YoungChildren) > 1 /\ ~Chosen(state)
       /\ Set("parent", [state EXCEPT !.photos = {p} \cup IF waiting THEN @ ELSE {},
                                      !.since = IF waiting THEN @ ELSE now])
       /\ \E sent \in BOOLEAN : asked' = IF waiting THEN asked ELSE sent
       /\ Handled("parent")
       /\ UNCHANGED <<now, policy, consent, subject, started, reading, recent, tried, checked, reported>>

\* Mutant of Taken: the photos stay with the state.
TakenNot(state, k) == [state EXCEPT !.kid = k, !.chosenAt = now]

\* The state after the answer: the photos are taken out of it.
Taken(state, k) == [state EXCEPT !.photos = {}, !.since = Never, !.kid = k, !.chosenAt = now]

\* _whose, choose_owner.  A failure after the state is written loses the photos.
AnswerWhose(k) ==
    LET state == Get("parent") IN
    /\ k \in YoungChildren
    /\ IF state.photos # {} /\ Fresh(state.since, OwnerTtl)
       THEN /\ asked' = FALSE
            /\ \/ /\ Remind("parent", k, consent[k], Taken(state, k))
                  /\ Check("parent", state.photos, k, consent[k])
               \/ /\ Set("parent", Taken(state, k))
                  /\ Handled("parent") /\ UNCHANGED <<tried, checked>>
       ELSE Refuse
    /\ UNCHANGED <<now, policy, consent, subject, started, reading, recent, reported>>

\* start_child_by_parent: an unfinished child is replaced.
StartChild(k) ==
    /\ k \in Young \ started
    /\ started' = (started \ Unfinished) \cup {k} /\ subject' = subject \ (Unfinished \cup {k})
    /\ Handled("parent")
    /\ UNCHANGED <<now, policy, consent, saved, reading, recent, checked, asked, tried, reported>>

\* The parent agrees for a child: of grades 1-4 after its subject, or by the link of the student.
Agree(k) ==
    /\ consent[k] = 0
    /\ k = Student \/ k \in Unfinished \cap subject
    /\ consent' = [consent EXCEPT ![k] = policy]
    /\ Handled("parent")
    /\ UNCHANGED <<now, policy, subject, started, saved, reading, recent, checked, asked, tried,
                   reported>>

\* _renew
Renew(k) ==
    /\ consent[k] \notin {0, policy}
    /\ consent' = [consent EXCEPT ![k] = policy]
    /\ Handled("parent")
    /\ UNCHANGED <<now, policy, subject, started, saved, reading, recent, checked, asked, tried,
                   reported>>

\* Mutant of Remembered: no report starts the pause.
RememberedNot(sent) == recent

\* Only a report that was sent starts the pause.
Remembered(sent) == IF sent THEN now ELSE recent

\* on_request: nothing within the pause; a failure is answered with an apology.
RequestReport ==
    /\ IF Fresh(recent, Cooldown)
       THEN UNCHANGED <<recent, reported>>
       ELSE \E sent \in BOOLEAN : /\ recent' = Remembered(sent)
                                  /\ reported' = IF sent THEN now ELSE reported
    /\ Handled("parent")
    /\ UNCHANGED <<now, policy, consent, subject, started, saved, reading, checked, asked, tried>>

----------------------------------------------------------------------------
(* The student, and both.                                                  *)

ChooseSubject(k) ==
    /\ k \notin subject /\ (k = Student \/ k \in Unfinished)
    /\ subject' = subject \cup {k}
    /\ Handled("parent")
    /\ UNCHANGED <<now, policy, consent, started, saved, reading, recent, checked, asked, tried,
                   reported>>

\* The position with the consent is read,
StudentPhoto(p) ==
    /\ New(p) /\ reading = NotReading
    /\ IF CanCheck("student")
       THEN reading' = [photo |-> {p}, policy |-> consent[Student]] /\ route' = route
       ELSE Handled("student") /\ UNCHANGED reading
    /\ UNCHANGED <<now, policy, consent, subject, started, saved, recent, checked, asked, tried, reported>>

\* the reminder is written to the student's state and sent to the parent, then the photo goes on.
StudentCheck ==
    /\ reading # NotReading
    /\ Remind("student", Student, reading.policy, Get("student"))
    /\ Check("student", reading.photo, Student, reading.policy)
    /\ reading' = NotReading
    /\ UNCHANGED <<now, policy, consent, subject, started, recent, asked, reported>>

\* A text or a button of the check.
OtherUpdate(u) ==
    /\ u = "student" => reading = NotReading
    /\ \/ \E busy \in BOOLEAN : Goes(u, TextRoute(u, busy))
       \/ Goes(u, ButtonRoute(u))
    /\ UNCHANGED <<now, policy, consent, subject, started, saved, reading, recent, checked, asked, tried,
                   reported>>

Tick == /\ now < MaxNow
        /\ now' = now + 1
        /\ saved' = [u \in Users |-> IF now' < saved[u].until THEN saved[u] ELSE EmptyState]
        /\ route' = Nowhere
        /\ UNCHANGED <<policy, consent, subject, started, reading, recent, checked, asked, tried,
                       reported>>

\* A new process, perhaps with a newer policy.
Restart(v) ==
    /\ v \in Policies /\ v >= policy /\ policy' = v
    /\ reading' = NotReading /\ recent' = Never /\ reported' = Never /\ route' = Nowhere
    /\ UNCHANGED <<now, consent, subject, started, saved, checked, asked, tried>>

Next ==
    \/ \E p \in Photos : RefusePhoto(p) \/ CheckPhoto(p) \/ AskWhose(p) \/ StudentPhoto(p)
    \/ \E k \in Kids : AnswerWhose(k) \/ StartChild(k) \/ Agree(k) \/ Renew(k) \/ ChooseSubject(k)
    \/ \E u \in Users : OtherUpdate(u)
    \/ StudentCheck \/ RequestReport \/ Tick
    \/ \E v \in Policies : Restart(v)

Spec == Init /\ [][Next]_vars

----------------------------------------------------------------------------
(* Properties.                                                             *)

\* Nothing of a family without a consent reaches the check: the last photo, text or button that
\* went on came from a user with a consented child of its own (the spec's "before the consent a photo is not
\* even downloaded"; _position, _on_text, _on_callback, _on_photo).
NothingBeforeConsent ==
    route.to \in {"pass", "check"} =>
        \E k \in IF route.by = "parent" THEN started ELSE {Student} : k \in subject /\ consent[k] # 0

\* Photos are read by a model the consent in force covers, although the policy is read before the
\* check starts and may be renewed meanwhile (CheckPhotos.policy_version, _vision_for).
CoveredByConsent ==
    \A p \in Photos : checked[p] # NotChecked =>
        checked[p].policy # 0 /\ checked[p].policy <= consent[checked[p].kid]

\* Photos are checked once, for one child: an answer given twice, or long after, or after newer
\* photos, does not check them again (choose_owner).
CheckedOnce == [][\A p \in Photos : checked[p] # NotChecked => checked'[p] = checked[p]
                                    /\ p \notin reading'.photo \cup Get("parent").photos]_vars

\* The parent is asked for a new consent about a child at most once in REMIND_EVERY, although the
\* mark lives in a state that expires, and whether or not the message arrived (renewal.py, state.py).
RemindedSeldom == [][\A k \in Kids : tried'[k] # tried[k] /\ tried[k] # Never
                                     => tried'[k] - tried[k] >= RemindEvery]_vars

\* Reports asked for by button come at least REPORT_COOLDOWN apart while the process lives.
ReportsApart == [][reported' # reported /\ reported # Never /\ reported' # Never
                   => reported' - reported >= Cooldown]_vars

\* A photo is never met with silence: the first one that waits may have lost its question, and the
\* parent was told to try again (handlers.py, handle_update); one more that waits, waits for the
\* answer to a question that was asked (parent.py, on_photo).
NoSilence == Cardinality(saved["parent"].photos) > 1 => asked

\* Nothing is done with photos without a consent: nothing reaches the check before there is one, and
\* they are read by a model the consent in force covers.
PhotosNeedConsent == TypeOK /\ NothingBeforeConsent /\ CoveredByConsent

\* A family is not pestered: reminders of a new policy and reports on request keep their distance.
NotPestered == RemindedSeldom /\ ReportsApart
=============================================================================
