------------------------------ MODULE Linking -------------------------------
(***************************************************************************)
(* How children and parents find each other (bot/onboarding, db/repo.py):  *)
(* accounts, profiles, invitations by link and by code, consents and their *)
(* renewal.                                                                *)
(*                                                                         *)
(* Updates of one user are routed one at a time (`_user_locks`), those of  *)
(* different users interleave at every await and every statement that may  *)
(* wait for a row lock.  Reads and writes that only the user's own updates *)
(* touch are merged with the step beside them.                             *)
(***************************************************************************)
EXTENDS Integers, FiniteSets

CONSTANTS Users,            \* accounts of MAX
          Profiles,         \* ids of student_profiles
          Invites,          \* invitations, each with its link and its code
          Handlers,         \* updates in processing
          Policies,         \* values of POLICY_VERSION, a later deploy has a larger one
          CodeAttempts,     \* CODE_ATTEMPTS
          NoUser, NoProfile, NoInvite

ASSUME LinkingAssumption ==
    /\ NoUser \notin Users /\ NoProfile \notin Profiles /\ NoInvite \notin Invites
    /\ Policies \subseteq Nat \ {0}
    /\ CodeAttempts \in Nat

VARIABLES role,         \* users: the role of an account, "none" without one
          profile,      \* student_profiles
          consents,     \* rows of consents
          invite,       \* invites
          pending,      \* OnboardingState.pending_invite, and the policy its screen named
          attempts,     \* login_attempts within the window
          policy,       \* POLICY_VERSION of the running process
          at            \* per update: where its handler stands

tables == <<role, profile, consents, invite>>
vars == <<role, profile, consents, invite, pending, attempts, policy, at>>

Kinds == {"student_invites_parent", "parent_invites_student"}

FreeProfile == [kind |-> "none", user |-> NoUser, parent |-> NoUser, subject |-> FALSE]
FreeInvite == [kind |-> "none", by |-> NoUser, version |-> 0, used |-> FALSE,
               usedBy |-> NoUser, live |-> FALSE]
NoLink == [invite |-> NoInvite, screen |-> 0]
Idle == [step |-> "idle", user |-> NoUser, profile |-> NoProfile, invite |-> NoInvite,
         live |-> FALSE]

\* A handler of user u at `step`, with the profile and the invitation it works on.
At(step, u, p, i) == [step |-> step, user |-> u, profile |-> p, invite |-> i, live |-> FALSE]

Steps == {"idle", "start", "offer", "invite", "consent", "counted", "opened",
          "join", "joinNew", "joinOwn", "joinLocked",
          "accept", "acceptLocked", "acceptRead", "decline", "declineLocked", "answered"}

TypeOK ==
    /\ role \in [Users -> {"none", "student", "parent"}]
    /\ profile \in [Profiles -> [kind : {"none", "row", "gone"}, user : Users \cup {NoUser},
                                 parent : Users \cup {NoUser}, subject : BOOLEAN]]
    /\ consents \subseteq [profile : Profiles, parent : Users, child : Users \cup {NoUser},
                           version : Policies, active : BOOLEAN]
    /\ invite \in [Invites -> [kind : Kinds \cup {"none"}, by : Users \cup {NoUser},
                               version : Policies \cup {0}, used : BOOLEAN,
                               usedBy : Users \cup {NoUser}, live : BOOLEAN]]
    /\ pending \in [Users -> [invite : Invites \cup {NoInvite}, screen : Policies \cup {0}]]
    /\ attempts \in [Users -> Nat]
    /\ policy \in Policies
    /\ at \in [Handlers -> [step : Steps, user : Users \cup {NoUser},
                            profile : Profiles \cup {NoProfile},
                            invite : Invites \cup {NoInvite}, live : BOOLEAN]]

Init ==
    /\ role = [u \in Users |-> "none"]
    /\ profile = [p \in Profiles |-> FreeProfile]
    /\ consents = {}
    /\ invite = [i \in Invites |-> FreeInvite]
    /\ pending = [u \in Users |-> NoLink]
    /\ attempts = [u \in Users |-> 0]
    /\ policy \in {v \in Policies : \A w \in Policies : v <= w}
    /\ at = [h \in Handlers |-> Idle]

-----------------------------------------------------------------------------
(* Reads of the tables.                                                    *)

Own(u) == {p \in Profiles : profile[p].kind = "row" /\ profile[p].user = u}
ChildrenOf(u) == {p \in Profiles : profile[p].kind = "row" /\ profile[p].parent = u}
Consented(p) == \E c \in consents : c.profile = p /\ c.active

\* Children of grades 1-4 without a consent.
UnfinishedOf(u) == {p \in ChildrenOf(u) : profile[p].user = NoUser /\ ~Consented(p)}

\* `_position`: the step of the dialog user u is in, with the profile it is about.
InStep(u, step, p) ==
    \/ /\ role[u] = "none"
       /\ step = "role"
    \/ /\ role[u] = "student" /\ p \in Own(u)
       /\ step = IF ~profile[p].subject THEN "student_subject"
                 ELSE IF Consented(p) THEN "student_ready" ELSE "waiting_parent"
    \/ /\ role[u] = "parent" /\ p \in UnfinishedOf(u)
       /\ step = IF ~profile[p].subject THEN "child_subject" ELSE "child_consent"

\* `_parent_side`: a parent, or a user without an account.
ParentSide(u) == role[u] # "student"

\* Mutant of Enter: no lock per user.
EnterUnlocked(h, u) == at[h].step = "idle"

\* Whether an update of user u may be routed by h: the lock of the user is free.
Enter(h, u) == /\ at[h].step = "idle"
               /\ \A g \in Handlers : at[g].user # u

Goto(h, step) == at' = [at EXCEPT ![h].step = step]
Leave(h) == at' = [at EXCEPT ![h] = Idle]

\* Row locks: a transaction keeps what it has locked until its commit.
InviteLocked(i) == \E h \in Handlers :
    /\ at[h].invite = i
    /\ at[h].step \in {"joinNew", "joinOwn", "joinLocked", "acceptLocked", "acceptRead",
                       "declineLocked"}
ProfileLocked(p) == \E h \in Handlers :
    at[h].profile = p /\ at[h].step \in {"joinLocked", "acceptRead"}

Consent(p, q, c, v) == [profile |-> p, parent |-> q, child |-> c, version |-> v, active |-> TRUE]
Redeem(i, u) == invite' = [invite EXCEPT ![i].used = TRUE, ![i].usedBy = u]

-----------------------------------------------------------------------------
(* The student: grade, subject, link for the parent.                       *)

\* `_grade`, create_student: account and profile in one transaction.
RegisterStudent(h, u, p) ==
    /\ Enter(h, u)
    /\ InStep(u, "role", p) /\ profile[p].kind = "none"
    /\ role' = [role EXCEPT ![u] = "student"]
    /\ profile' = [profile EXCEPT ![p] = [FreeProfile EXCEPT !.kind = "row", !.user = u]]
    /\ UNCHANGED <<consents, invite, pending, attempts, policy, at>>

\* `_subject` of a student: whether a link for the parent is needed was read before.
ChooseSubject(h, u, p) ==
    /\ Enter(h, u)
    /\ InStep(u, "student_subject", p)
    /\ profile' = [profile EXCEPT ![p].subject = TRUE]
    /\ at' = IF Consented(p) THEN at ELSE [at EXCEPT ![h] = At("invite", u, p, NoInvite)]
    /\ UNCHANGED <<role, consents, invite, pending, attempts, policy>>

\* `_resend`: a student without a consent asks for a new link.
AskAgain(h, u, p) ==
    /\ Enter(h, u)
    /\ InStep(u, "waiting_parent", p)
    /\ at' = [at EXCEPT ![h] = At("invite", u, p, NoInvite)]
    /\ UNCHANGED <<tables, pending, attempts, policy>>

\* invite_parent, create_invite.
InviteParent(h, i) ==
    /\ at[h].step = "invite" /\ invite[i].kind = "none"
    /\ invite' = [invite EXCEPT ![i] = [FreeInvite EXCEPT !.kind = "student_invites_parent",
                                                          !.by = at[h].user, !.live = TRUE]]
    /\ Leave(h)
    /\ UNCHANGED <<role, profile, consents, pending, attempts, policy>>

-----------------------------------------------------------------------------
(* The parent: children of grades 1-4, link for an older child.            *)

\* `_parent_grade` and `_parent_consent`: the account of the parent comes first.
BecomeParent(h, u) ==
    /\ Enter(h, u)
    /\ ParentSide(u)
    /\ role' = [role EXCEPT ![u] = "parent"]
    /\ \E step \in {"start", "offer"} : at' = [at EXCEPT ![h] = At(step, u, NoProfile, NoInvite)]
    /\ UNCHANGED <<profile, consents, invite, pending, attempts, policy>>

\* Mutant of StartChild: the delete does not look at the consents.
StartAlone(h, p) ==
    LET u == at[h].user IN
    /\ at[h].step = "start" /\ profile[p].kind = "none"
    /\ profile' = [x \in Profiles |->
                      IF x = p THEN [FreeProfile EXCEPT !.kind = "row", !.parent = u]
                      ELSE IF x \in ChildrenOf(u) /\ profile[x].user = NoUser
                      THEN [FreeProfile EXCEPT !.kind = "gone"]
                      ELSE profile[x]]
    /\ Leave(h)
    /\ UNCHANGED <<role, consents, invite, pending, attempts, policy>>

\* start_child_by_parent: a child without a consent is replaced.
StartChild(h, p) ==
    LET u == at[h].user IN
    /\ at[h].step = "start" /\ profile[p].kind = "none"
    /\ profile' = [x \in Profiles |->
                      IF x = p THEN [FreeProfile EXCEPT !.kind = "row", !.parent = u]
                      ELSE IF x \in UnfinishedOf(u) THEN [FreeProfile EXCEPT !.kind = "gone"]
                      ELSE profile[x]]
    /\ Leave(h)
    /\ UNCHANGED <<role, consents, invite, pending, attempts, policy>>

\* Mutant of OfferLink: the link does not say which policy was agreed to.
OfferBareLink(h, i) ==
    /\ at[h].step = "offer" /\ invite[i].kind = "none"
    /\ invite' = [invite EXCEPT ![i] = [FreeInvite EXCEPT !.kind = "parent_invites_student",
                                                          !.by = at[h].user, !.live = TRUE]]
    /\ Leave(h)
    /\ UNCHANGED <<role, profile, consents, pending, attempts, policy>>

\* invite_child: the consent is given here, the link carries it with its policy.
OfferLink(h, i) ==
    /\ at[h].step = "offer" /\ invite[i].kind = "none"
    /\ invite' = [invite EXCEPT ![i] = [FreeInvite EXCEPT !.kind = "parent_invites_student",
                                                          !.by = at[h].user, !.live = TRUE,
                                                          !.version = policy]]
    /\ Leave(h)
    /\ UNCHANGED <<role, profile, consents, pending, attempts, policy>>

\* `_subject` of a parent.
ChooseChildSubject(h, u, p) ==
    /\ Enter(h, u)
    /\ InStep(u, "child_subject", p)
    /\ profile' = [profile EXCEPT ![p].subject = TRUE]
    /\ UNCHANGED <<role, consents, invite, pending, attempts, policy, at>>

\* `_consent`: the unfinished child was read with the position,
AgreeForChild(h, u, p) ==
    /\ Enter(h, u)
    /\ InStep(u, "child_consent", p)
    /\ at' = [at EXCEPT ![h] = At("consent", u, p, NoInvite)]
    /\ UNCHANGED <<tables, pending, attempts, policy>>

\* and give_parent_consent looks at the consents only, not at the profile.
GiveConsent(h) ==
    LET p == at[h].profile IN
    /\ at[h].step = "consent"
    /\ consents' = IF Consented(p) THEN consents
                   ELSE consents \cup {Consent(p, at[h].user, NoUser, policy)}
    /\ Leave(h)
    /\ UNCHANGED <<role, profile, invite, pending, attempts, policy>>

\* renew_consent: the consent in force is revoked and a new one takes its place.
RenewConsent(h, u, c) ==
    /\ Enter(h, u)
    /\ role[u] = "parent"
    /\ c \in consents /\ c.active
    /\ c.profile \in ChildrenOf(u)
    /\ c.version # policy
    /\ consents' = (consents \ {c}) \cup {[c EXCEPT !.active = FALSE],
                                          Consent(c.profile, u, c.child, policy)}
    /\ UNCHANGED <<role, profile, invite, pending, attempts, policy, at>>

-----------------------------------------------------------------------------
(* Opening an invitation, by its link or by its code.                      *)

\* open_code: the attempts within the window are counted; a student with a consent has no need
\* of codes.
EnterCode(h, u, i) ==
    /\ Enter(h, u)
    /\ ~\E p \in Profiles : InStep(u, "student_ready", p)
    /\ attempts[u] < CodeAttempts
    /\ at' = [at EXCEPT ![h] = At("counted", u, NoProfile, i)]
    /\ UNCHANGED <<tables, pending, attempts, policy>>

\* `_precheck`, what it asks of the invitation and of the account.
Openable(u, i) ==
    /\ invite[i].kind # "none" /\ ~invite[i].used /\ invite[i].live
    /\ role[u] \in {"none", IF invite[i].kind = "student_invites_parent"
                            THEN "parent" ELSE "student"}

Opens(h, u, i) == at' = [at EXCEPT ![h] = At("opened", u, NoProfile, i)]

\* The attempt is recorded, and the invitation is read; a wrong code leads nowhere.
RecordAttempt(h) ==
    LET u == at[h].user  i == at[h].invite IN
    /\ at[h].step = "counted"
    /\ attempts' = [attempts EXCEPT ![u] = @ + 1]
    /\ IF i \in Invites /\ Openable(u, i) THEN Opens(h, u, i) ELSE Leave(h)
    /\ UNCHANGED <<tables, pending, policy>>

OpenLink(h, u, i) ==
    /\ Enter(h, u)
    /\ Openable(u, i)
    /\ Opens(h, u, i)
    /\ UNCHANGED <<tables, pending, attempts, policy>>

\* The child an invitation is about: its author, or the student who opens it.
ChildAccount(u, i) == IF invite[i].kind = "student_invites_parent" THEN invite[i].by ELSE u
HasParent(u) == \E p \in Own(u) : profile[p].parent # NoUser

\* The rest of `_precheck` and of `_open`: a child who has a parent is refused,
RefuseOpened(h) ==
    /\ at[h].step = "opened" /\ HasParent(ChildAccount(at[h].user, at[h].invite))
    /\ Leave(h)
    /\ UNCHANGED <<tables, pending, attempts, policy>>

\* a parent is shown the screen of the consent, which names the policy,
ShowConsent(h) ==
    LET u == at[h].user  i == at[h].invite IN
    /\ at[h].step = "opened" /\ invite[i].kind = "student_invites_parent"
    /\ ~HasParent(ChildAccount(u, i))
    /\ pending' = [pending EXCEPT ![u] = [invite |-> i, screen |-> policy]]
    /\ Leave(h)
    /\ UNCHANGED <<tables, attempts, policy>>

\* and a child goes on to accept_child_invite with the time of now.
JoinByLink(h) ==
    LET u == at[h].user  i == at[h].invite IN
    /\ at[h].step = "opened" /\ invite[i].kind = "parent_invites_student"
    /\ ~HasParent(ChildAccount(u, i))
    /\ at' = [at EXCEPT ![h].step = "join", ![h].live = invite[i].live]
    /\ UNCHANGED <<tables, pending, attempts, policy>>

-----------------------------------------------------------------------------
(* accept_child_invite: parent and consent for the child who opened a link.*)

\* `_lock_usable` would hand out the row, once nobody else holds it.
Usable(h) == ~invite[at[h].invite].used /\ at[h].live

\* Mutant of LockForChild: the invitation is read without FOR UPDATE.
ReadForChild(h) ==
    /\ at[h].step = "join"
    /\ IF Usable(h)
       THEN Goto(h, IF role[at[h].user] = "none" THEN "joinNew" ELSE "joinOwn")
       ELSE Leave(h)
    /\ UNCHANGED <<tables, pending, attempts, policy>>

\* Mutant of LockForChild: whoever opens the link is taken for a new user.
LockForNewChild(h) ==
    /\ at[h].step = "join" /\ ~InviteLocked(at[h].invite)
    /\ IF Usable(h) THEN Goto(h, "joinNew") ELSE Leave(h)
    /\ UNCHANGED <<tables, pending, attempts, policy>>

LockForChild(h) ==
    /\ at[h].step = "join" /\ ~InviteLocked(at[h].invite)
    /\ IF Usable(h)
       THEN Goto(h, IF role[at[h].user] = "none" THEN "joinNew" ELSE "joinOwn")
       ELSE Leave(h)
    /\ UNCHANGED <<tables, pending, attempts, policy>>

Agreed(h, p) ==
    LET u == at[h].user  row == invite[at[h].invite] IN
    /\ consents' = consents \cup {Consent(p, row.by, u, row.version)}
    /\ Redeem(at[h].invite, u)
    /\ Leave(h)

\* A child without an account: the insert of the account has no ON CONFLICT.
JoinNew(h, p) ==
    LET u == at[h].user IN
    /\ at[h].step = "joinNew" /\ profile[p].kind = "none"
    /\ role' = [role EXCEPT ![u] = "student"]
    /\ profile' = [profile EXCEPT ![p] = [FreeProfile EXCEPT !.kind = "row", !.user = u,
                                                !.parent = invite[at[h].invite].by]]
    /\ Agreed(h, p)
    /\ UNCHANGED <<pending, attempts, policy>>

\* Mutant of LockOwnProfile: the profile is read without FOR UPDATE.
ReadOwnProfile(h, p) ==
    /\ at[h].step = "joinOwn" /\ p \in Own(at[h].user)
    /\ IF profile[p].parent # NoUser
       THEN Leave(h)
       ELSE at' = [at EXCEPT ![h].step = "joinLocked", ![h].profile = p]
    /\ UNCHANGED <<tables, pending, attempts, policy>>

\* A student with a profile: its row is locked, and read once the lock is there.
LockOwnProfile(h, p) ==
    /\ at[h].step = "joinOwn" /\ p \in Own(at[h].user) /\ ~ProfileLocked(p)
    /\ IF profile[p].parent # NoUser
       THEN Leave(h)
       ELSE at' = [at EXCEPT ![h].step = "joinLocked", ![h].profile = p]
    /\ UNCHANGED <<tables, pending, attempts, policy>>

JoinOwn(h) ==
    LET p == at[h].profile IN
    /\ at[h].step = "joinLocked"
    /\ profile' = [profile EXCEPT ![p].parent = invite[at[h].invite].by]
    /\ Agreed(h, p)
    /\ UNCHANGED <<role, pending, attempts, policy>>

-----------------------------------------------------------------------------
(* accept_parent_invite and decline_parent_invite: the answer of a parent. *)

\* The tag of the button is the one of the link that waits for the answer.
Answer(h, u) ==
    LET i == pending[u].invite IN
    /\ Enter(h, u)
    /\ ParentSide(u) /\ i # NoInvite
    /\ \E step \in {"accept", "decline"} :
          at' = [at EXCEPT ![h] = [At(step, u, NoProfile, i) EXCEPT !.live = invite[i].live]]
    /\ UNCHANGED <<tables, pending, attempts, policy>>

\* Both lock the invitation first.
LockForParent(h) ==
    /\ at[h].step \in {"accept", "decline"} /\ ~InviteLocked(at[h].invite)
    /\ Goto(h, IF ~Usable(h) THEN "answered"
               ELSE IF at[h].step = "accept" THEN "acceptLocked" ELSE "declineLocked")
    /\ UNCHANGED <<tables, pending, attempts, policy>>

\* Mutant of LockForAccept: the profile is read without FOR UPDATE.
ReadForAccept(h, p) ==
    /\ at[h].step = "acceptLocked" /\ p \in Own(invite[at[h].invite].by)
    /\ at' = IF profile[p].parent # NoUser
             THEN [at EXCEPT ![h].step = "answered"]
             ELSE [at EXCEPT ![h].step = "acceptRead", ![h].profile = p]
    /\ UNCHANGED <<tables, pending, attempts, policy>>

\* accept: then the profile of the child, where another parent may have been quicker.
LockForAccept(h, p) ==
    /\ at[h].step = "acceptLocked" /\ p \in Own(invite[at[h].invite].by) /\ ~ProfileLocked(p)
    /\ at' = IF profile[p].parent # NoUser
             THEN [at EXCEPT ![h].step = "answered"]
             ELSE [at EXCEPT ![h].step = "acceptRead", ![h].profile = p]
    /\ UNCHANGED <<tables, pending, attempts, policy>>

\* Account, parent, consent by the policy of today, redemption; commit.
AcceptLink(h) ==
    LET u == at[h].user  p == at[h].profile  i == at[h].invite IN
    /\ at[h].step = "acceptRead"
    /\ role' = [role EXCEPT ![u] = "parent"]
    /\ profile' = [profile EXCEPT ![p].parent = u]
    /\ consents' = consents \cup {Consent(p, u, invite[i].by, policy)}
    /\ Redeem(i, u)
    /\ Goto(h, "answered")
    /\ UNCHANGED <<pending, attempts, policy>>

\* decline: whatever the profile says, the invitation is used up, by nobody.
DeclineLink(h, p) ==
    /\ at[h].step = "declineLocked" /\ p \in Own(invite[at[h].invite].by) /\ ~ProfileLocked(p)
    /\ Redeem(at[h].invite, NoUser)
    /\ Goto(h, "answered")
    /\ UNCHANGED <<role, profile, consents, pending, attempts, policy>>

\* The state read before the transaction is written back without the link.
ClearPending(h) ==
    /\ at[h].step = "answered"
    /\ pending' = [pending EXCEPT ![at[h].user] = NoLink]
    /\ Leave(h)
    /\ UNCHANGED <<tables, attempts, policy>>

-----------------------------------------------------------------------------
(* Time, failures, deploys.                                                *)

\* INVITE_TTL_DAYS, ONBOARDING_TTL_S and CODE_WINDOW pass; once an invitation is used up, its
\* time is not looked at.
Expire(i) == /\ invite[i].live /\ ~invite[i].used
             /\ invite' = [invite EXCEPT ![i].live = FALSE]
             /\ UNCHANGED <<role, profile, consents, pending, attempts, policy, at>>

Forget(u) == /\ pending[u] # NoLink
             /\ pending' = [pending EXCEPT ![u] = NoLink]
             /\ UNCHANGED <<tables, attempts, policy, at>>

WindowPasses(u) == /\ attempts[u] > 0
                   /\ \E n \in 0 .. attempts[u] - 1 : attempts' = [attempts EXCEPT ![u] = n]
                   /\ UNCHANGED <<tables, pending, policy, at>>

\* The database, Redis or MAX fails: the update ends, an open transaction rolls back.  A crash
\* of the process ends all updates so.
Fail(h) == /\ at[h].step # "idle"
           /\ Leave(h)
           /\ UNCHANGED <<tables, pending, attempts, policy>>

\* A new process, with a newer policy.
Deploy(v) == /\ v > policy
             /\ policy' = v
             /\ at' = [h \in Handlers |-> Idle]
             /\ UNCHANGED <<tables, pending, attempts>>

Students(h) ==
    \/ \E u \in Users, p \in Profiles :
          RegisterStudent(h, u, p) \/ ChooseSubject(h, u, p) \/ AskAgain(h, u, p)
    \/ \E i \in Invites : InviteParent(h, i)

ParentSteps(h) ==
    \/ \E u \in Users : BecomeParent(h, u)
    \/ \E u \in Users, p \in Profiles : ChooseChildSubject(h, u, p) \/ AgreeForChild(h, u, p)
    \/ \E u \in Users, c \in consents : RenewConsent(h, u, c)
    \/ \E p \in Profiles : StartChild(h, p)
    \/ \E i \in Invites : OfferLink(h, i)
    \/ GiveConsent(h)

Opening(h) ==
    \/ \E u \in Users, i \in Invites : OpenLink(h, u, i)
    \/ \E u \in Users, i \in Invites \cup {NoInvite} : EnterCode(h, u, i)
    \/ RecordAttempt(h) \/ RefuseOpened(h) \/ ShowConsent(h) \/ JoinByLink(h)

Accepting(h) ==
    \/ LockForChild(h) \/ JoinOwn(h)
    \/ \E p \in Profiles : JoinNew(h, p) \/ LockOwnProfile(h, p)
    \/ \E u \in Users : Answer(h, u)
    \/ LockForParent(h) \/ AcceptLink(h) \/ ClearPending(h)
    \/ \E p \in Profiles : LockForAccept(h, p) \/ DeclineLink(h, p)

Environment ==
    \/ \E i \in Invites : Expire(i)
    \/ \E u \in Users : Forget(u) \/ WindowPasses(u)
    \/ \E h \in Handlers : Fail(h)
    \/ \E v \in Policies : Deploy(v)

Next == (\E h \in Handlers : Students(h) \/ ParentSteps(h) \/ Opening(h) \/ Accepting(h))
        \/ Environment

Spec == Init /\ [][Next]_vars

-----------------------------------------------------------------------------
(* Properties.                                                             *)

\* A student has exactly one profile and nobody else has one; a child's parent has an account of
\* a parent.  `_position` fails on a student without a profile.
AccountsMatchProfiles ==
    /\ \A u \in Users : \E s \in SUBSET Profiles :
          s = Own(u) /\ Cardinality(s) = IF role[u] = "student" THEN 1 ELSE 0
    /\ \A p \in Profiles : profile[p].parent # NoUser => role[profile[p].parent] = "parent"

\* A child has at most one consent in force, and it is the consent of its parent; a child with
\* an account has a parent only together with a consent.  The tables have no foreign key from
\* consents, and the unique index on them must never be what stops a transaction.
ConsentsMatchFamilies ==
    /\ \A c \in consents : c.active =>
          /\ profile[c.profile].kind = "row"
          /\ profile[c.profile].parent = c.parent
          /\ profile[c.profile].user = c.child
          /\ \A d \in consents : d.active /\ d.profile = c.profile => d = c
    /\ \A p \in Profiles : profile[p].user # NoUser /\ profile[p].parent # NoUser => Consented(p)

\* What accept_child_invite read of the account still holds when it inserts it, so that the
\* insert cannot fail; and a profile read for a new parent still has none.
ReadsStand == \A h \in Handlers :
    /\ at[h].step = "joinNew" => role[at[h].user] = "none"
    /\ at[h].step \in {"joinLocked", "acceptRead"} => profile[at[h].profile].parent = NoUser

\* An invitation is redeemed once: who used it, if anybody, never changes.
RedeemedOnce == [][\A i \in Invites : invite[i].used =>
                      invite'[i].used /\ invite'[i].usedBy = invite[i].usedBy]_vars

\* An answer takes away the link it answers, never one that was opened meanwhile.
AnswersItsLink == [][\A h \in Handlers : ClearPending(h) =>
                        pending[at[h].user] = NoLink
                        \/ pending[at[h].user].invite = at[h].invite]_vars

\* The consent is to the policy the parent was shown.
ConsentAsShown == [][\A h \in Handlers : AcceptLink(h) /\ pending[at[h].user].invite # NoInvite =>
                        pending[at[h].user].screen = policy]_vars

-----------------------------------------------------------------------------
(* The families the onboarding promises.                                   *)

PolicyOf(p) == IF Consented(p)
               THEN (CHOOSE c \in consents : c.profile = p /\ c.active).version ELSE 0

ChildOf(p) == [kind |-> IF profile[p].kind # "row" THEN profile[p].kind
                        ELSE IF profile[p].user # NoUser THEN "own" ELSE "young",
               parent |-> profile[p].parent,
               policy |-> PolicyOf(p)]

F == INSTANCE Family WITH Parents <- Users, Children <- Profiles, Nobody <- NoUser,
                          child <- [p \in Profiles |-> ChildOf(p)]

\* The onboarding implements Family.
ImplementsFamily == F!Spec

\* Accounts, profiles and consents, which live in tables without a foreign key between them, tell
\* one story after every transaction, and what a transaction has read still holds when it writes.
MembersMatch == TypeOK /\ AccountsMatchProfiles /\ ConsentsMatchFamilies /\ ReadsStand

\* A link counts once: who used an invitation stays who used it, and an answer takes away the link
\* it answers and no other.
LinksAnsweredOnce == RedeemedOnce /\ AnswersItsLink
=============================================================================
