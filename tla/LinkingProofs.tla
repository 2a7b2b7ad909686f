--------------------------- MODULE LinkingProofs ----------------------------
(***************************************************************************)
(* Proofs about how children and parents find each other.  The invariant   *)
(* LInv has these parts:                                                   *)
(*   Rows      a profile that is no row says nothing;                      *)
(*   Roles     accounts and profiles agree: a student has one profile, a   *)
(*             child's parent is one;                                      *)
(*   Links     who made an invitation has the role it takes, and an answer *)
(*             is awaited for a student's invitation only;                 *)
(*   Versions  no consent is to a policy that is still to come;            *)
(*   OneUpdate, OneTransaction                                             *)
(*             the locks: of a user, of an invitation, of a profile;       *)
(*   Stands    what an update in processing has read still holds.          *)
(***************************************************************************)
EXTENDS Linking, FiniteSetTheorems, TLAPS

FromStudent == "student_invites_parent"
FromParent  == "parent_invites_student"

\* Steps that hold the lock of the invitation, those that hold the lock of a profile, and those
\* of a parent's answer.
Locking   == {"joinNew", "joinOwn", "joinLocked", "acceptLocked", "acceptRead", "declineLocked"}
Reading   == {"joinLocked", "acceptRead"}
Answering == {"accept", "acceptLocked", "acceptRead", "decline", "declineLocked", "answered"}

Rows == \A p \in Profiles :
    profile[p].kind # "row" => profile[p].user = NoUser /\ profile[p].parent = NoUser

Roles ==
    /\ \A p \in Profiles : profile[p].user # NoUser => role[profile[p].user] = "student"
    /\ \A p \in Profiles : profile[p].parent # NoUser => role[profile[p].parent] = "parent"
    /\ \A u \in Users : role[u] = "student" => \E p \in Profiles : profile[p].user = u
    /\ \A p, q \in Profiles : profile[p].user = profile[q].user => p = q \/ profile[p].user = NoUser

Links ==
    /\ \A i \in Invites :
          /\ invite[i].kind = "none" => ~invite[i].used
          /\ invite[i].kind = FromStudent => invite[i].by \in Users /\ role[invite[i].by] = "student"
          /\ invite[i].kind = FromParent => /\ invite[i].by \in Users
                                            /\ role[invite[i].by] = "parent"
                                            /\ invite[i].version \in Policies
                                            /\ invite[i].version <= policy
    /\ \A u \in Users : \/ pending[u] = NoLink
                       \/ /\ pending[u].invite \in Invites
                          /\ invite[pending[u].invite].kind = FromStudent

Versions == \A c \in consents : c.version <= policy

OneUpdate == \A g, h \in Handlers : at[g].user = at[h].user => g = h \/ at[g].user = NoUser

OneTransaction == \A g, h \in Handlers :
    /\ at[g].step \in Locking /\ at[h].step \in Locking /\ at[g].invite = at[h].invite => g = h
    /\ at[g].step \in Reading /\ at[h].step \in Reading /\ at[g].profile = at[h].profile => g = h

Stands(h) ==
    LET s == at[h].step  u == at[h].user  p == at[h].profile  i == at[h].invite IN
    /\ s = "idle" <=> u = NoUser
    /\ s = "invite" => role[u] = "student"
    /\ s \in {"start", "offer"} => role[u] = "parent"
    /\ s = "consent" => /\ p \in Profiles
                        /\ profile[p].kind = "row"
                        /\ profile[p].parent = u
                        /\ profile[p].user = NoUser
    /\ s = "opened" => /\ i \in Invites
                       /\ invite[i].kind # "none"
                       /\ invite[i].kind = FromStudent => role[u] # "student"
                       /\ invite[i].kind = FromParent => role[u] # "parent"
    /\ s \in {"join", "joinNew", "joinOwn", "joinLocked"} =>
          i \in Invites /\ invite[i].kind = FromParent /\ role[u] # "parent"
    /\ s = "joinNew" => role[u] = "none"
    /\ s \in {"joinOwn", "joinLocked"} => role[u] = "student"
    /\ s \in Answering => /\ i \in Invites
                          /\ invite[i].kind = FromStudent
                          /\ role[u] # "student"
                          /\ pending[u] = NoLink \/ pending[u].invite = i
    /\ s \in Locking => ~invite[i].used
    /\ s \in Reading => /\ p \in Profiles
                        /\ profile[p].kind = "row"
                        /\ profile[p].parent = NoUser
                        /\ profile[p].user = IF s = "joinLocked" THEN u ELSE invite[i].by

LInv ==
    /\ TypeOK
    /\ Rows
    /\ Roles
    /\ Links
    /\ ConsentsMatchFamilies
    /\ Versions
    /\ OneUpdate
    /\ OneTransaction
    /\ \A h \in Handlers : Stands(h)

-----------------------------------------------------------------------------
(***************************************************************************)
(* What a step leaves to the updates that do not take it.                  *)
(***************************************************************************)

Update == [step : Steps, user : Users \cup {NoUser}, profile : Profiles \cup {NoProfile},
           invite : Invites \cup {NoInvite}, live : BOOLEAN]

Row(p) == <<profile[p].kind, profile[p].user, profile[p].parent>>

\* The step leaves alone what update g stands on.
Kept(g) ==
    LET s == at[g].step  u == at[g].user  p == at[g].profile  i == at[g].invite IN
    /\ at'[g] = at[g]
    /\ u \in Users => role'[u] = role[u] /\ (pending'[u] = pending[u] \/ pending'[u] = NoLink)
    /\ i \in Invites /\ invite[i].kind # "none" =>
          invite'[i].kind = invite[i].kind /\ invite'[i].by = invite[i].by
    /\ i \in Invites /\ s \in Locking => invite'[i].used = invite[i].used
    /\ p \in Profiles /\ s \in Reading \cup {"consent"} => Row(p)' = Row(p)

LEMMA UpdateTyped ==
    ASSUME TypeOK, NEW h \in Handlers
    PROVE  /\ at \in [Handlers -> Update]
           /\ at[h] \in Update
           /\ at[h].step \in Steps
           /\ at[h].user \in Users \cup {NoUser}
           /\ at[h].profile \in Profiles \cup {NoProfile}
           /\ at[h].invite \in Invites \cup {NoInvite}
BY DEF TypeOK, Update

LEMMA IdleTyped == Idle \in Update /\ Idle.step = "idle" /\ Idle.user = NoUser
BY DEF Idle, Update, Steps

LEMMA StandsOn ==
    ASSUME TypeOK, NEW g \in Handlers, Stands(g), Kept(g)
    PROVE  Stands(g)'
<1> DEFINE s == at[g].step
<1> DEFINE u == at[g].user
<1> DEFINE p == at[g].profile
<1> DEFINE i == at[g].invite
<1>1. at'[g].step = s /\ at'[g].user = u /\ at'[g].profile = p /\ at'[g].invite = i
  BY DEF Kept
<1>2. s # "idle" => u \in Users
  BY UpdateTyped DEF Stands
<1>3. s # "idle" => role'[u] = role[u] /\ (pending'[u] = pending[u] \/ pending'[u] = NoLink)
  BY <1>2 DEF Kept
<1>4. i \in Invites /\ invite[i].kind # "none" =>
          invite'[i].kind = invite[i].kind /\ invite'[i].by = invite[i].by
  BY DEF Kept
<1>5. i \in Invites /\ s \in Locking => invite'[i].used = invite[i].used
  BY DEF Kept
<1>6. p \in Profiles /\ s \in Reading \cup {"consent"} =>
          /\ profile'[p].kind = profile[p].kind
          /\ profile'[p].user = profile[p].user
          /\ profile'[p].parent = profile[p].parent
  BY DEF Kept, Row
<1> QED
  BY <1>1, <1>3, <1>4, <1>5, <1>6
  DEF Stands, Locking, Reading, Answering, FromStudent, FromParent

\* Update h moves on to r, and the locks it takes were free.
Moves(h, r) ==
    /\ r \in Update
    /\ at' = [at EXCEPT ![h] = r]
    /\ \/ r.user = NoUser
       \/ r.user = at[h].user
       \/ \A g \in Handlers : at[g].user # r.user
    /\ r.step \in Locking => \/ at[h].step \in Locking /\ at[h].invite = r.invite
                             \/ ~InviteLocked(r.invite)
    /\ r.step \in Reading => \/ at[h].step \in Reading /\ at[h].profile = r.profile
                             \/ ~ProfileLocked(r.profile)

LEMMA OthersStay ==
    ASSUME TypeOK, NEW h \in Handlers, NEW r, Moves(h, r)
    PROVE  /\ at' \in [Handlers -> Update]
           /\ at'[h] = r
           /\ \A g \in Handlers : g # h => at'[g] = at[g]
BY UpdateTyped DEF Moves

LEMMA LocksHold ==
    ASSUME TypeOK, OneUpdate, OneTransaction, NEW h \in Handlers, NEW r, Moves(h, r)
    PROVE  OneUpdate' /\ OneTransaction'
<1>1. /\ at'[h] = r
      /\ \A g \in Handlers : g # h => at'[g] = at[g]
  BY OthersStay
<1>2. OneUpdate'
  BY <1>1 DEF OneUpdate, Moves
<1>3. ASSUME NEW f \in Handlers, NEW g \in Handlers,
             at'[f].step \in Locking, at'[g].step \in Locking, at'[f].invite = at'[g].invite
      PROVE  f = g
  BY <1>1, <1>3 DEF OneTransaction, Moves, InviteLocked, Locking
<1>4. ASSUME NEW f \in Handlers, NEW g \in Handlers,
             at'[f].step \in Reading, at'[g].step \in Reading, at'[f].profile = at'[g].profile
      PROVE  f = g
  BY <1>1, <1>4 DEF OneTransaction, Moves, ProfileLocked, Reading
<1> QED
  BY <1>2, <1>3, <1>4 DEF OneTransaction

\* An update that only moves on: the tables and the links that wait stay.
LEMMA OnlyMoves ==
    ASSUME LInv, NEW h \in Handlers, NEW r, Moves(h, r), Stands(h)',
           UNCHANGED <<tables, pending, policy>>, attempts' \in [Users -> Nat]
    PROVE  LInv'
<1> USE DEF LInv
<1>1. UNCHANGED <<role, profile, consents, invite, pending, policy>>
  BY DEF tables
<1>2. /\ at' \in [Handlers -> Update]
      /\ \A g \in Handlers : g # h => at'[g] = at[g]
  BY OthersStay
<1>3. TypeOK'
  BY <1>1, <1>2 DEF TypeOK, Update
<1>4. Rows' /\ Roles' /\ Links' /\ Versions'
  BY <1>1 DEF Rows, Roles, Links, Versions
<1>5. ConsentsMatchFamilies'
  BY <1>1 DEF ConsentsMatchFamilies, Consented
<1>6. OneUpdate' /\ OneTransaction'
  BY LocksHold
<1>7. ASSUME NEW g \in Handlers
      PROVE  Stands(g)'
  <2>1. CASE g = h
    BY <2>1
  <2>2. CASE g # h
    <3>1. Kept(g)
      BY <1>1, <1>2, <2>2 DEF Kept, Row
    <3> QED
      BY <3>1, StandsOn
  <2> QED
    BY <2>1, <2>2
<1> QED
  BY <1>3, <1>4, <1>5, <1>6, <1>7

LEMMA Leaves ==
    ASSUME TypeOK, NEW h \in Handlers, Leave(h)
    PROVE  Moves(h, Idle) /\ Stands(h)'
<1>1. Moves(h, Idle)
  BY IdleTyped DEF Leave, Moves, Locking, Reading
<1>2. at'[h].step = "idle" /\ at'[h].user = NoUser
  BY <1>1, OthersStay, IdleTyped
<1> QED
  BY <1>1, <1>2 DEF Stands, Locking, Reading, Answering

LEMMA FailKeeps ==
    ASSUME LInv, NEW h \in Handlers, Fail(h)
    PROVE  LInv'
<1>1. TypeOK /\ attempts \in [Users -> Nat]
  BY DEF LInv, TypeOK
<1> QED
  BY <1>1, Leaves, OnlyMoves DEF Fail

-----------------------------------------------------------------------------
(* Steps that read.                                                        *)

\* An update of u begins at a step that takes no lock.
LEMMA Enters ==
    ASSUME TypeOK, NEW h \in Handlers, NEW u \in Users, Enter(h, u),
           NEW r \in Update, r.user = u, r.step \notin Locking,
           at' = [at EXCEPT ![h] = r]
    PROVE  Moves(h, r) /\ at'[h] = r
<1>1. Moves(h, r)
  BY DEF Moves, Enter, Locking, Reading
<1> QED
  BY <1>1, OthersStay

LEMMA StartsTyped ==
    ASSUME NEW u \in Users, NEW p \in Profiles \cup {NoProfile}, NEW i \in Invites \cup {NoInvite},
           NEW s \in Steps
    PROVE  /\ At(s, u, p, i) \in Update
           /\ At(s, u, p, i).step = s
           /\ At(s, u, p, i).user = u
           /\ At(s, u, p, i).profile = p
           /\ At(s, u, p, i).invite = i
BY DEF At, Update

LEMMA AskAgainKeeps ==
    ASSUME LInv, LinkingAssumption, NEW h \in Handlers, NEW u \in Users, NEW p \in Profiles,
           AskAgain(h, u, p)
    PROVE  LInv'
<1> DEFINE r == At("invite", u, p, NoInvite)
<1>1. TypeOK /\ attempts \in [Users -> Nat]
  BY DEF LInv, TypeOK
<1>2. r \in Update /\ r.step = "invite" /\ r.user = u /\ r.profile = p /\ r.invite = NoInvite
  BY StartsTyped DEF Steps
<1>3. Moves(h, r) /\ at'[h] = r
  BY <1>1, <1>2, Enters DEF AskAgain, Locking
<1>4. role'[u] = "student"
  BY DEF AskAgain, InStep, tables
<1>5. Stands(h)'
  BY <1>2, <1>3, <1>4 DEF Stands, Locking, Reading, Answering, LinkingAssumption
<1> QED
  BY <1>1, <1>3, <1>5, OnlyMoves DEF AskAgain

LEMMA AgreeForChildKeeps ==
    ASSUME LInv, LinkingAssumption, NEW h \in Handlers, NEW u \in Users, NEW p \in Profiles,
           AgreeForChild(h, u, p)
    PROVE  LInv'
<1> DEFINE r == At("consent", u, p, NoInvite)
<1>1. TypeOK /\ attempts \in [Users -> Nat]
  BY DEF LInv, TypeOK
<1>2. r \in Update /\ r.step = "consent" /\ r.user = u /\ r.profile = p /\ r.invite = NoInvite
  BY StartsTyped DEF Steps
<1>3. Moves(h, r) /\ at'[h] = r
  BY <1>1, <1>2, Enters DEF AgreeForChild, Locking
<1>4. role[u] # "none" /\ role[u] # "student"
  BY DEF AgreeForChild, InStep
<1>5. p \in UnfinishedOf(u)
  BY <1>4 DEF AgreeForChild, InStep
<1>6. profile'[p].kind = "row" /\ profile'[p].parent = u /\ profile'[p].user = NoUser
  BY <1>5 DEF AgreeForChild, UnfinishedOf, ChildrenOf, tables
<1>7. Stands(h)'
  BY <1>2, <1>3, <1>6 DEF Stands, Locking, Reading, Answering, LinkingAssumption
<1> QED
  BY <1>1, <1>3, <1>7, OnlyMoves DEF AgreeForChild

LEMMA EnterCodeKeeps ==
    ASSUME LInv, LinkingAssumption, NEW h \in Handlers, NEW u \in Users,
           NEW i \in Invites \cup {NoInvite}, EnterCode(h, u, i)
    PROVE  LInv'
<1> DEFINE r == At("counted", u, NoProfile, i)
<1>1. TypeOK /\ attempts \in [Users -> Nat]
  BY DEF LInv, TypeOK
<1>2. r \in Update /\ r.step = "counted" /\ r.user = u /\ r.profile = NoProfile /\ r.invite = i
  BY StartsTyped DEF Steps
<1>3. Moves(h, r) /\ at'[h] = r
  BY <1>1, <1>2, Enters DEF EnterCode, Locking
<1>4. Stands(h)'
  BY <1>2, <1>3 DEF Stands, Locking, Reading, Answering, LinkingAssumption
<1> QED
  BY <1>1, <1>3, <1>4, OnlyMoves DEF EnterCode

\* What `_precheck` made sure of.
LEMMA OpenedStands ==
    ASSUME LinkingAssumption, NEW h \in Handlers, NEW u \in Users, NEW i \in Invites,
           Openable(u, i), UNCHANGED <<role, invite>>, at'[h] = At("opened", u, NoProfile, i)
    PROVE  Stands(h)'
<1>1. /\ invite'[i].kind # "none"
      /\ role'[u] \in {"none", IF invite'[i].kind = FromStudent THEN "parent" ELSE "student"}
  BY DEF Openable, FromStudent
<1>2. invite'[i].kind = FromStudent => role'[u] # "student"
  BY <1>1
<1>3. invite'[i].kind = FromParent => role'[u] # "parent"
  BY <1>1 DEF FromStudent, FromParent
<1>4. at'[h].step = "opened" /\ at'[h].user = u /\ at'[h].invite = i
  BY DEF At
<1> QED
  BY <1>1, <1>2, <1>3, <1>4 DEF Stands, Locking, Reading, Answering, LinkingAssumption

LEMMA OpenLinkKeeps ==
    ASSUME LInv, LinkingAssumption, NEW h \in Handlers, NEW u \in Users, NEW i \in Invites,
           OpenLink(h, u, i)
    PROVE  LInv'
<1> DEFINE r == At("opened", u, NoProfile, i)
<1>1. TypeOK /\ attempts \in [Users -> Nat]
  BY DEF LInv, TypeOK
<1>2. r \in Update /\ r.step = "opened" /\ r.user = u
  BY StartsTyped DEF Steps
<1>3. Moves(h, r) /\ at'[h] = r
  BY <1>1, <1>2, Enters DEF OpenLink, Opens, Locking
<1>4. Stands(h)'
  BY <1>3, OpenedStands DEF OpenLink, tables
<1> QED
  BY <1>1, <1>3, <1>4, OnlyMoves DEF OpenLink

LEMMA RecordAttemptKeeps ==
    ASSUME LInv, LinkingAssumption, NEW h \in Handlers, RecordAttempt(h)
    PROVE  LInv'
<1> DEFINE u == at[h].user
<1> DEFINE i == at[h].invite
<1>0. TypeOK /\ attempts \in [Users -> Nat]
  BY DEF LInv, TypeOK
<1>2. UNCHANGED <<tables, pending, policy>>
  BY DEF RecordAttempt
<1>3. u \in Users
  BY <1>0, UpdateTyped DEF LInv, Stands, RecordAttempt
<1>1. TypeOK /\ attempts' \in [Users -> Nat]
  BY <1>0, <1>3 DEF RecordAttempt
<1>4. CASE i \in Invites /\ Openable(u, i)
  <2> DEFINE r == At("opened", u, NoProfile, i)
  <2>1. r \in Update /\ r.step = "opened" /\ r.user = u
    BY <1>3, <1>4, StartsTyped DEF Steps
  <2>2. at' = [at EXCEPT ![h] = r]
    BY <1>4 DEF RecordAttempt, Opens
  <2>3. Moves(h, r)
    BY <2>1, <2>2 DEF Moves, Locking, Reading
  <2>4. at'[h] = r
    BY <1>1, <2>3, OthersStay
  <2>5. Stands(h)'
    BY <1>2, <1>3, <1>4, <2>4, OpenedStands DEF tables
  <2> QED
    BY <1>1, <1>2, <2>3, <2>5, OnlyMoves
<1>5. CASE ~(i \in Invites /\ Openable(u, i))
  <2>1. Leave(h)
    BY <1>5 DEF RecordAttempt
  <2> QED
    BY <1>1, <1>2, <2>1, Leaves, OnlyMoves
<1> QED
  BY <1>4, <1>5

LEMMA RefuseOpenedKeeps ==
    ASSUME LInv, NEW h \in Handlers, RefuseOpened(h)
    PROVE  LInv'
<1>1. TypeOK /\ attempts \in [Users -> Nat]
  BY DEF LInv, TypeOK
<1> QED
  BY <1>1, Leaves, OnlyMoves DEF RefuseOpened

LEMMA JoinByLinkKeeps ==
    ASSUME LInv, NEW h \in Handlers, JoinByLink(h)
    PROVE  LInv'
<1> DEFINE r == [at[h] EXCEPT !.step = "join", !.live = invite[at[h].invite].live]
<1>1. TypeOK /\ attempts \in [Users -> Nat] /\ Stands(h)
  BY DEF LInv, TypeOK
<1>2. /\ at[h].step = "opened"
      /\ at[h].invite \in Invites
      /\ invite[at[h].invite].kind = FromParent
      /\ role[at[h].user] # "parent"
      /\ at[h].user # NoUser
  BY <1>1 DEF JoinByLink, Stands, FromParent
<1>3. invite[at[h].invite].live \in BOOLEAN
  BY <1>1, <1>2 DEF TypeOK
<1>4. /\ r \in Update /\ r.step = "join"
      /\ r.user = at[h].user /\ r.invite = at[h].invite
  BY <1>1, <1>3, UpdateTyped DEF Update, Steps
<1>5. at' = [at EXCEPT ![h] = r]
  BY <1>1, UpdateTyped DEF JoinByLink, Update
<1>6. Moves(h, r)
  BY <1>4, <1>5 DEF Moves, Locking, Reading
<1>7. at'[h] = r
  BY <1>1, <1>6, OthersStay
<1>8. Stands(h)'
  BY <1>2, <1>4, <1>7, ZenonT(60)
  DEF Stands, Locking, Reading, Answering, JoinByLink, tables, FromParent
<1> QED
  BY <1>1, <1>6, <1>8, OnlyMoves DEF JoinByLink

\* A step that only changes the name of the step.
LEMMA Goes ==
    ASSUME TypeOK, NEW h \in Handlers, NEW s \in Steps, Goto(h, s),
           s \in Locking => at[h].step \in Locking \/ ~InviteLocked(at[h].invite),
           s \in Reading => at[h].step \in Reading
    PROVE  /\ Moves(h, [at[h] EXCEPT !.step = s])
           /\ at'[h].step = s
           /\ at'[h].user = at[h].user
           /\ at'[h].profile = at[h].profile
           /\ at'[h].invite = at[h].invite
<1> DEFINE r == [at[h] EXCEPT !.step = s]
<1>1. /\ r \in Update /\ r.step = s
      /\ r.user = at[h].user /\ r.invite = at[h].invite /\ r.profile = at[h].profile
  BY UpdateTyped DEF Update
<1>2. at' = [at EXCEPT ![h] = r]
  BY UpdateTyped DEF Goto, Update
<1>3. Moves(h, r)
  BY <1>1, <1>2 DEF Moves
<1> QED
  BY <1>1, <1>3, OthersStay

LEMMA LockForChildKeeps ==
    ASSUME LInv, NEW h \in Handlers, LockForChild(h)
    PROVE  LInv'
<1>1. TypeOK /\ attempts \in [Users -> Nat] /\ Stands(h)
  BY DEF LInv, TypeOK
<1>2. UNCHANGED <<tables, pending, attempts, policy>>
  BY DEF LockForChild
<1>3. /\ at[h].step = "join"
      /\ at[h].invite \in Invites
      /\ invite[at[h].invite].kind = FromParent
      /\ role[at[h].user] # "parent"
      /\ at[h].user \in Users /\ at[h].user # NoUser
      /\ ~InviteLocked(at[h].invite)
  BY <1>1, UpdateTyped DEF LockForChild, Stands
<1>4. CASE Usable(h)
  <2> DEFINE s == IF role[at[h].user] = "none" THEN "joinNew" ELSE "joinOwn"
  <2>1. s \in Steps /\ s \in {"joinNew", "joinOwn"}
    BY DEF Steps
  <2>2. Goto(h, s)
    BY <1>4 DEF LockForChild
  <2>3. /\ Moves(h, [at[h] EXCEPT !.step = s])
        /\ at'[h].step = s
        /\ at'[h].user = at[h].user
        /\ at'[h].invite = at[h].invite
    BY <1>1, <1>3, <2>1, <2>2, Goes DEF Reading
  <2>4. ~invite[at[h].invite].used /\ role[at[h].user] \in {"none", "student", "parent"}
    BY <1>1, <1>3, <1>4 DEF Usable, TypeOK
  <2>5. Stands(h)'
    BY <1>2, <1>3, <2>3, <2>4 DEF Stands, Locking, Reading, Answering, tables
  <2> QED
    BY <1>1, <1>2, <2>3, <2>5, OnlyMoves
<1>5. CASE ~Usable(h)
  <2>1. Leave(h)
    BY <1>5 DEF LockForChild
  <2> QED
    BY <1>1, <1>2, <2>1, Leaves, OnlyMoves
<1> QED
  BY <1>4, <1>5

LEMMA LockForParentKeeps ==
    ASSUME LInv, NEW h \in Handlers, LockForParent(h)
    PROVE  LInv'
<1> DEFINE s == IF ~Usable(h) THEN "answered"
                ELSE IF at[h].step = "accept" THEN "acceptLocked" ELSE "declineLocked"
<1>1. TypeOK /\ attempts \in [Users -> Nat] /\ Stands(h)
  BY DEF LInv, TypeOK
<1>2. UNCHANGED <<tables, pending, attempts, policy>>
  BY DEF LockForParent
<1>3. /\ at[h].step \in {"accept", "decline"}
      /\ at[h].invite \in Invites
      /\ invite[at[h].invite].kind = FromStudent
      /\ role[at[h].user] # "student"
      /\ at[h].user # NoUser
      /\ pending[at[h].user] = NoLink \/ pending[at[h].user].invite = at[h].invite
      /\ ~InviteLocked(at[h].invite)
  BY <1>1 DEF LockForParent, Stands, Answering
<1>4. s \in Steps /\ s \in {"answered", "acceptLocked", "declineLocked"}
  BY DEF Steps
<1>5. /\ Moves(h, [at[h] EXCEPT !.step = s])
      /\ at'[h].step = s
      /\ at'[h].user = at[h].user
      /\ at'[h].invite = at[h].invite
  BY <1>1, <1>3, <1>4, Goes DEF LockForParent, Reading
<1>6. s # "answered" => ~invite[at[h].invite].used
  BY DEF Usable
<1>7. Stands(h)'
  BY <1>2, <1>3, <1>4, <1>5, <1>6 DEF Stands, Locking, Reading, Answering, tables
<1> QED
  BY <1>1, <1>2, <1>5, <1>7, OnlyMoves

LEMMA AnswerKeeps ==
    ASSUME LInv, LinkingAssumption, NEW h \in Handlers, NEW u \in Users, Answer(h, u)
    PROVE  LInv'
<1> DEFINE i == pending[u].invite
<1>1. TypeOK /\ attempts \in [Users -> Nat] /\ Links
  BY DEF LInv, TypeOK
<1>2. UNCHANGED <<tables, pending, attempts, policy>> /\ Enter(h, u) /\ role[u] # "student"
  BY DEF Answer, ParentSide
<1>3. i \in Invites /\ invite[i].kind = FromStudent
  BY <1>1 DEF Answer, Links, NoLink
<1>4. PICK s \in {"accept", "decline"} :
          at' = [at EXCEPT ![h] = [At(s, u, NoProfile, i) EXCEPT !.live = invite[i].live]]
  BY DEF Answer
<1> DEFINE r == [At(s, u, NoProfile, i) EXCEPT !.live = invite[i].live]
<1>5. invite[i].live \in BOOLEAN
  BY <1>1, <1>3 DEF TypeOK
<1>6. r \in Update /\ r.step = s /\ r.user = u /\ r.invite = i
  BY <1>3, <1>5 DEF At, Update, Steps
<1>7. Moves(h, r) /\ at'[h] = r
  BY <1>1, <1>2, <1>4, <1>6, Enters DEF Locking
<1>8. Stands(h)'
  BY <1>2, <1>3, <1>6, <1>7
  DEF Stands, Locking, Reading, Answering, tables, LinkingAssumption
<1> QED
  BY <1>1, <1>2, <1>7, <1>8, OnlyMoves

\* The row of a child is locked and has no parent.
LEMMA Locks ==
    ASSUME TypeOK, NEW h \in Handlers, NEW p \in Profiles, NEW s \in Reading,
           at[h].step \in Locking, ~ProfileLocked(p),
           at' = [at EXCEPT ![h].step = s, ![h].profile = p]
    PROVE  /\ Moves(h, [at[h] EXCEPT !.step = s, !.profile = p])
           /\ at'[h].step = s
           /\ at'[h].user = at[h].user
           /\ at'[h].profile = p
           /\ at'[h].invite = at[h].invite
<1> DEFINE r == [at[h] EXCEPT !.step = s, !.profile = p]
<1>1. /\ r \in Update /\ r.step = s
      /\ r.user = at[h].user /\ r.invite = at[h].invite /\ r.profile = p
  BY UpdateTyped DEF Update, Reading, Steps
<1>2. at' = [at EXCEPT ![h] = r]
  BY UpdateTyped DEF Update
<1>3. Moves(h, r)
  BY <1>1, <1>2 DEF Moves
<1> QED
  BY <1>1, <1>3, OthersStay

LEMMA LockOwnProfileKeeps ==
    ASSUME LInv, NEW h \in Handlers, NEW p \in Profiles, LockOwnProfile(h, p)
    PROVE  LInv'
<1>1. TypeOK /\ attempts \in [Users -> Nat] /\ Stands(h)
  BY DEF LInv, TypeOK
<1>2. UNCHANGED <<tables, pending, attempts, policy>>
  BY DEF LockOwnProfile
<1>3. /\ at[h].step = "joinOwn"
      /\ at[h].invite \in Invites
      /\ invite[at[h].invite].kind = FromParent
      /\ ~invite[at[h].invite].used
      /\ role[at[h].user] = "student"
      /\ at[h].user # NoUser
      /\ profile[p].kind = "row" /\ profile[p].user = at[h].user
      /\ ~ProfileLocked(p)
  BY <1>1 DEF LockOwnProfile, Stands, Locking, Own
<1>4. CASE profile[p].parent # NoUser
  <2>1. Leave(h)
    BY <1>4 DEF LockOwnProfile
  <2> QED
    BY <1>1, <1>2, <2>1, Leaves, OnlyMoves
<1>5. CASE profile[p].parent = NoUser
  <2>1. at' = [at EXCEPT ![h].step = "joinLocked", ![h].profile = p]
    BY <1>5 DEF LockOwnProfile
  <2>2. /\ Moves(h, [at[h] EXCEPT !.step = "joinLocked", !.profile = p])
        /\ at'[h].step = "joinLocked"
        /\ at'[h].user = at[h].user
        /\ at'[h].profile = p
        /\ at'[h].invite = at[h].invite
    BY <1>1, <1>3, <2>1, Locks DEF Reading, Locking
  <2>3. Stands(h)'
    BY <1>2, <1>3, <1>5, <2>2 DEF Stands, Locking, Reading, Answering, tables
  <2> QED
    BY <1>1, <1>2, <2>2, <2>3, OnlyMoves
<1> QED
  BY <1>4, <1>5

LEMMA LockForAcceptKeeps ==
    ASSUME LInv, NEW h \in Handlers, NEW p \in Profiles, LockForAccept(h, p)
    PROVE  LInv'
<1>1. TypeOK /\ attempts \in [Users -> Nat] /\ Stands(h)
  BY DEF LInv, TypeOK
<1>2. UNCHANGED <<tables, pending, attempts, policy>>
  BY DEF LockForAccept
<1>3. /\ at[h].step = "acceptLocked"
      /\ at[h].invite \in Invites
      /\ invite[at[h].invite].kind = FromStudent
      /\ ~invite[at[h].invite].used
      /\ role[at[h].user] # "student"
      /\ at[h].user # NoUser
      /\ pending[at[h].user] = NoLink \/ pending[at[h].user].invite = at[h].invite
      /\ profile[p].kind = "row" /\ profile[p].user = invite[at[h].invite].by
      /\ ~ProfileLocked(p)
  BY <1>1 DEF LockForAccept, Stands, Locking, Answering, Own
<1>4. CASE profile[p].parent # NoUser
  <2>1. Goto(h, "answered")
    BY <1>1, <1>4, UpdateTyped DEF LockForAccept, Goto
  <2>2. /\ Moves(h, [at[h] EXCEPT !.step = "answered"])
        /\ at'[h].step = "answered"
        /\ at'[h].user = at[h].user
        /\ at'[h].invite = at[h].invite
    BY <1>1, <2>1, Goes DEF Reading, Locking, Steps
  <2>3. Stands(h)'
    BY <1>2, <1>3, <2>2 DEF Stands, Locking, Reading, Answering, tables
  <2> QED
    BY <1>1, <1>2, <2>2, <2>3, OnlyMoves
<1>5. CASE profile[p].parent = NoUser
  <2>1. at' = [at EXCEPT ![h].step = "acceptRead", ![h].profile = p]
    BY <1>5 DEF LockForAccept
  <2>2. /\ Moves(h, [at[h] EXCEPT !.step = "acceptRead", !.profile = p])
        /\ at'[h].step = "acceptRead"
        /\ at'[h].user = at[h].user
        /\ at'[h].profile = p
        /\ at'[h].invite = at[h].invite
    BY <1>1, <1>3, <2>1, Locks DEF Reading, Locking
  <2>3. Stands(h)'
    BY <1>2, <1>3, <1>5, <2>2 DEF Stands, Locking, Reading, Answering, tables
  <2> QED
    BY <1>1, <1>2, <2>2, <2>3, OnlyMoves
<1> QED
  BY <1>4, <1>5

-----------------------------------------------------------------------------
(* Steps that write.                                                       *)

Tables == Rows /\ Roles /\ Links /\ ConsentsMatchFamilies /\ Versions

LEMMA Changes ==
    ASSUME LInv, NEW h \in Handlers, NEW r, Moves(h, r), Stands(h)',
           \A g \in Handlers : g # h => Kept(g), TypeOK', Tables'
    PROVE  LInv'
<1>1. OneUpdate' /\ OneTransaction'
  BY LocksHold DEF LInv
<1>2. ASSUME NEW g \in Handlers
      PROVE  Stands(g)'
  BY StandsOn DEF LInv
<1> QED
  BY <1>1, <1>2 DEF LInv, Tables

LEMMA Rests ==
    ASSUME LInv, \A g \in Handlers : Kept(g), TypeOK', Tables'
    PROVE  LInv'
<1>1. \A g \in Handlers : at'[g] = at[g]
  BY DEF Kept
<1>2. OneUpdate' /\ OneTransaction'
  BY <1>1 DEF LInv, OneUpdate, OneTransaction
<1>3. ASSUME NEW g \in Handlers
      PROVE  Stands(g)'
  BY StandsOn DEF LInv
<1> QED
  BY <1>2, <1>3 DEF LInv, Tables

LEMMA OtherUsers ==
    ASSUME LinkingAssumption, OneUpdate, NEW h \in Handlers, NEW g \in Handlers, g # h,
           at[g].user \in Users
    PROVE  at[g].user # at[h].user
BY DEF OneUpdate, LinkingAssumption

ProfileRow == [kind : {"none", "row", "gone"}, user : Users \cup {NoUser},
               parent : Users \cup {NoUser}, subject : BOOLEAN]
InviteRow  == [kind : Kinds \cup {"none"}, by : Users \cup {NoUser},
               version : Policies \cup {0}, used : BOOLEAN,
               usedBy : Users \cup {NoUser}, live : BOOLEAN]
ConsentRow == [profile : Profiles, parent : Users, child : Users \cup {NoUser},
               version : Policies, active : BOOLEAN]

LEMMA TablesTyped ==
    TypeOK <=> /\ role \in [Users -> {"none", "student", "parent"}]
               /\ profile \in [Profiles -> ProfileRow]
               /\ consents \subseteq ConsentRow
               /\ invite \in [Invites -> InviteRow]
               /\ pending \in [Users -> [invite : Invites \cup {NoInvite},
                                         screen : Policies \cup {0}]]
               /\ attempts \in [Users -> Nat]
               /\ policy \in Policies
               /\ at \in [Handlers -> Update]
BY DEF TypeOK, ProfileRow, InviteRow, ConsentRow, Update

LEMMA TypedNext ==
    ASSUME role' \in [Users -> {"none", "student", "parent"}],
           profile' \in [Profiles -> ProfileRow],
           consents' \subseteq ConsentRow,
           invite' \in [Invites -> InviteRow],
           pending' \in [Users -> [invite : Invites \cup {NoInvite}, screen : Policies \cup {0}]],
           attempts' \in [Users -> Nat],
           policy' \in Policies,
           at' \in [Handlers -> Update]
    PROVE  TypeOK'
BY DEF TypeOK, ProfileRow, InviteRow, ConsentRow, Update

\* A consent in force is for a child that is there.
LEMMA ConsentedRows ==
    ASSUME ConsentsMatchFamilies, NEW p \in Profiles, profile[p].kind # "row"
    PROVE  ~Consented(p)
BY DEF ConsentsMatchFamilies, Consented

\* A new student: an account that had no role, with a profile that was no row.
LEMMA StudentAdded ==
    ASSUME TypeOK, LinkingAssumption, Rows, Roles, NEW u \in Users, NEW p \in Profiles,
           NEW row \in ProfileRow, row.kind = "row", row.user = u,
           row.parent = NoUser \/ role[row.parent] = "parent",
           role[u] = "none", profile[p].kind = "none",
           role' = [role EXCEPT ![u] = "student"], profile' = [profile EXCEPT ![p] = row]
    PROVE  Rows' /\ Roles'
<1>5. /\ \A v \in Users : role'[v] = IF v = u THEN "student" ELSE role[v]
      /\ \A q \in Profiles : profile'[q] = IF q = p THEN row ELSE profile[q]
  BY TablesTyped
<1>6. u # NoUser
  BY DEF LinkingAssumption
<1>7. \A q \in Profiles : profile[q].user # u /\ profile[q].parent # u
  BY <1>6 DEF Roles
<1>0. /\ \A q \in Profiles : profile[q].user \in Users \cup {NoUser}
                            /\ profile[q].parent \in Users \cup {NoUser}
      /\ row.parent \in Users \cup {NoUser}
  BY TablesTyped DEF ProfileRow
<1>1. Rows'
  BY <1>5 DEF Rows
<1>2. ASSUME NEW q \in Profiles
      PROVE  /\ profile'[q].user # NoUser => role'[profile'[q].user] = "student"
             /\ profile'[q].parent # NoUser => role'[profile'[q].parent] = "parent"
  <2>0. \A v \in Users : v # u => role'[v] = role[v]
    BY <1>5
  <2>1. CASE q = p
    <3>1. row.parent # u
      BY <1>6
    <3> QED
      BY <1>0, <1>5, <2>0, <2>1, <3>1
  <2>2. CASE q # p
    <3>1. profile'[q] = profile[q] /\ profile[q].user # u /\ profile[q].parent # u
      BY <1>5, <1>7, <2>2
    <3>2. /\ profile[q].user # NoUser => role[profile[q].user] = "student"
          /\ profile[q].parent # NoUser => role[profile[q].parent] = "parent"
      BY DEF Roles
    <3> QED
      BY <1>0, <2>0, <3>1, <3>2
  <2> QED
    BY <2>1, <2>2
<1>3. ASSUME NEW v \in Users, role'[v] = "student"
      PROVE  \E q \in Profiles : profile'[q].user = v
  <2>1. CASE v = u
    BY <1>5, <2>1
  <2>2. CASE v # u
    <3>1. PICK q \in Profiles : profile[q].user = v
      BY <1>3, <1>5, <2>2 DEF Roles
    <3>2. q # p
      BY <3>1 DEF Rows, LinkingAssumption
    <3> QED
      BY <1>5, <3>1, <3>2
  <2> QED
    BY <2>1, <2>2
<1>4. ASSUME NEW q \in Profiles, NEW x \in Profiles, profile'[q].user = profile'[x].user
      PROVE  q = x \/ profile'[q].user = NoUser
  <2>1. CASE q = p \/ x = p
    BY <1>4, <1>5, <1>7, <2>1
  <2>2. CASE q # p /\ x # p
    BY <1>4, <1>5, <2>2 DEF Roles
  <2> QED
    BY <2>1, <2>2
<1> QED
  BY <1>1, <1>2, <1>3, <1>4 DEF Roles

LEMMA RegisterStudentKeeps ==
    ASSUME LInv, LinkingAssumption, NEW h \in Handlers, NEW u \in Users, NEW p \in Profiles,
           RegisterStudent(h, u, p)
    PROVE  LInv'
<1> DEFINE row == [FreeProfile EXCEPT !.kind = "row", !.user = u]
<1>1. /\ role' = [role EXCEPT ![u] = "student"]
      /\ profile' = [profile EXCEPT ![p] = row]
      /\ UNCHANGED <<consents, invite, pending, attempts, policy, at>>
      /\ role[u] = "none"
      /\ profile[p].kind = "none"
      /\ \A g \in Handlers : at[g].user # u
  BY DEF RegisterStudent, InStep, Enter
<1>2. /\ row.kind = "row" /\ row.user = u /\ row.parent = NoUser /\ row \in ProfileRow
  BY DEF FreeProfile, ProfileRow
<1> HIDE DEF row
<1>3. TypeOK
  BY DEF LInv
<1>4. TypeOK'
  BY <1>1, <1>2, <1>3, TablesTyped, TypedNext
<1>5. /\ \A v \in Users : role'[v] = IF v = u THEN "student" ELSE role[v]
      /\ \A q \in Profiles : profile'[q] = IF q = p THEN row ELSE profile[q]
  BY <1>1, <1>3, TablesTyped
<1>8. Rows' /\ Roles'
  BY <1>1, <1>2, <1>3, StudentAdded DEF LInv
<1>9. Links'
  BY <1>1, <1>5 DEF LInv, Links
<1>10. ConsentsMatchFamilies'
  <2>1. \A c \in consents : c.profile \in Profiles
    BY <1>3, TablesTyped DEF ConsentRow
  <2>2. \A c \in consents : c.active => c.profile # p
    BY <1>1 DEF LInv, ConsentsMatchFamilies
  <2> QED
    BY <1>1, <1>2, <1>5, <2>1, <2>2 DEF LInv, ConsentsMatchFamilies, Consented
<1>11. Versions'
  BY <1>1 DEF LInv, Versions
<1>12. ASSUME NEW g \in Handlers
       PROVE  Kept(g)
  <2>1. at[g].step \in Reading \cup {"consent"} => at[g].profile # p
    BY <1>1 DEF LInv, Stands
  <2> QED
    BY <1>1, <1>5, <2>1 DEF Kept, Row
<1> QED
  BY <1>4, <1>8, <1>9, <1>10, <1>11, <1>12, Rests DEF Tables

\* The subject of a child is nobody's business here.
LEMMA SubjectKeeps ==
    ASSUME LInv, NEW p \in Profiles,
           profile' = [profile EXCEPT ![p].subject = TRUE],
           UNCHANGED <<role, consents, invite, pending, attempts, policy>>,
           at' \in [Handlers -> Update]
    PROVE  /\ TypeOK'
           /\ Tables'
           /\ \A g \in Handlers : at'[g] = at[g] => Kept(g)
<1>1. TypeOK
  BY DEF LInv
<1>2. \A q \in Profiles : /\ profile'[q].kind = profile[q].kind
                          /\ profile'[q].user = profile[q].user
                          /\ profile'[q].parent = profile[q].parent
                          /\ profile'[q] \in ProfileRow
  BY <1>1, TablesTyped, ZenonT(60) DEF ProfileRow
<1>3. TypeOK'
  <2>1. profile' \in [Profiles -> ProfileRow]
    BY <1>1, <1>2, TablesTyped
  <2> QED
    BY <1>1, <2>1, TablesTyped, TypedNext
<1>4. Rows' /\ Roles' /\ Links' /\ Versions'
  BY <1>2 DEF LInv, Rows, Roles, Links, Versions
<1>5. ConsentsMatchFamilies'
  <2>1. \A c \in consents : c.profile \in Profiles
    BY <1>1, TablesTyped DEF ConsentRow
  <2> QED
    BY <1>2, <2>1 DEF LInv, ConsentsMatchFamilies, Consented
<1>6. \A g \in Handlers : at'[g] = at[g] => Kept(g)
  BY <1>2 DEF Kept, Row
<1> QED
  BY <1>3, <1>4, <1>5, <1>6 DEF Tables

LEMMA ChooseSubjectKeeps ==
    ASSUME LInv, LinkingAssumption, NEW h \in Handlers, NEW u \in Users, NEW p \in Profiles,
           ChooseSubject(h, u, p)
    PROVE  LInv'
<1>1. TypeOK
  BY DEF LInv
<1>2. /\ profile' = [profile EXCEPT ![p].subject = TRUE]
      /\ UNCHANGED <<role, consents, invite, pending, attempts, policy>>
      /\ Enter(h, u)
      /\ role[u] = "student"
  BY DEF ChooseSubject, InStep
<1>3. CASE Consented(p)
  <2>1. at' = at
    BY <1>3 DEF ChooseSubject
  <2> QED
    BY <1>1, <1>2, <2>1, TablesTyped, SubjectKeeps, Rests
<1>4. CASE ~Consented(p)
  <2> DEFINE r == At("invite", u, p, NoInvite)
  <2>1. r \in Update /\ r.step = "invite" /\ r.user = u
    BY StartsTyped DEF Steps
  <2>2. at' = [at EXCEPT ![h] = r]
    BY <1>4 DEF ChooseSubject
  <2>3. Moves(h, r) /\ at'[h] = r
    BY <1>1, <1>2, <2>1, <2>2, Enters DEF Locking
  <2>4. Stands(h)'
    BY <1>2, <2>1, <2>3 DEF Stands, Locking, Reading, Answering, LinkingAssumption
  <2>5. /\ at' \in [Handlers -> Update]
        /\ \A g \in Handlers : g # h => at'[g] = at[g]
    BY <1>1, <2>3, OthersStay
  <2> QED
    BY <1>2, <2>3, <2>4, <2>5, SubjectKeeps, Changes
<1> QED
  BY <1>3, <1>4

LEMMA ChooseChildSubjectKeeps ==
    ASSUME LInv, NEW h \in Handlers, NEW u \in Users, NEW p \in Profiles,
           ChooseChildSubject(h, u, p)
    PROVE  LInv'
<1>1. at \in [Handlers -> Update]
  BY TablesTyped DEF LInv
<1> QED
  BY <1>1, SubjectKeeps, Rests DEF ChooseChildSubject

\* A new invitation: nobody knew it before.
LEMMA InviteMade ==
    ASSUME LInv, NEW h \in Handlers, NEW i \in Invites, NEW row \in InviteRow,
           invite[i].kind = "none", invite' = [invite EXCEPT ![i] = row], ~row.used,
           \/ row.kind = FromStudent /\ role[row.by] = "student"
           \/ row.kind = FromParent /\ role[row.by] = "parent" /\ row.version = policy,
           row.by \in Users, Leave(h),
           UNCHANGED <<role, profile, consents, pending, attempts, policy>>
    PROVE  LInv'
<1>1. TypeOK
  BY DEF LInv
<1>2. Moves(h, Idle) /\ Stands(h)'
  BY <1>1, Leaves
<1>3. /\ at' \in [Handlers -> Update]
      /\ \A g \in Handlers : g # h => at'[g] = at[g]
  BY <1>1, <1>2, OthersStay
<1>4. TypeOK'
  BY <1>1, <1>3, TablesTyped, TypedNext
<1>5. \A j \in Invites : invite'[j] = IF j = i THEN row ELSE invite[j]
  BY <1>1, TablesTyped
<1>6. Rows' /\ Roles' /\ Versions'
  BY DEF LInv, Rows, Roles, Versions
<1>7. ConsentsMatchFamilies'
  BY DEF LInv, ConsentsMatchFamilies, Consented
<1>8. Links'
  <2>1. policy \in Policies /\ policy <= policy
    <3>1. policy \in Policies
      BY <1>1, TablesTyped
    <3> QED
      BY <3>1, LinkingAssumption
  <2>2. \A j \in Invites :
          /\ invite'[j].kind = "none" => ~invite'[j].used
          /\ invite'[j].kind = FromStudent => invite'[j].by \in Users /\ role'[invite'[j].by] = "student"
          /\ invite'[j].kind = FromParent => /\ invite'[j].by \in Users
                                             /\ role'[invite'[j].by] = "parent"
                                             /\ invite'[j].version \in Policies
                                             /\ invite'[j].version <= policy'
    BY <1>5, <2>1 DEF LInv, Links, FromStudent, FromParent
  <2>3. \A v \in Users : \/ pending'[v] = NoLink
                         \/ /\ pending'[v].invite \in Invites
                            /\ invite'[pending'[v].invite].kind = FromStudent
    BY <1>5 DEF LInv, Links, FromStudent
  <2> QED
    BY <2>2, <2>3 DEF Links
<1>9. ASSUME NEW g \in Handlers, g # h
      PROVE  Kept(g)
  <2>1. at[g].step \in Locking => at[g].invite # i
    BY DEF LInv, Stands, Locking, Answering, FromStudent, FromParent
  <2> QED
    BY <1>3, <1>5, <1>9, <2>1 DEF Kept, Row
<1> QED
  BY <1>2, <1>4, <1>6, <1>7, <1>8, <1>9, Changes DEF Tables

LEMMA InviteParentKeeps ==
    ASSUME LInv, NEW h \in Handlers, NEW i \in Invites, InviteParent(h, i)
    PROVE  LInv'
<1> DEFINE row == [FreeInvite EXCEPT !.kind = FromStudent, !.by = at[h].user, !.live = TRUE]
<1>1. at[h].user \in Users /\ role[at[h].user] = "student"
  BY UpdateTyped DEF LInv, Stands, InviteParent
<1>2. /\ row \in InviteRow /\ row.kind = FromStudent /\ row.by = at[h].user /\ ~row.used
  BY <1>1 DEF FreeInvite, InviteRow, Kinds, FromStudent
<1>3. invite' = [invite EXCEPT ![i] = row] /\ invite[i].kind = "none"
  BY DEF InviteParent, FromStudent
<1> QED
  BY <1>1, <1>2, <1>3, InviteMade DEF InviteParent

LEMMA OfferLinkKeeps ==
    ASSUME LInv, NEW h \in Handlers, NEW i \in Invites, OfferLink(h, i)
    PROVE  LInv'
<1> DEFINE row == [FreeInvite EXCEPT !.kind = FromParent, !.by = at[h].user, !.live = TRUE,
                                     !.version = policy]
<1>1. at[h].user \in Users /\ role[at[h].user] = "parent" /\ policy \in Policies
  BY UpdateTyped, TablesTyped DEF LInv, Stands, OfferLink
<1>2. /\ row \in InviteRow /\ row.kind = FromParent /\ row.by = at[h].user /\ ~row.used
      /\ row.version = policy
  BY <1>1 DEF FreeInvite, InviteRow, Kinds, FromParent
<1>3. invite' = [invite EXCEPT ![i] = row] /\ invite[i].kind = "none"
  BY DEF OfferLink, FromParent
<1> QED
  BY <1>1, <1>2, <1>3, InviteMade DEF OfferLink

\* Who becomes a parent was no student; nobody else's role changes.
LEMMA BecomesParent ==
    ASSUME TypeOK, NEW u \in Users, role[u] # "student", role' = [role EXCEPT ![u] = "parent"]
    PROVE  /\ role' \in [Users -> {"none", "student", "parent"}]
           /\ \A v \in Users : /\ role[v] = "parent" => role'[v] = "parent"
                               /\ role[v] = "student" <=> role'[v] = "student"
                               /\ v # u => role'[v] = role[v]
           /\ role'[u] = "parent"
BY DEF TypeOK

LEMMA BecomeParentKeeps ==
    ASSUME LInv, LinkingAssumption, NEW h \in Handlers, NEW u \in Users, BecomeParent(h, u)
    PROVE  LInv'
<1>1. TypeOK
  BY DEF LInv
<1>2. /\ Enter(h, u)
      /\ role[u] # "student"
      /\ role' = [role EXCEPT ![u] = "parent"]
      /\ UNCHANGED <<profile, consents, invite, pending, attempts, policy>>
  BY DEF BecomeParent, ParentSide
<1>3. PICK s \in {"start", "offer"} : at' = [at EXCEPT ![h] = At(s, u, NoProfile, NoInvite)]
  BY DEF BecomeParent
<1> DEFINE r == At(s, u, NoProfile, NoInvite)
<1>4. r \in Update /\ r.step = s /\ r.user = u
  BY StartsTyped DEF Steps
<1>5. Moves(h, r) /\ at'[h] = r
  BY <1>1, <1>2, <1>3, <1>4, Enters DEF Locking
<1>6. /\ role' \in [Users -> {"none", "student", "parent"}]
      /\ \A v \in Users : /\ role[v] = "parent" => role'[v] = "parent"
                          /\ role[v] = "student" <=> role'[v] = "student"
                          /\ v # u => role'[v] = role[v]
      /\ role'[u] = "parent"
  BY <1>1, <1>2, BecomesParent
<1>7. Stands(h)'
  BY <1>4, <1>5, <1>6 DEF Stands, Locking, Reading, Answering, LinkingAssumption
<1>8. /\ at' \in [Handlers -> Update]
      /\ \A g \in Handlers : g # h => at'[g] = at[g]
  BY <1>1, <1>5, OthersStay
<1>9. TypeOK'
  BY <1>1, <1>2, <1>6, <1>8, TablesTyped, TypedNext
<1>10. Rows' /\ Versions'
  BY <1>2 DEF LInv, Rows, Versions
<1>11. ConsentsMatchFamilies'
  BY <1>2 DEF LInv, ConsentsMatchFamilies, Consented
<1>12. Roles'
  <2>1. \A p \in Profiles : profile[p].user \in Users \cup {NoUser}
                            /\ profile[p].parent \in Users \cup {NoUser}
    BY <1>1, TablesTyped DEF ProfileRow
  <2> QED
    BY <1>2, <1>6, <2>1 DEF LInv, Roles
<1>13. Links'
  BY <1>2, <1>6 DEF LInv, Links
<1>14. ASSUME NEW g \in Handlers, g # h
       PROVE  Kept(g)
  <2>1. at[g].user # u
    BY <1>2 DEF Enter
  <2> QED
    BY <1>2, <1>6, <1>8, <1>14, <2>1 DEF Kept, Row
<1> QED
  BY <1>5, <1>7, <1>9, <1>10, <1>11, <1>12, <1>13, <1>14, Changes DEF Tables

LEMMA StartChildKeeps ==
    ASSUME LInv, LinkingAssumption, NEW h \in Handlers, NEW p \in Profiles, StartChild(h, p)
    PROVE  LInv'
<1> DEFINE u == at[h].user
<1> DEFINE new == [FreeProfile EXCEPT !.kind = "row", !.parent = u]
<1> DEFINE gone == [FreeProfile EXCEPT !.kind = "gone"]
<1>1. TypeOK
  BY DEF LInv
<1>2. u \in Users /\ u # NoUser /\ role[u] = "parent"
  BY <1>1, UpdateTyped DEF LInv, Stands, StartChild, LinkingAssumption
<1>3. /\ new.kind = "row" /\ new.user = NoUser /\ new.parent = u /\ new \in ProfileRow
      /\ gone.kind = "gone" /\ gone.user = NoUser /\ gone.parent = NoUser /\ gone \in ProfileRow
  BY <1>2 DEF FreeProfile, ProfileRow
<1>4. profile' = [x \in Profiles |-> IF x = p THEN new
                                     ELSE IF x \in UnfinishedOf(u) THEN gone ELSE profile[x]]
  BY DEF StartChild
<1> HIDE DEF new, gone
<1>5. /\ UNCHANGED <<role, consents, invite, pending, attempts, policy>>
      /\ profile[p].kind = "none" /\ Leave(h)
  BY DEF StartChild
<1>6. /\ profile'[p] = new
      /\ \A x \in Profiles : x # p =>
            \/ x \in UnfinishedOf(u) /\ profile'[x] = gone
            \/ x \notin UnfinishedOf(u) /\ profile'[x] = profile[x]
  BY <1>4
<1>7. \A x \in UnfinishedOf(u) : /\ x \in Profiles /\ profile[x].kind = "row"
                                 /\ profile[x].parent = u /\ profile[x].user = NoUser
                                 /\ ~Consented(x)
  BY DEF UnfinishedOf, ChildrenOf
<1>8. Moves(h, Idle) /\ Stands(h)'
  BY <1>1, <1>5, Leaves
<1>9. /\ at' \in [Handlers -> Update]
      /\ \A g \in Handlers : g # h => at'[g] = at[g]
  BY <1>1, <1>8, OthersStay
<1>10. TypeOK'
  <2>1. \A x \in Profiles : profile[x] \in ProfileRow
    BY <1>1, TablesTyped
  <2>2. profile' \in [Profiles -> ProfileRow]
    BY <1>3, <1>4, <2>1
  <2> QED
    BY <1>1, <1>5, <1>9, <2>2, TablesTyped, TypedNext
<1>11. profile[p].user = NoUser /\ profile[p].parent = NoUser
  BY <1>5 DEF LInv, Rows
<1>12. Rows'
  BY <1>3, <1>6 DEF LInv, Rows
<1>13. \A x \in Profiles : /\ profile'[x].user = profile[x].user
                           /\ profile'[x].parent \in {profile[x].parent, u, NoUser}
  BY <1>3, <1>6, <1>7, <1>11
<1>14. Roles'
  BY <1>2, <1>5, <1>13 DEF LInv, Roles
<1>15. Links' /\ Versions'
  BY <1>5 DEF LInv, Links, Versions
<1>16. \A x \in Profiles : Consented(x)' <=> Consented(x)
  BY <1>5 DEF Consented
<1>17. \A c \in consents : c.active => profile'[c.profile] = profile[c.profile]
  <2> SUFFICES ASSUME NEW c \in consents, c.active
               PROVE  profile'[c.profile] = profile[c.profile]
    OBVIOUS
  <2>1. c.profile \in Profiles
    BY <1>1, TablesTyped DEF ConsentRow
  <2>2. profile[c.profile].kind = "row"
    BY DEF LInv, ConsentsMatchFamilies
  <2>3. c.profile # p
    BY <1>5, <2>2
  <2>4. c.profile \notin UnfinishedOf(u)
    BY <1>7 DEF Consented
  <2> QED
    BY <1>6, <2>1, <2>3, <2>4
<1>18. ConsentsMatchFamilies'
  <2>1. \A x \in Profiles : profile'[x].user # NoUser /\ profile'[x].parent # NoUser => Consented(x)
    <3> SUFFICES ASSUME NEW x \in Profiles, profile'[x].user # NoUser, profile'[x].parent # NoUser
                 PROVE  Consented(x)
      OBVIOUS
    <3>1. x # p
      BY <1>3, <1>6
    <3>2. profile'[x] = profile[x]
      BY <1>3, <1>6, <3>1
    <3> QED
      BY <3>2 DEF LInv, ConsentsMatchFamilies
  <2> QED
    BY <1>5, <1>16, <1>17, <2>1 DEF LInv, ConsentsMatchFamilies
<1>19. ASSUME NEW g \in Handlers, g # h
       PROVE  Kept(g)
  <2> DEFINE x == at[g].profile
  <2>1. x \in Profiles /\ at[g].step \in Reading \cup {"consent"} =>
           profile[x].kind = "row" /\ profile[x].parent # u
    <3>1. at[g].step \in Reading => profile[x].kind = "row" /\ profile[x].parent = NoUser
      BY DEF LInv, Stands
    <3>2. at[g].step = "consent" => profile[x].kind = "row" /\ profile[x].parent = at[g].user
      BY DEF LInv, Stands
    <3>3. at[g].user # u
      BY <1>2, <1>19 DEF LInv, OneUpdate
    <3> QED
      BY <1>2, <3>1, <3>2, <3>3
  <2>2. x \in Profiles /\ at[g].step \in Reading \cup {"consent"} => profile'[x] = profile[x]
    BY <1>5, <1>6, <1>7, <2>1
  <2> QED
    BY <1>5, <1>9, <1>19, <2>2 DEF Kept, Row
<1> QED
  BY <1>8, <1>10, <1>12, <1>14, <1>15, <1>18, <1>19, Changes DEF Tables

\* A child without a consent gets one, by its parent.
LEMMA ConsentAdded ==
    ASSUME TypeOK, ConsentsMatchFamilies, NEW p \in Profiles, ~Consented(p),
           NEW q \in Users, NEW c \in Users \cup {NoUser}, NEW v \in Policies,
           consents' = consents \cup {Consent(p, q, c, v)},
           profile'[p].kind = "row", profile'[p].parent = q, profile'[p].user = c,
           \A x \in Profiles : x # p => profile'[x] = profile[x]
    PROVE  ConsentsMatchFamilies' /\ consents' \subseteq ConsentRow
<1> DEFINE new == Consent(p, q, c, v)
<1>1. /\ new.profile = p /\ new.parent = q /\ new.child = c /\ new.version = v /\ new.active
      /\ new \in ConsentRow
  BY DEF Consent, ConsentRow
<1> HIDE DEF new
<1>2. consents \subseteq ConsentRow
  BY TablesTyped
<1>3. consents' = consents \cup {new}
  BY DEF new
<1>4. \A d \in consents : d.active => d.profile # p
  BY DEF Consented
<1>5. ASSUME NEW d \in consents', d.active
      PROVE  /\ profile'[d.profile].kind = "row"
             /\ profile'[d.profile].parent = d.parent
             /\ profile'[d.profile].user = d.child
             /\ \A e \in consents' : e.active /\ e.profile = d.profile => e = d
  <2>1. CASE d = new
    BY <1>1, <1>3, <1>4, <2>1
  <2>2. CASE d \in consents
    <3>1. d.profile \in Profiles /\ d.profile # p
      BY <1>2, <1>4, <1>5, <2>2 DEF ConsentRow
    <3>2. \A e \in consents : e.active /\ e.profile = d.profile => e = d
      BY <1>5, <2>2 DEF ConsentsMatchFamilies
    <3> QED
      BY <1>1, <1>3, <1>5, <2>2, <3>1, <3>2 DEF ConsentsMatchFamilies
  <2> QED
    BY <1>3, <2>1, <2>2
<1>6. \A x \in Profiles : profile'[x].user # NoUser /\ profile'[x].parent # NoUser => Consented(x)'
  <2> SUFFICES ASSUME NEW x \in Profiles, profile'[x].user # NoUser, profile'[x].parent # NoUser
               PROVE  \E d \in consents' : d.profile = x /\ d.active
    BY DEF Consented
  <2>1. CASE x = p
    BY <1>1, <1>3, <2>1
  <2>2. CASE x # p
    BY <1>3, <2>2 DEF ConsentsMatchFamilies, Consented
  <2> QED
    BY <2>1, <2>2
<1> QED
  BY <1>1, <1>2, <1>3, <1>5, <1>6 DEF ConsentsMatchFamilies

LEMMA GiveConsentKeeps ==
    ASSUME LInv, LinkingAssumption, NEW h \in Handlers, GiveConsent(h)
    PROVE  LInv'
<1> DEFINE p == at[h].profile
<1> DEFINE u == at[h].user
<1>1. TypeOK /\ policy \in Policies
  BY TablesTyped DEF LInv
<1>2. /\ UNCHANGED <<role, profile, invite, pending, attempts, policy>>
      /\ at[h].step = "consent" /\ Leave(h)
  BY DEF GiveConsent
<1>3. /\ p \in Profiles /\ profile[p].kind = "row" /\ profile[p].parent = u
      /\ profile[p].user = NoUser /\ u \in Users
  BY <1>1, <1>2, UpdateTyped DEF LInv, Stands
<1>4. Moves(h, Idle) /\ Stands(h)'
  BY <1>1, <1>2, Leaves
<1>5. /\ at' \in [Handlers -> Update]
      /\ \A g \in Handlers : g # h => at'[g] = at[g]
  BY <1>1, <1>4, OthersStay
<1>6. /\ consents' \subseteq ConsentRow
      /\ ConsentsMatchFamilies'
      /\ \A c \in consents' : c \in consents \/ c.version = policy
  <2>1. CASE Consented(p)
    <3>1. consents' = consents
      BY <2>1 DEF GiveConsent
    <3> QED
      BY <1>1, <1>2, <3>1, TablesTyped DEF LInv, ConsentsMatchFamilies, Consented
  <2>2. CASE ~Consented(p)
    <3>1. consents' = consents \cup {Consent(p, u, NoUser, policy)}
      BY <2>2 DEF GiveConsent
    <3>2. ConsentsMatchFamilies' /\ consents' \subseteq ConsentRow
      BY <1>1, <1>2, <1>3, <2>2, <3>1, ConsentAdded DEF LInv
    <3> QED
      BY <3>1, <3>2 DEF Consent
  <2> QED
    BY <2>1, <2>2
<1>7. TypeOK'
  BY <1>1, <1>2, <1>5, <1>6, TablesTyped, TypedNext
<1>8. Rows' /\ Roles' /\ Links'
  BY <1>2 DEF LInv, Rows, Roles, Links
<1>9. Versions'
  BY <1>1, <1>2, <1>6 DEF LInv, Versions, LinkingAssumption
<1>10. ASSUME NEW g \in Handlers, g # h
       PROVE  Kept(g)
  BY <1>2, <1>5, <1>10 DEF Kept, Row
<1> QED
  BY <1>4, <1>6, <1>7, <1>8, <1>9, <1>10, Changes DEF Tables

LEMMA RenewConsentKeeps ==
    ASSUME LInv, LinkingAssumption, NEW h \in Handlers, NEW u \in Users, NEW c \in consents,
           RenewConsent(h, u, c)
    PROVE  LInv'
<1> DEFINE off == [c EXCEPT !.active = FALSE]
<1> DEFINE new == Consent(c.profile, u, c.child, policy)
<1>1. TypeOK /\ consents \subseteq ConsentRow /\ policy \in Policies
  BY TablesTyped DEF LInv
<1>2. c \in ConsentRow
  BY <1>1
<1>3. /\ UNCHANGED <<role, profile, invite, pending, attempts, policy, at>>
      /\ c.active /\ c.profile \in ChildrenOf(u)
      /\ consents' = (consents \ {c}) \cup {off, new}
  BY DEF RenewConsent
<1>4. /\ off \in ConsentRow /\ ~off.active /\ off.version = c.version
  BY <1>2 DEF ConsentRow
<1>5. /\ new \in ConsentRow /\ new.active /\ new.profile = c.profile /\ new.parent = u
      /\ new.child = c.child /\ new.version = policy
  BY <1>1, <1>2 DEF ConsentRow, Consent
<1> HIDE DEF off, new
<1>6. /\ profile[c.profile].kind = "row" /\ profile[c.profile].parent = u
      /\ profile[c.profile].user = c.child
      /\ \A d \in consents : d.active /\ d.profile = c.profile => d = c
  BY <1>3 DEF LInv, ConsentsMatchFamilies, ChildrenOf
<1>7. consents' \subseteq ConsentRow
  BY <1>1, <1>3, <1>4, <1>5
<1>8. TypeOK'
  <2>1. at \in [Handlers -> Update]
    BY <1>1, TablesTyped
  <2> QED
    BY <1>1, <1>3, <1>7, <2>1, TablesTyped, TypedNext
<1>9. Rows' /\ Roles' /\ Links'
  BY <1>3 DEF LInv, Rows, Roles, Links
<1>10. Versions'
  BY <1>1, <1>3, <1>4, <1>5 DEF LInv, Versions, LinkingAssumption
<1>11. ConsentsMatchFamilies'
  <2>1. ASSUME NEW d \in consents', d.active
        PROVE  /\ profile'[d.profile].kind = "row"
               /\ profile'[d.profile].parent = d.parent
               /\ profile'[d.profile].user = d.child
               /\ \A e \in consents' : e.active /\ e.profile = d.profile => e = d
    <3>1. CASE d = new
      BY <1>3, <1>4, <1>5, <1>6, <3>1
    <3>2. CASE d \in consents /\ d # c
      <4>1. d.profile # c.profile
        BY <1>6, <2>1, <3>2
      <4>2. /\ profile[d.profile].kind = "row"
            /\ profile[d.profile].parent = d.parent
            /\ profile[d.profile].user = d.child
            /\ \A e \in consents : e.active /\ e.profile = d.profile => e = d
        BY <2>1, <3>2 DEF LInv, ConsentsMatchFamilies
      <4> QED
        BY <1>3, <1>4, <1>5, <4>1, <4>2
    <3> QED
      BY <1>3, <1>4, <2>1, <3>1, <3>2
  <2>2. \A x \in Profiles : Consented(x) => Consented(x)'
    BY <1>3, <1>5 DEF Consented
  <2> QED
    BY <1>3, <2>1, <2>2 DEF LInv, ConsentsMatchFamilies
<1>12. \A g \in Handlers : Kept(g)
  BY <1>3 DEF Kept, Row
<1> QED
  BY <1>8, <1>9, <1>10, <1>11, <1>12, Rests DEF Tables

LEMMA ShowConsentKeeps ==
    ASSUME LInv, LinkingAssumption, NEW h \in Handlers, ShowConsent(h)
    PROVE  LInv'
<1> DEFINE u == at[h].user
<1> DEFINE i == at[h].invite
<1>1. TypeOK /\ policy \in Policies
  BY TablesTyped DEF LInv
<1>2. /\ UNCHANGED <<role, profile, consents, invite, attempts, policy>>
      /\ pending' = [pending EXCEPT ![u] = [invite |-> i, screen |-> policy]]
      /\ at[h].step = "opened" /\ invite[i].kind = FromStudent /\ Leave(h)
  BY DEF ShowConsent, tables, FromStudent
<1>3. i \in Invites /\ u \in Users
  BY <1>1, <1>2, UpdateTyped DEF LInv, Stands
<1>4. Moves(h, Idle) /\ Stands(h)'
  BY <1>1, <1>2, Leaves
<1>5. /\ at' \in [Handlers -> Update]
      /\ \A g \in Handlers : g # h => at'[g] = at[g]
  BY <1>1, <1>4, OthersStay
<1>6. /\ pending' \in [Users -> [invite : Invites \cup {NoInvite}, screen : Policies \cup {0}]]
      /\ \A v \in Users : v # u => pending'[v] = pending[v]
      /\ pending'[u].invite = i
  BY <1>1, <1>2, <1>3, TablesTyped
<1>7. TypeOK'
  BY <1>1, <1>2, <1>5, <1>6, TablesTyped, TypedNext
<1>8. Rows' /\ Roles' /\ Versions'
  BY <1>2 DEF LInv, Rows, Roles, Versions
<1>9. ConsentsMatchFamilies'
  BY <1>2 DEF LInv, ConsentsMatchFamilies, Consented
<1>10. Links'
  BY <1>2, <1>3, <1>6 DEF LInv, Links
<1>11. ASSUME NEW g \in Handlers, g # h
       PROVE  Kept(g)
  <2>1. at[g].user \in Users => at[g].user # u
    BY <1>11, OtherUsers DEF LInv
  <2> QED
    BY <1>2, <1>5, <1>6, <1>11, <2>1 DEF Kept, Row
<1> QED
  BY <1>4, <1>7, <1>8, <1>9, <1>10, <1>11, Changes DEF Tables

\* A link that waited is gone.
LEMMA LinkGone ==
    ASSUME LInv, NEW u \in Users, pending' = [pending EXCEPT ![u] = NoLink],
           UNCHANGED <<tables, attempts, policy>>, at' \in [Handlers -> Update]
    PROVE  /\ TypeOK'
           /\ Tables'
           /\ \A g \in Handlers : at'[g] = at[g] => Kept(g)
<1>1. UNCHANGED <<role, profile, consents, invite>>
  BY DEF tables
<1>2. TypeOK
  BY DEF LInv
<1>3. /\ pending' \in [Users -> [invite : Invites \cup {NoInvite}, screen : Policies \cup {0}]]
      /\ \A v \in Users : pending'[v] = pending[v] \/ pending'[v] = NoLink
  BY <1>2, TablesTyped DEF NoLink
<1>4. TypeOK'
  BY <1>1, <1>2, <1>3, TablesTyped, TypedNext
<1>5. Rows' /\ Roles' /\ Versions' /\ Links'
  BY <1>1, <1>3 DEF LInv, Rows, Roles, Versions, Links
<1>6. ConsentsMatchFamilies'
  BY <1>1 DEF LInv, ConsentsMatchFamilies, Consented
<1>7. \A g \in Handlers : at'[g] = at[g] => Kept(g)
  BY <1>1, <1>3 DEF Kept, Row
<1> QED
  BY <1>4, <1>5, <1>6, <1>7 DEF Tables

LEMMA ClearPendingKeeps ==
    ASSUME LInv, NEW h \in Handlers, ClearPending(h)
    PROVE  LInv'
<1>1. TypeOK
  BY DEF LInv
<1>2. at[h].user \in Users
  BY <1>1, UpdateTyped DEF LInv, Stands, ClearPending
<1>3. Moves(h, Idle) /\ Stands(h)'
  BY <1>1, Leaves DEF ClearPending
<1>4. /\ at' \in [Handlers -> Update]
      /\ \A g \in Handlers : g # h => at'[g] = at[g]
  BY <1>1, <1>3, OthersStay
<1> QED
  BY <1>2, <1>3, <1>4, LinkGone, Changes DEF ClearPending

LEMMA ForgetKeeps ==
    ASSUME LInv, NEW u \in Users, Forget(u)
    PROVE  LInv'
<1>1. at \in [Handlers -> Update]
  BY TablesTyped DEF LInv
<1> QED
  BY <1>1, LinkGone, Rests DEF Forget

LEMMA ExpireKeeps ==
    ASSUME LInv, NEW i \in Invites, Expire(i)
    PROVE  LInv'
<1>1. TypeOK /\ at \in [Handlers -> Update]
  BY TablesTyped DEF LInv
<1>2. UNCHANGED <<role, profile, consents, pending, attempts, policy, at>>
  BY DEF Expire
<1>3. /\ invite' \in [Invites -> InviteRow]
      /\ \A j \in Invites : /\ invite'[j].kind = invite[j].kind
                            /\ invite'[j].by = invite[j].by
                            /\ invite'[j].version = invite[j].version
                            /\ invite'[j].used = invite[j].used
  BY <1>1, TablesTyped, ZenonT(60) DEF InviteRow, Expire
<1>4. TypeOK'
  BY <1>1, <1>2, <1>3, TablesTyped, TypedNext
<1>5. Rows' /\ Roles' /\ Versions' /\ Links'
  BY <1>2, <1>3 DEF LInv, Rows, Roles, Versions, Links
<1>6. ConsentsMatchFamilies'
  BY <1>2 DEF LInv, ConsentsMatchFamilies, Consented
<1>7. \A g \in Handlers : Kept(g)
  BY <1>2, <1>3 DEF Kept, Row
<1> QED
  BY <1>4, <1>5, <1>6, <1>7, Rests DEF Tables

\* Nothing an update stands on changes when only attempts do.
LEMMA WindowPassesKeeps ==
    ASSUME LInv, NEW u \in Users, WindowPasses(u)
    PROVE  LInv'
<1>1. TypeOK /\ at \in [Handlers -> Update]
  BY TablesTyped DEF LInv
<1>2. UNCHANGED <<role, profile, consents, invite, pending, policy, at>>
  BY DEF WindowPasses, tables
<1>3. attempts' \in [Users -> Nat]
  BY <1>1, TablesTyped DEF WindowPasses
<1>4. TypeOK'
  BY <1>1, <1>2, <1>3, TablesTyped, TypedNext
<1>5. Rows' /\ Roles' /\ Versions' /\ Links'
  BY <1>2 DEF LInv, Rows, Roles, Versions, Links
<1>6. ConsentsMatchFamilies'
  BY <1>2 DEF LInv, ConsentsMatchFamilies, Consented
<1>7. \A g \in Handlers : Kept(g)
  BY <1>2 DEF Kept, Row
<1> QED
  BY <1>4, <1>5, <1>6, <1>7, Rests DEF Tables

LEMMA StutterKeeps ==
    ASSUME LInv, UNCHANGED vars
    PROVE  LInv'
<1>1. TypeOK /\ at \in [Handlers -> Update]
  BY TablesTyped DEF LInv
<1>2. UNCHANGED <<role, profile, consents, invite, pending, attempts, policy, at>>
  BY DEF vars
<1>3. TypeOK'
  BY <1>1, <1>2, TablesTyped, TypedNext
<1>4. Rows' /\ Roles' /\ Versions' /\ Links'
  BY <1>2 DEF LInv, Rows, Roles, Versions, Links
<1>5. ConsentsMatchFamilies'
  BY <1>2 DEF LInv, ConsentsMatchFamilies, Consented
<1>6. \A g \in Handlers : Kept(g)
  BY <1>2 DEF Kept, Row
<1> QED
  BY <1>3, <1>4, <1>5, <1>6, Rests DEF Tables

LEMMA DeployKeeps ==
    ASSUME LInv, LinkingAssumption, NEW v \in Policies, Deploy(v)
    PROVE  LInv'
<1>1. TypeOK /\ policy \in Policies /\ consents \subseteq ConsentRow
  BY TablesTyped DEF LInv
<1>2. /\ UNCHANGED <<role, profile, consents, invite, pending, attempts>>
      /\ policy' = v /\ v > policy
      /\ at' = [h \in Handlers |-> Idle]
  BY DEF Deploy, tables
<1>3. TypeOK'
  <2>1. at' \in [Handlers -> Update]
    BY <1>2, IdleTyped
  <2> QED
    BY <1>1, <1>2, <2>1, TablesTyped, TypedNext
<1>4. \A w \in Policies : w \in Int
  BY DEF LinkingAssumption
<1>5. Rows' /\ Roles'
  BY <1>2 DEF LInv, Rows, Roles
<1>0. \A w \in Policies : w <= policy => w <= v
  <2> SUFFICES ASSUME NEW w \in Policies, w <= policy
               PROVE  w <= v
    OBVIOUS
  <2>1. w \in Int /\ policy \in Int /\ v \in Int
    BY <1>1, <1>4
  <2> QED
    BY <1>2, <2>1
<1>6. Versions'
  BY <1>0, <1>1, <1>2 DEF LInv, Versions, ConsentRow
<1>7. Links'
  BY <1>0, <1>2 DEF LInv, Links
<1>8. ConsentsMatchFamilies'
  BY <1>2 DEF LInv, ConsentsMatchFamilies, Consented
<1>9. \A h \in Handlers : at'[h].step = "idle" /\ at'[h].user = NoUser
  BY <1>2, IdleTyped
<1>10. OneUpdate' /\ OneTransaction'
  BY <1>9 DEF OneUpdate, OneTransaction, Locking, Reading
<1>11. \A h \in Handlers : Stands(h)'
  BY <1>9 DEF Stands, Locking, Reading, Answering
<1> QED
  BY <1>3, <1>5, <1>6, <1>7, <1>8, <1>10, <1>11 DEF LInv

-----------------------------------------------------------------------------
(* Redemptions.                                                            *)

LEMMA Redeemed ==
    ASSUME TypeOK, Links, NEW i \in Invites, invite[i].kind # "none",
           NEW x \in Users \cup {NoUser}, Redeem(i, x)
    PROVE  /\ invite' \in [Invites -> InviteRow]
           /\ \A j \in Invites : /\ invite'[j].kind = invite[j].kind
                                 /\ invite'[j].by = invite[j].by
                                 /\ invite'[j].version = invite[j].version
                                 /\ j # i => invite'[j] = invite[j]
           /\ \A j \in Invites : invite'[j].kind = "none" => ~invite'[j].used
<1>1. /\ invite' \in [Invites -> InviteRow]
      /\ \A j \in Invites : /\ invite'[j].kind = invite[j].kind
                            /\ invite'[j].by = invite[j].by
                            /\ invite'[j].version = invite[j].version
                            /\ j # i => invite'[j] = invite[j]
  <2>1. invite \in [Invites -> InviteRow] /\ invite[i] \in InviteRow
    BY TablesTyped
  <2>2. /\ \A j \in Invites : j # i => invite'[j] = invite[j]
        /\ DOMAIN invite' = Invites /\ invite' = [j \in Invites |-> invite'[j]]
    BY <2>1 DEF Redeem
  <2>3. invite'[i] = [[invite[i] EXCEPT !.used = TRUE] EXCEPT !.usedBy = x]
    BY <2>1 DEF Redeem, InviteRow
  <2>4. /\ invite'[i] \in InviteRow /\ invite'[i].kind = invite[i].kind
        /\ invite'[i].by = invite[i].by /\ invite'[i].version = invite[i].version
    BY <2>1, <2>3 DEF InviteRow
  <2> QED
    BY <2>1, <2>2, <2>4
<1> QED
  BY <1>1 DEF Links

\* A parent enters the row of a child that its transaction has locked.
GetsParent(p, q) == profile' = [profile EXCEPT ![p].parent = q]

LEMMA ParentAdded ==
    ASSUME LInv, LinkingAssumption, NEW h \in Handlers, NEW p \in Profiles, NEW q \in Users,
           at[h].step \in Reading, at[h].profile = p, GetsParent(p, q)
    PROVE  /\ profile' \in [Profiles -> ProfileRow]
           /\ profile'[p].kind = "row" /\ profile'[p].user = profile[p].user
           /\ profile'[p].parent = q
           /\ \A x \in Profiles : x # p => profile'[x] = profile[x]
           /\ profile[p].user # NoUser
           /\ ~Consented(p)
           /\ Rows'
           /\ \A g \in Handlers : g # h /\ at[g].step \in Reading \cup {"consent"} =>
                 at[g].profile # p
<1>1. TypeOK /\ consents \subseteq ConsentRow
  BY TablesTyped DEF LInv
<1>2. profile[p].kind = "row" /\ profile[p].parent = NoUser
  BY DEF LInv, Stands
<1>3. profile[p].user # NoUser
  <2>1. CASE at[h].step = "joinLocked"
    BY <2>1 DEF LInv, Stands
  <2>2. CASE at[h].step = "acceptRead"
    <3>1. at[h].invite \in Invites /\ invite[at[h].invite].kind = FromStudent
      BY <2>2 DEF LInv, Stands, Answering
    <3> QED
      BY <2>2, <3>1 DEF LInv, Stands, Links, LinkingAssumption
  <2> QED
    BY <2>1, <2>2 DEF Reading
<1>4. /\ profile' \in [Profiles -> ProfileRow]
      /\ profile'[p].kind = "row" /\ profile'[p].user = profile[p].user
      /\ profile'[p].parent = q
      /\ \A x \in Profiles : x # p => profile'[x] = profile[x]
  <2>1. profile \in [Profiles -> ProfileRow] /\ profile[p] \in ProfileRow
    BY <1>1, TablesTyped
  <2>2. /\ \A x \in Profiles : x # p => profile'[x] = profile[x]
        /\ profile' = [x \in Profiles |-> profile'[x]]
    BY <2>1 DEF GetsParent
  <2>3. profile'[p] = [profile[p] EXCEPT !.parent = q]
    BY <2>1 DEF GetsParent
  <2>4. /\ profile'[p] \in ProfileRow /\ profile'[p].kind = profile[p].kind
        /\ profile'[p].user = profile[p].user /\ profile'[p].parent = q
    BY <2>1, <2>3 DEF ProfileRow
  <2> QED
    BY <1>2, <2>1, <2>2, <2>4
<1>5. ~Consented(p)
  BY <1>1, <1>2 DEF Consented, LInv, ConsentsMatchFamilies, ConsentRow, LinkingAssumption
<1>6. Rows'
  BY <1>4 DEF LInv, Rows
<1>7. ASSUME NEW g \in Handlers, g # h, at[g].step \in Reading \cup {"consent"}
      PROVE  at[g].profile # p
  <2>1. CASE at[g].step \in Reading
    BY <1>7, <2>1 DEF LInv, OneTransaction
  <2>2. CASE at[g].step = "consent"
    BY <1>3, <2>2 DEF LInv, Stands
  <2> QED
    BY <1>7, <2>1, <2>2
<1> QED
  BY <1>3, <1>4, <1>5, <1>6, <1>7

\* The invitation a transaction has locked is nobody else's.
LEMMA LockedAlone ==
    ASSUME LInv, NEW h \in Handlers, at[h].step \in Locking, NEW g \in Handlers, g # h
    PROVE  at[g].step \in Locking => at[g].invite # at[h].invite
BY DEF LInv, OneTransaction

LEMMA JoinNewKeeps ==
    ASSUME LInv, LinkingAssumption, NEW h \in Handlers, NEW p \in Profiles, JoinNew(h, p)
    PROVE  LInv'
<1> DEFINE u == at[h].user
<1> DEFINE i == at[h].invite
<1> DEFINE by == invite[i].by
<1> DEFINE row == [FreeProfile EXCEPT !.kind = "row", !.user = u, !.parent = by]
<1>1. TypeOK
  BY DEF LInv
<1>2. /\ role' = [role EXCEPT ![u] = "student"] /\ profile' = [profile EXCEPT ![p] = row]
      /\ consents' = consents \cup {Consent(p, by, u, invite[i].version)}
      /\ Redeem(i, u) /\ Leave(h)
      /\ UNCHANGED <<pending, attempts, policy>>
      /\ at[h].step = "joinNew" /\ profile[p].kind = "none"
  BY DEF JoinNew, Agreed
<1>3. at[h].step \in Locking
  BY <1>2 DEF Locking
<1>4. /\ i \in Invites /\ u \in Users /\ role[u] = "none"
      /\ invite[i].kind = FromParent
  BY <1>1, <1>2, UpdateTyped DEF LInv, Stands
<1>5. /\ by \in Users /\ role[by] = "parent"
      /\ invite[i].version \in Policies /\ invite[i].version <= policy
  BY <1>4 DEF LInv, Links
<1>6. row.kind = "row" /\ row.user = u /\ row.parent = by /\ row \in ProfileRow
  BY <1>4, <1>5 DEF FreeProfile, ProfileRow
<1> HIDE DEF row
<1>7. /\ invite' \in [Invites -> InviteRow]
      /\ \A j \in Invites : /\ invite'[j].kind = invite[j].kind
                            /\ invite'[j].by = invite[j].by
                            /\ invite'[j].version = invite[j].version
                            /\ j # i => invite'[j] = invite[j]
      /\ \A j \in Invites : invite'[j].kind = "none" => ~invite'[j].used
  <2>1. invite[i].kind # "none"
    BY <1>4 DEF FromParent
  <2> QED
    BY <1>1, <1>2, <1>4, <2>1, Redeemed DEF LInv
<1>8. Moves(h, Idle) /\ Stands(h)'
  BY <1>1, <1>2, Leaves
<1>9. /\ at' \in [Handlers -> Update]
      /\ \A g \in Handlers : g # h => at'[g] = at[g]
  BY <1>1, <1>8, OthersStay
<1>10. /\ \A v \in Users : role'[v] = IF v = u THEN "student" ELSE role[v]
       /\ role' \in [Users -> {"none", "student", "parent"}]
       /\ \A x \in Profiles : profile'[x] = IF x = p THEN row ELSE profile[x]
       /\ profile' \in [Profiles -> ProfileRow]
  BY <1>1, <1>2, <1>6, TablesTyped
<1>11. Rows' /\ Roles'
  BY <1>1, <1>2, <1>4, <1>5, <1>6, StudentAdded DEF LInv
<1>12. ConsentsMatchFamilies' /\ consents' \subseteq ConsentRow
  <2>1. ~Consented(p)
    BY <1>2, ConsentedRows DEF LInv
  <2> QED
    BY <1>1, <1>2, <1>4, <1>5, <1>6, <1>10, <2>1, ConsentAdded DEF LInv
<1>13. TypeOK'
  BY <1>1, <1>2, <1>7, <1>9, <1>10, <1>12, TablesTyped, TypedNext
<1>14. Versions'
  BY <1>2, <1>5 DEF LInv, Versions, Consent
<1>15. Links'
  <2>1. \A j \in Invites :
          /\ invite'[j].kind = FromStudent => invite'[j].by \in Users /\ role'[invite'[j].by] = "student"
          /\ invite'[j].kind = FromParent => /\ invite'[j].by \in Users
                                             /\ role'[invite'[j].by] = "parent"
                                             /\ invite'[j].version \in Policies
                                             /\ invite'[j].version <= policy'
    BY <1>2, <1>4, <1>7, <1>10 DEF LInv, Links
  <2>2. \A v \in Users : \/ pending'[v] = NoLink
                         \/ /\ pending'[v].invite \in Invites
                            /\ invite'[pending'[v].invite].kind = FromStudent
    BY <1>2, <1>7 DEF LInv, Links
  <2> QED
    BY <1>7, <2>1, <2>2 DEF Links
<1>16. ASSUME NEW g \in Handlers, g # h
       PROVE  Kept(g)
  <2>1. at[g].user \in Users => at[g].user # u
    BY <1>16, OtherUsers DEF LInv
  <2>2. at[g].step \in Locking => at[g].invite # i
    BY <1>3, <1>16, LockedAlone
  <2>3. at[g].step \in Reading \cup {"consent"} => at[g].profile # p
    BY <1>2 DEF LInv, Stands
  <2> QED
    BY <1>2, <1>7, <1>9, <1>10, <1>16, <2>1, <2>2, <2>3 DEF Kept, Row
<1> QED
  BY <1>8, <1>11, <1>12, <1>13, <1>14, <1>15, <1>16, Changes DEF Tables

LEMMA JoinOwnKeeps ==
    ASSUME LInv, LinkingAssumption, NEW h \in Handlers, JoinOwn(h)
    PROVE  LInv'
<1> DEFINE u == at[h].user
<1> DEFINE p == at[h].profile
<1> DEFINE i == at[h].invite
<1> DEFINE by == invite[i].by
<1>1. TypeOK
  BY DEF LInv
<1>2. /\ profile' = [profile EXCEPT ![p].parent = by]
      /\ consents' = consents \cup {Consent(p, by, u, invite[i].version)}
      /\ Redeem(i, u) /\ Leave(h)
      /\ UNCHANGED <<role, pending, attempts, policy>>
      /\ at[h].step = "joinLocked"
  BY DEF JoinOwn, Agreed
<1>3. at[h].step \in Locking /\ at[h].step \in Reading
  BY <1>2 DEF Locking, Reading
<1>4. /\ i \in Invites /\ p \in Profiles /\ u \in Users
      /\ invite[i].kind = FromParent /\ profile[p].user = u
  BY <1>1, <1>2, <1>3, UpdateTyped DEF LInv, Stands
<1>5. /\ by \in Users /\ role[by] = "parent"
      /\ invite[i].version \in Policies /\ invite[i].version <= policy
  BY <1>4 DEF LInv, Links
<1>6. /\ invite' \in [Invites -> InviteRow]
      /\ \A j \in Invites : /\ invite'[j].kind = invite[j].kind
                            /\ invite'[j].by = invite[j].by
                            /\ invite'[j].version = invite[j].version
                            /\ j # i => invite'[j] = invite[j]
      /\ \A j \in Invites : invite'[j].kind = "none" => ~invite'[j].used
  <2>1. invite[i].kind # "none"
    BY <1>4 DEF FromParent
  <2> QED
    BY <1>1, <1>2, <1>4, <2>1, Redeemed DEF LInv
<1>7. /\ profile' \in [Profiles -> ProfileRow]
      /\ profile'[p].kind = "row" /\ profile'[p].user = u /\ profile'[p].parent = by
      /\ \A x \in Profiles : x # p => profile'[x] = profile[x]
      /\ ~Consented(p)
      /\ Rows'
      /\ \A g \in Handlers : g # h /\ at[g].step \in Reading \cup {"consent"} =>
            at[g].profile # p
  <2> HIDE DEF u, p, i, by
  <2>1. at[h].profile = p
    BY DEF p
  <2>2. GetsParent(p, by)
    BY <1>2 DEF GetsParent
  <2> QED
    BY <1>3, <1>4, <1>5, <2>1, <2>2, ParentAdded
<1>8. Moves(h, Idle) /\ Stands(h)'
  BY <1>1, <1>2, Leaves
<1>9. /\ at' \in [Handlers -> Update]
      /\ \A g \in Handlers : g # h => at'[g] = at[g]
  BY <1>1, <1>8, OthersStay, SMTT(60)
<1>10. ConsentsMatchFamilies' /\ consents' \subseteq ConsentRow
  BY <1>1, <1>2, <1>4, <1>5, <1>7, ConsentAdded DEF LInv
<1>11. TypeOK'
  BY <1>1, <1>2, <1>6, <1>7, <1>9, <1>10, TablesTyped, TypedNext
<1>12. Roles'
  <2>1. \A x \in Profiles : /\ profile'[x].user = profile[x].user
                            /\ profile'[x].parent \in {profile[x].parent, by}
    BY <1>4, <1>7
  <2> QED
    BY <1>2, <1>5, <2>1 DEF LInv, Roles
<1>13. Versions'
  BY <1>2, <1>5 DEF LInv, Versions, Consent
<1>14. Links'
  BY <1>2, <1>6 DEF LInv, Links
<1>15. ASSUME NEW g \in Handlers, g # h
       PROVE  Kept(g)
  <2>1. at[g].step \in Locking => at[g].invite # i
    BY <1>3, <1>15, LockedAlone
  <2> QED
    BY <1>2, <1>6, <1>7, <1>9, <1>15, <2>1 DEF Kept, Row
<1> QED
  BY <1>7, <1>8, <1>10, <1>11, <1>12, <1>13, <1>14, <1>15, Changes DEF Tables

LEMMA AcceptLinkKeeps ==
    ASSUME LInv, LinkingAssumption, NEW h \in Handlers, AcceptLink(h)
    PROVE  LInv'
<1> DEFINE u == at[h].user
<1> DEFINE p == at[h].profile
<1> DEFINE i == at[h].invite
<1> DEFINE by == invite[i].by
<1>1. TypeOK /\ policy \in Policies
  BY TablesTyped DEF LInv
<1>2. /\ role' = [role EXCEPT ![u] = "parent"]
      /\ profile' = [profile EXCEPT ![p].parent = u]
      /\ consents' = consents \cup {Consent(p, u, by, policy)}
      /\ Redeem(i, u) /\ Goto(h, "answered")
      /\ UNCHANGED <<pending, attempts, policy>>
      /\ at[h].step = "acceptRead"
  BY DEF AcceptLink
<1>3. at[h].step \in Locking /\ at[h].step \in Reading /\ at[h].step \in Answering
  BY <1>2 DEF Locking, Reading, Answering
<1>4. /\ i \in Invites /\ p \in Profiles /\ u \in Users /\ u # NoUser
      /\ invite[i].kind = FromStudent /\ profile[p].user = by /\ role[u] # "student"
      /\ pending[u] = NoLink \/ pending[u].invite = i
  BY <1>1, <1>2, <1>3, UpdateTyped DEF LInv, Stands
<1>5. by \in Users /\ role[by] = "student"
  BY <1>4 DEF LInv, Links
<1>6. /\ invite' \in [Invites -> InviteRow]
      /\ \A j \in Invites : /\ invite'[j].kind = invite[j].kind
                            /\ invite'[j].by = invite[j].by
                            /\ invite'[j].version = invite[j].version
                            /\ j # i => invite'[j] = invite[j]
      /\ \A j \in Invites : invite'[j].kind = "none" => ~invite'[j].used
  <2>1. invite[i].kind # "none"
    BY <1>4 DEF FromStudent
  <2> QED
    BY <1>1, <1>2, <1>4, <2>1, Redeemed DEF LInv
<1>7. /\ profile' \in [Profiles -> ProfileRow]
      /\ profile'[p].kind = "row" /\ profile'[p].user = by /\ profile'[p].parent = u
      /\ \A x \in Profiles : x # p => profile'[x] = profile[x]
      /\ ~Consented(p)
      /\ Rows'
      /\ \A g \in Handlers : g # h /\ at[g].step \in Reading \cup {"consent"} =>
            at[g].profile # p
  <2> HIDE DEF u, p, i, by
  <2>1. at[h].profile = p
    BY DEF p
  <2>2. GetsParent(p, u)
    BY <1>2 DEF GetsParent
  <2> QED
    BY <1>3, <1>4, <2>1, <2>2, ParentAdded
<1>8. /\ role' \in [Users -> {"none", "student", "parent"}]
      /\ \A v \in Users : /\ role[v] = "parent" => role'[v] = "parent"
                          /\ role[v] = "student" <=> role'[v] = "student"
                          /\ v # u => role'[v] = role[v]
      /\ role'[u] = "parent"
  BY <1>1, <1>2, <1>4, BecomesParent
<1>9. /\ Moves(h, [at[h] EXCEPT !.step = "answered"])
      /\ at'[h].step = "answered" /\ at'[h].user = u /\ at'[h].invite = i
  BY <1>1, <1>2, Goes DEF Steps, Locking, Reading
<1>10. /\ at' \in [Handlers -> Update]
       /\ \A g \in Handlers : g # h => at'[g] = at[g]
  BY <1>1, <1>9, OthersStay
<1>11. Stands(h)'
  BY <1>2, <1>4, <1>6, <1>8, <1>9 DEF Stands, Locking, Reading, Answering
<1>12. ConsentsMatchFamilies' /\ consents' \subseteq ConsentRow
  BY <1>1, <1>2, <1>4, <1>5, <1>7, ConsentAdded DEF LInv
<1>13. TypeOK'
  BY <1>1, <1>2, <1>6, <1>7, <1>8, <1>10, <1>12, TablesTyped, TypedNext
<1>14. Roles'
  <2>1. \A x \in Profiles : /\ profile'[x].user = profile[x].user
                            /\ profile'[x].parent \in {profile[x].parent, u}
    BY <1>4, <1>7
  <2>2. \A x \in Profiles : profile[x].user \in Users \cup {NoUser}
                            /\ profile[x].parent \in Users \cup {NoUser}
    BY <1>1, TablesTyped DEF ProfileRow
  <2> QED
    BY <1>8, <2>1, <2>2 DEF LInv, Roles
<1>15. Versions'
  <2>1. policy <= policy
    BY <1>1 DEF LinkingAssumption
  <2> QED
    BY <1>2, <2>1 DEF LInv, Versions, Consent
<1>16. Links'
  BY <1>2, <1>6, <1>8 DEF LInv, Links
<1>17. ASSUME NEW g \in Handlers, g # h
       PROVE  Kept(g)
  <2>1. at[g].user \in Users => at[g].user # u
    BY <1>17, OtherUsers DEF LInv
  <2>2. at[g].step \in Locking => at[g].invite # i
    BY <1>3, <1>17, LockedAlone
  <2> QED
    BY <1>2, <1>6, <1>7, <1>8, <1>10, <1>17, <2>1, <2>2 DEF Kept, Row
<1> QED
  BY <1>7, <1>9, <1>11, <1>12, <1>13, <1>14, <1>15, <1>16, <1>17, Changes DEF Tables

LEMMA DeclineLinkKeeps ==
    ASSUME LInv, LinkingAssumption, NEW h \in Handlers, NEW p \in Profiles, DeclineLink(h, p)
    PROVE  LInv'
<1> DEFINE u == at[h].user
<1> DEFINE i == at[h].invite
<1>1. TypeOK
  BY DEF LInv
<1>2. /\ Redeem(i, NoUser) /\ Goto(h, "answered")
      /\ UNCHANGED <<role, profile, consents, pending, attempts, policy>>
      /\ at[h].step = "declineLocked"
  BY DEF DeclineLink
<1>3. at[h].step \in Locking /\ at[h].step \in Answering
  BY <1>2 DEF Locking, Answering
<1>4. /\ i \in Invites /\ u # NoUser
      /\ invite[i].kind = FromStudent /\ role[u] # "student"
      /\ pending[u] = NoLink \/ pending[u].invite = i
  BY <1>2, <1>3 DEF LInv, Stands
<1>5. /\ invite' \in [Invites -> InviteRow]
      /\ \A j \in Invites : /\ invite'[j].kind = invite[j].kind
                            /\ invite'[j].by = invite[j].by
                            /\ invite'[j].version = invite[j].version
                            /\ j # i => invite'[j] = invite[j]
      /\ \A j \in Invites : invite'[j].kind = "none" => ~invite'[j].used
  <2>1. invite[i].kind # "none"
    BY <1>4 DEF FromStudent
  <2> QED
    BY <1>1, <1>2, <1>4, <2>1, Redeemed DEF LInv
<1>6. /\ Moves(h, [at[h] EXCEPT !.step = "answered"])
      /\ at'[h].step = "answered" /\ at'[h].user = u /\ at'[h].invite = i
  BY <1>1, <1>2, Goes DEF Steps, Locking, Reading
<1>7. /\ at' \in [Handlers -> Update]
      /\ \A g \in Handlers : g # h => at'[g] = at[g]
  BY <1>1, <1>6, OthersStay
<1>8. Stands(h)'
  BY <1>2, <1>4, <1>5, <1>6 DEF Stands, Locking, Reading, Answering
<1>9. TypeOK'
  BY <1>1, <1>2, <1>5, <1>7, TablesTyped, TypedNext
<1>10. Rows' /\ Roles' /\ Versions'
  BY <1>2 DEF LInv, Rows, Roles, Versions
<1>11. ConsentsMatchFamilies'
  BY <1>2 DEF LInv, ConsentsMatchFamilies, Consented
<1>12. Links'
  BY <1>2, <1>5 DEF LInv, Links
<1>13. ASSUME NEW g \in Handlers, g # h
       PROVE  Kept(g)
  <2>1. at[g].step \in Locking => at[g].invite # i
    BY <1>3, <1>13, LockedAlone
  <2> QED
    BY <1>2, <1>5, <1>7, <1>13, <2>1 DEF Kept, Row
<1> QED
  BY <1>6, <1>8, <1>9, <1>10, <1>11, <1>12, <1>13, Changes DEF Tables

-----------------------------------------------------------------------------
(* The invariant.                                                          *)

LEMMA LInvInit ==
    ASSUME LinkingAssumption, Init
    PROVE  LInv
<1>1. /\ \A u \in Users : role[u] = "none" /\ pending[u] = NoLink
      /\ \A p \in Profiles : profile[p] = FreeProfile
      /\ \A i \in Invites : invite[i] = FreeInvite
      /\ consents = {}
      /\ \A h \in Handlers : at[h] = Idle
  BY DEF Init
<1>2. TypeOK
  <2>1. /\ FreeProfile \in ProfileRow /\ FreeInvite \in InviteRow
        /\ NoLink \in [invite : Invites \cup {NoInvite}, screen : Policies \cup {0}]
    BY DEF FreeProfile, ProfileRow, FreeInvite, InviteRow, NoLink
  <2> QED
    BY <2>1, IdleTyped, TablesTyped DEF Init
<1>3. FreeProfile.kind = "none" /\ FreeProfile.user = NoUser /\ FreeProfile.parent = NoUser
  BY DEF FreeProfile
<1>4. FreeInvite.kind = "none" /\ ~FreeInvite.used
  BY DEF FreeInvite
<1>5. Rows /\ Roles
  BY <1>1, <1>3 DEF Rows, Roles
<1>6. Links
  BY <1>1, <1>4 DEF Links, FromStudent, FromParent
<1>7. ConsentsMatchFamilies /\ Versions
  BY <1>1, <1>3 DEF ConsentsMatchFamilies, Versions
<1>8. \A h \in Handlers : at[h].step = "idle" /\ at[h].user = NoUser
  BY <1>1, IdleTyped
<1>9. OneUpdate /\ OneTransaction
  BY <1>8 DEF OneUpdate, OneTransaction, Locking, Reading
<1>10. \A h \in Handlers : Stands(h)
  BY <1>8 DEF Stands, Locking, Reading, Answering
<1> QED
  BY <1>2, <1>5, <1>6, <1>7, <1>9, <1>10 DEF LInv

LEMMA LInvNext ==
    ASSUME LInv, LinkingAssumption, [Next]_vars
    PROVE  LInv'
<1>1. ASSUME NEW h \in Handlers, Students(h)
      PROVE  LInv'
  BY <1>1, RegisterStudentKeeps, ChooseSubjectKeeps, AskAgainKeeps, InviteParentKeeps DEF Students
<1>2. ASSUME NEW h \in Handlers, ParentSteps(h)
      PROVE  LInv'
  BY <1>2, BecomeParentKeeps, ChooseChildSubjectKeeps, AgreeForChildKeeps, RenewConsentKeeps,
     StartChildKeeps, OfferLinkKeeps, GiveConsentKeeps DEF ParentSteps
<1>3. ASSUME NEW h \in Handlers, Opening(h)
      PROVE  LInv'
  BY <1>3, OpenLinkKeeps, EnterCodeKeeps, RecordAttemptKeeps, RefuseOpenedKeeps,
     ShowConsentKeeps, JoinByLinkKeeps DEF Opening
<1>4. ASSUME NEW h \in Handlers, Accepting(h)
      PROVE  LInv'
  BY <1>4, LockForChildKeeps, JoinOwnKeeps, JoinNewKeeps, LockOwnProfileKeeps, AnswerKeeps,
     LockForParentKeeps, AcceptLinkKeeps, ClearPendingKeeps, LockForAcceptKeeps, DeclineLinkKeeps
  DEF Accepting
<1>5. CASE Environment
  BY <1>5, ExpireKeeps, ForgetKeeps, WindowPassesKeeps, FailKeeps, DeployKeeps DEF Environment
<1>6. CASE UNCHANGED vars
  BY <1>6, StutterKeeps
<1> QED
  BY <1>1, <1>2, <1>3, <1>4, <1>5, <1>6 DEF Next

\* The invariant holds in every state.
THEOREM LinkingInvariant == Spec => []LInv
<1> USE LinkingAssumption
<1>1. Init => LInv
  BY LInvInit
<1>2. LInv /\ [Next]_vars => LInv'
  BY LInvNext
<1> QED
  BY <1>1, <1>2, PTL DEF Spec

-----------------------------------------------------------------------------
(***************************************************************************)
(* Accounts, profiles and consents tell one story.                         *)
(***************************************************************************)

LEMMA AccountsMatch ==
    ASSUME LInv, LinkingAssumption
    PROVE  AccountsMatchProfiles
<1>1. ASSUME NEW u \in Users
      PROVE  \E s \in SUBSET Profiles :
                s = Own(u) /\ Cardinality(s) = IF role[u] = "student" THEN 1 ELSE 0
  <2>1. u # NoUser
    BY DEF LinkingAssumption
  <2>2. Own(u) \in SUBSET Profiles
    BY DEF Own
  <2>3. CASE role[u] = "student"
    <3>1. PICK p \in Profiles : profile[p].user = u
      BY <2>3 DEF LInv, Roles
    <3>2. Own(u) = {p}
      BY <2>1, <3>1 DEF Own, LInv, Rows, Roles
    <3>3. Cardinality({p}) = 1
      BY FS_Singleton
    <3> QED
      BY <2>2, <2>3, <3>2, <3>3
  <2>4. CASE role[u] # "student"
    <3>1. Own(u) = {}
      BY <2>1, <2>4 DEF Own, LInv, Roles
    <3>2. Cardinality({}) = 0
      BY FS_EmptySet
    <3> QED
      BY <2>2, <2>4, <3>1, <3>2
  <2> QED
    BY <2>3, <2>4
<1> QED
  BY <1>1 DEF AccountsMatchProfiles, LInv, Roles

\* A student has exactly one profile, a parent's account is one of a parent, a child has at most
\* one consent in force and it is its parent's, and what a transaction read of an account or a
\* profile still holds when it writes: whatever users press, however their updates interleave,
\* fail or are cut off by a deploy.
THEOREM FamiliesMatch == Spec => []MembersMatch
<1>1. LInv => MembersMatch
  <2> SUFFICES ASSUME LInv
               PROVE  MembersMatch
    OBVIOUS
  <2>1. AccountsMatchProfiles
    BY AccountsMatch, LinkingAssumption
  <2>2. ReadsStand
    BY DEF LInv, Stands, ReadsStand, Reading
  <2> QED
    BY <2>1, <2>2 DEF MembersMatch, LInv
<1> QED
  BY <1>1, LinkingInvariant, PTL

-----------------------------------------------------------------------------
(***************************************************************************)
(* A link counts once.                                                     *)
(***************************************************************************)

\* Who used invitation i, if anybody, stays who used it.
StaysUsed(i) == invite[i].used => invite'[i].used /\ invite'[i].usedBy = invite[i].usedBy

LEMMA RedeemsUnused ==
    ASSUME LInv, NEW h \in Handlers, at[h].step \in Locking, NEW x, Redeem(at[h].invite, x)
    PROVE  \A i \in Invites : StaysUsed(i)
<1>1. ~invite[at[h].invite].used
  BY DEF LInv, Stands
<1>2. invite \in [Invites -> InviteRow]
  BY TablesTyped DEF LInv
<1>3. \A i \in Invites : i # at[h].invite => invite'[i] = invite[i]
  BY <1>2 DEF Redeem
<1> QED
  BY <1>1, <1>3 DEF StaysUsed

LEMMA MadeUnused ==
    ASSUME LInv, NEW i \in Invites, invite[i].kind = "none", NEW row,
           invite' = [invite EXCEPT ![i] = row]
    PROVE  \A j \in Invites : StaysUsed(j)
<1>1. ~invite[i].used
  BY DEF LInv, Links
<1>2. invite \in [Invites -> InviteRow]
  BY TablesTyped DEF LInv
<1>3. \A j \in Invites : j # i => invite'[j] = invite[j]
  BY <1>2
<1> QED
  BY <1>1, <1>3 DEF StaysUsed

LEMMA StepsStayUsed ==
    ASSUME LInv, [Next]_vars
    PROVE  \A i \in Invites : StaysUsed(i)
<1>1. CASE invite' = invite
  BY <1>1 DEF StaysUsed
<1>2. ASSUME NEW h \in Handlers, Students(h), invite' # invite
      PROVE  \A i \in Invites : StaysUsed(i)
  <2>1. PICK i \in Invites : InviteParent(h, i)
    BY <1>2 DEF Students, RegisterStudent, ChooseSubject, AskAgain, tables
  <2> QED
    BY <2>1, MadeUnused DEF InviteParent
<1>3. ASSUME NEW h \in Handlers, ParentSteps(h), invite' # invite
      PROVE  \A i \in Invites : StaysUsed(i)
  <2>1. PICK i \in Invites : OfferLink(h, i)
    BY <1>3 DEF ParentSteps, BecomeParent, ChooseChildSubject, AgreeForChild, RenewConsent,
                StartChild, GiveConsent, tables
  <2> QED
    BY <2>1, MadeUnused DEF OfferLink
<1>4. ASSUME NEW h \in Handlers, Opening(h)
      PROVE  invite' = invite
  BY <1>4 DEF Opening, OpenLink, EnterCode, RecordAttempt, RefuseOpened, ShowConsent, JoinByLink,
              tables
<1>5. ASSUME NEW h \in Handlers, Accepting(h), invite' # invite
      PROVE  \A i \in Invites : StaysUsed(i)
  <2>1. \/ JoinOwn(h) \/ AcceptLink(h)
        \/ \E p \in Profiles : JoinNew(h, p) \/ DeclineLink(h, p)
    BY <1>5 DEF Accepting, LockForChild, LockOwnProfile, Answer, LockForParent, ClearPending,
                LockForAccept, tables
  <2>2. at[h].step \in Locking
    BY <2>1, SMTT(60) DEF JoinOwn, AcceptLink, JoinNew, DeclineLink, Locking
  <2>3. \E x : Redeem(at[h].invite, x)
    BY <2>1 DEF JoinOwn, AcceptLink, JoinNew, DeclineLink, Agreed
  <2> QED
    BY <2>2, <2>3, RedeemsUnused
<1>6. ASSUME NEW i \in Invites, Expire(i)
      PROVE  \A j \in Invites : StaysUsed(j)
  <2>1. ~invite[i].used /\ invite \in [Invites -> InviteRow]
    BY <1>6, TablesTyped DEF LInv, Expire
  <2>2. \A j \in Invites : j # i => invite'[j] = invite[j]
    BY <1>6, <2>1 DEF Expire
  <2> QED
    BY <2>1, <2>2 DEF StaysUsed
<1>7. CASE Environment
  BY <1>1, <1>6, <1>7 DEF Environment, Forget, WindowPasses, Fail, Deploy, tables
<1>8. CASE UNCHANGED vars
  BY <1>1, <1>8 DEF vars
<1> QED
  BY <1>1, <1>2, <1>3, <1>4, <1>5, <1>7, <1>8 DEF Next

\* A link counts once: who used an invitation stays who used it, however many updates were
\* opening or answering it, and an answer takes away the link it answers, never one that was
\* opened while its transaction waited.
THEOREM LinksOnce == Spec => LinksAnsweredOnce
<1>1. LInv /\ [Next]_vars =>
         [\A i \in Invites : invite[i].used =>
             invite'[i].used /\ invite'[i].usedBy = invite[i].usedBy]_vars
  BY StepsStayUsed DEF StaysUsed
<1>2. LInv /\ [Next]_vars =>
         [\A h \in Handlers : ClearPending(h) =>
             pending[at[h].user] = NoLink \/ pending[at[h].user].invite = at[h].invite]_vars
  BY DEF LInv, Stands, Answering, ClearPending
<1> QED
  BY <1>1, <1>2, LinkingInvariant, PTL DEF Spec, LinksAnsweredOnce, RedeemedOnce, AnswersItsLink

-----------------------------------------------------------------------------
(***************************************************************************)
(* The onboarding implements Family.                                       *)
(***************************************************************************)

kids == [p \in Profiles |-> ChildOf(p)]

Chosen(C, p) == CHOOSE c \in C : c.profile = p /\ c.active

LEMMA OnlyChoice ==
    ASSUME NEW C, NEW p, NEW c \in C, c.profile = p, c.active,
           \A d \in C : d.active /\ d.profile = p => d = c
    PROVE  Chosen(C, p) = c
BY DEF Chosen

LEMMA PolicyNow ==
    ASSUME ConsentsMatchFamilies, NEW c \in consents, c.active
    PROVE  PolicyOf(c.profile) = c.version
<1>1. Chosen(consents, c.profile) = c
  BY OnlyChoice DEF ConsentsMatchFamilies
<1>2. Consented(c.profile)
  BY DEF Consented
<1> QED
  BY <1>1, <1>2 DEF PolicyOf, Chosen

LEMMA PolicyNext ==
    ASSUME ConsentsMatchFamilies', NEW c \in consents', c.active
    PROVE  PolicyOf(c.profile)' = c.version
<1>1. Chosen(consents', c.profile) = c
  BY OnlyChoice DEF ConsentsMatchFamilies
<1>2. Consented(c.profile)'
  BY DEF Consented
<1> QED
  BY <1>1, <1>2 DEF PolicyOf, Chosen

\* A child whose row and whose consent in force stay.
LEMMA SameChild ==
    ASSUME ConsentsMatchFamilies, ConsentsMatchFamilies', NEW p \in Profiles,
           profile'[p].kind = profile[p].kind, profile'[p].user = profile[p].user,
           profile'[p].parent = profile[p].parent,
           \A c \in consents \cup consents' : c.active /\ c.profile = p =>
              c \in consents /\ c \in consents'
    PROVE  ChildOf(p)' = ChildOf(p)
<1>1. PolicyOf(p)' = PolicyOf(p)
  <2>1. CASE Consented(p)
    <3>1. PICK c \in consents : c.profile = p /\ c.active
      BY <2>1 DEF Consented
    <3>2. c \in consents'
      BY <3>1
    <3> QED
      BY <3>1, <3>2, PolicyNow, PolicyNext
  <2>2. CASE ~Consented(p)
    <3>1. ~Consented(p)'
      BY <2>2 DEF Consented
    <3> QED
      BY <2>2, <3>1 DEF PolicyOf
  <2> QED
    BY <2>1, <2>2
<1> QED
  BY <1>1 DEF ChildOf

\* Only one child changes.
LEMMA OneChild ==
    ASSUME NEW p \in Profiles, NEW r, ChildOf(p)' = r,
           \A x \in Profiles : x # p => ChildOf(x)' = ChildOf(x)
    PROVE  kids' = [kids EXCEPT ![p] = r]
BY DEF kids

\* What the steps of Family make of a child.
Owned(r) == [r EXCEPT !.kind = "own"]
Agrees(r, v) == [r EXCEPT !.policy = v]
Linked(r, q, v) == [[r EXCEPT !.parent = q] EXCEPT !.policy = v]

LEMMA OwnedIs ==
    ASSUME NEW k, NEW x, NEW w
    PROVE  Owned([kind |-> k, parent |-> x, policy |-> w])
              = [kind |-> "own", parent |-> x, policy |-> w]
BY DEF Owned

LEMMA AgreesIs ==
    ASSUME NEW k, NEW x, NEW w, NEW v
    PROVE  Agrees([kind |-> k, parent |-> x, policy |-> w], v)
              = [kind |-> k, parent |-> x, policy |-> v]
BY DEF Agrees

LEMMA LinkedIs ==
    ASSUME NEW k, NEW x, NEW w, NEW q, NEW v
    PROVE  Linked([kind |-> k, parent |-> x, policy |-> w], q, v)
              = [kind |-> k, parent |-> q, policy |-> v]
<1>1. [[kind |-> k, parent |-> x, policy |-> w] EXCEPT !.parent = q]
         = [kind |-> k, parent |-> q, policy |-> w]
  OBVIOUS
<1>2. [[kind |-> k, parent |-> q, policy |-> w] EXCEPT !.policy = v]
         = [kind |-> k, parent |-> q, policy |-> v]
  OBVIOUS
<1> QED
  BY <1>1, <1>2, Zenon DEF Linked

\* A step in which one child changes, in the terms of Family.
LEMMA FamilyStep ==
    ASSUME LinkingAssumption, NEW p \in Profiles, NEW k, NEW x, NEW w, NEW l, NEW y, NEW v,
           ChildOf(p) = [kind |-> k, parent |-> x, policy |-> w],
           ChildOf(p)' = [kind |-> l, parent |-> y, policy |-> v],
           \A z \in Profiles : z # p => ChildOf(z)' = ChildOf(z),
           \/ k = "none" /\ l = "own" /\ y = x /\ v = w
           \/ k = "none" /\ l = "own" /\ y \in Users /\ v \in Policies
           \/ k = "own" /\ l = "own" /\ x = NoUser /\ y \in Users /\ v \in Policies
           \/ k = "young" /\ l = "young" /\ y = x /\ w = 0 /\ v \in Policies
           \/ l = k /\ y = x /\ w \in Policies /\ v \in Policies /\ v > w
    PROVE  F!FNext
<1> DEFINE r == [kind |-> l, parent |-> y, policy |-> v]
<1>1. kids[p] = [kind |-> k, parent |-> x, policy |-> w]
  BY DEF kids
<1>2. kids' = [kids EXCEPT ![p] = r] /\ kids'[p] = r
  BY DEF kids
<1>3. kids[p].kind = k /\ kids[p].parent = x /\ kids[p].policy = w
  BY <1>1
<1>4. \A n \in Policies : n \in Int /\ n # 0
  BY DEF LinkingAssumption
<1>5. r.kind = l /\ r.parent = y /\ r.policy = v
  OBVIOUS
<1> HIDE DEF r
<1>6. CASE k = "none" /\ l = "own" /\ y = x /\ v = w
  <2>1. r = Owned(kids[p])
    BY <1>1, <1>6, OwnedIs DEF r
  <2>2. F!Register(p)
    BY <1>2, <1>3, <1>6, <2>1 DEF F!Register, kids, Owned
  <2>3. kids'[p] # kids[p]
    BY <1>2, <1>3, <1>5, <1>6
  <2> QED
    BY <2>2, <2>3 DEF F!FNext, kids
<1>7. CASE k = "none" /\ l = "own" /\ y \in Users /\ v \in Policies
  <2>1. F!RegisterLinked(p, y, v)
    BY <1>2, <1>3, <1>7 DEF F!RegisterLinked, kids, r
  <2>2. kids'[p] # kids[p]
    BY <1>2, <1>3, <1>5, <1>7
  <2> QED
    BY <1>7, <2>1, <2>2 DEF F!FNext, kids
<1>8. CASE k = "own" /\ l = "own" /\ x = NoUser /\ y \in Users /\ v \in Policies
  <2>1. r = Linked(kids[p], y, v)
    BY <1>1, <1>8, LinkedIs DEF r
  <2>2. F!Link(p, y, v)
    BY <1>2, <1>3, <1>8, <2>1 DEF F!Link, kids, Linked
  <2>3. kids'[p] # kids[p]
    BY <1>2, <1>3, <1>5, <1>8 DEF LinkingAssumption
  <2> QED
    BY <1>8, <2>2, <2>3 DEF F!FNext, kids
<1>9. CASE k = "young" /\ l = "young" /\ y = x /\ w = 0 /\ v \in Policies
  <2>1. r = Agrees(kids[p], v)
    BY <1>1, <1>9, AgreesIs DEF r
  <2>2. F!Agree(p, v)
    BY <1>2, <1>3, <1>9, <2>1 DEF F!Agree, kids, Agrees
  <2>3. kids'[p] # kids[p]
    BY <1>2, <1>3, <1>4, <1>5, <1>9
  <2> QED
    BY <1>9, <2>2, <2>3 DEF F!FNext, kids
<1>10. CASE l = k /\ y = x /\ w \in Policies /\ v \in Policies /\ v > w
  <2>1. r = Agrees(kids[p], v)
    BY <1>1, <1>10, AgreesIs DEF r
  <2>2. w # 0 /\ v # w
    BY <1>4, <1>10
  <2>3. F!Renew(p, v)
    BY <1>2, <1>3, <1>10, <2>1, <2>2 DEF F!Renew, kids, Agrees
  <2>4. kids'[p] # kids[p]
    BY <1>2, <1>3, <1>5, <1>10, <2>2
  <2> QED
    BY <1>10, <2>3, <2>4 DEF F!FNext, kids
<1> QED
  BY <1>6, <1>7, <1>8, <1>9, <1>10

\* A child known by its row and its consents.
LEMMA NoConsent ==
    ASSUME NEW p \in Profiles, ~Consented(p)
    PROVE  PolicyOf(p) = 0
BY DEF PolicyOf

LEMMA SomeConsent ==
    ASSUME LInv, LinkingAssumption, NEW p \in Profiles, Consented(p)
    PROVE  PolicyOf(p) \in Policies /\ PolicyOf(p) # 0
<1>1. PICK c \in consents : c.profile = p /\ c.active
  BY DEF Consented
<1>2. PolicyOf(p) = c.version
  BY <1>1, PolicyNow DEF LInv
<1>3. c.version \in Policies
  BY TablesTyped DEF LInv, ConsentRow
<1> QED
  BY <1>2, <1>3 DEF LinkingAssumption

LEMMA KidsStay ==
    ASSUME LInv, LInv', consents' = consents,
           \A p \in Profiles : /\ profile'[p].kind = profile[p].kind
                               /\ profile'[p].user = profile[p].user
                               /\ profile'[p].parent = profile[p].parent
    PROVE  kids' = kids
<1>1. \A p \in Profiles : ChildOf(p)' = ChildOf(p)
  BY SameChild DEF LInv
<1> QED
  BY <1>1 DEF kids

\* The consents of everybody but p stay.
LEMMA OthersAgreed ==
    ASSUME LInv, LInv', NEW p \in Profiles, NEW new, new.profile = p,
           consents' = consents \cup {new}, \A x \in Profiles : x # p => Row(x)' = Row(x)
    PROVE  \A x \in Profiles : x # p => ChildOf(x)' = ChildOf(x)
<1> SUFFICES ASSUME NEW x \in Profiles, x # p
             PROVE  ChildOf(x)' = ChildOf(x)
  OBVIOUS
<1>1. \A c \in consents \cup consents' : c.active /\ c.profile = x => c \in consents /\ c \in consents'
  OBVIOUS
<1>2. /\ profile'[x].kind = profile[x].kind
      /\ profile'[x].user = profile[x].user
      /\ profile'[x].parent = profile[x].parent
  BY DEF Row
<1> QED
  BY <1>1, <1>2, SameChild DEF LInv

LEMMA RegisterFamily ==
    ASSUME LInv, LInv', LinkingAssumption, NEW h \in Handlers, NEW u \in Users, NEW p \in Profiles,
           RegisterStudent(h, u, p)
    PROVE  F!FNext
<1> DEFINE row == [FreeProfile EXCEPT !.kind = "row", !.user = u]
<1>1. row.kind = "row" /\ row.user = u /\ row.parent = NoUser
  BY DEF FreeProfile
<1>2. profile' = [profile EXCEPT ![p] = row]
  BY DEF RegisterStudent
<1> HIDE DEF row
<1>3. consents' = consents /\ profile[p].kind = "none" /\ u # NoUser
  BY DEF RegisterStudent, LinkingAssumption
<1>4. \A x \in Profiles : profile'[x] = IF x = p THEN row ELSE profile[x]
  BY <1>2, TablesTyped DEF LInv
<1>5. ~Consented(p) /\ ~Consented(p)'
  <2>1. ~Consented(p)
    BY <1>3, ConsentedRows DEF LInv
  <2> QED
    BY <1>3, <2>1 DEF Consented
<1>6. ChildOf(p) = [kind |-> "none", parent |-> NoUser, policy |-> 0]
  BY <1>3, <1>5 DEF ChildOf, PolicyOf, LInv, Rows
<1>7. ChildOf(p)' = [kind |-> "own", parent |-> NoUser, policy |-> 0]
  BY <1>1, <1>3, <1>4, <1>5 DEF ChildOf, PolicyOf
<1>8. \A x \in Profiles : x # p => ChildOf(x)' = ChildOf(x)
  BY <1>3, <1>4, SameChild DEF LInv
<1> QED
  BY <1>6, <1>7, <1>8, FamilyStep

LEMMA StartFamily ==
    ASSUME LInv, LInv', LinkingAssumption, NEW h \in Handlers, NEW p \in Profiles, StartChild(h, p)
    PROVE  F!FNext
<1> DEFINE u == at[h].user
<1> DEFINE new == [FreeProfile EXCEPT !.kind = "row", !.parent = u]
<1> DEFINE gone == [FreeProfile EXCEPT !.kind = "gone"]
<1>1. u \in Users
  BY UpdateTyped DEF LInv, Stands, StartChild
<1>2. /\ new.kind = "row" /\ new.user = NoUser /\ new.parent = u
      /\ gone.kind = "gone" /\ gone.user = NoUser /\ gone.parent = NoUser
  BY DEF FreeProfile
<1>3. profile' = [x \in Profiles |-> IF x = p THEN new
                                     ELSE IF x \in UnfinishedOf(u) THEN gone ELSE profile[x]]
  BY DEF StartChild
<1> HIDE DEF new, gone
<1>4. consents' = consents /\ profile[p].kind = "none"
  BY DEF StartChild
<1>5. \A x \in Profiles : Consented(x)' <=> Consented(x)
  BY <1>4 DEF Consented
<1>6. ~Consented(p)
  BY <1>4, ConsentedRows DEF LInv
<1>7. ChildOf(p)' = [kind |-> "young", parent |-> u, policy |-> 0]
  BY <1>2, <1>3, <1>5, <1>6 DEF ChildOf, PolicyOf
<1>8. \A x \in Profiles : x \in UnfinishedOf(u) <=> x \in F!Unfinished(u)
  <2> SUFFICES ASSUME NEW x \in Profiles
               PROVE  x \in UnfinishedOf(u) <=> x \in F!Unfinished(u)
    OBVIOUS
  <2>1. PolicyOf(x) = 0 <=> ~Consented(x)
    BY NoConsent, SomeConsent
  <2>2. x \in F!Unfinished(u) <=>
           ChildOf(x).kind = "young" /\ ChildOf(x).parent = u /\ PolicyOf(x) = 0
    BY DEF F!Unfinished, ChildOf
  <2>3. x \in UnfinishedOf(u) <=>
           profile[x].kind = "row" /\ profile[x].parent = u /\ profile[x].user = NoUser /\ ~Consented(x)
    BY DEF UnfinishedOf, ChildrenOf
  <2>4. profile[x].kind \in {"none", "row", "gone"}
    BY TablesTyped DEF LInv, ProfileRow
  <2> QED
    BY <2>1, <2>2, <2>3, <2>4 DEF ChildOf
<1>9. ASSUME NEW x \in Profiles, x # p, x \in UnfinishedOf(u)
      PROVE  ChildOf(x)' = [kind |-> "gone", parent |-> NoUser, policy |-> 0]
  <2>1. ~Consented(x)'
    BY <1>5, <1>9 DEF UnfinishedOf
  <2>2. profile'[x] = gone
    BY <1>3, <1>9
  <2> QED
    BY <1>2, <2>1, <2>2 DEF ChildOf, PolicyOf
<1>10. ASSUME NEW x \in Profiles, x # p, x \notin UnfinishedOf(u)
       PROVE  ChildOf(x)' = ChildOf(x)
  <2>1. profile'[x] = profile[x]
    BY <1>3, <1>10
  <2> QED
    BY <1>4, <2>1, SameChild DEF LInv
<1>11. kids[p].kind = "none"
  BY <1>4 DEF kids, ChildOf
<1>12. kids' = [x \in Profiles |->
                  IF x = p THEN [kind |-> "young", parent |-> u, policy |-> 0]
                  ELSE IF x \in F!Unfinished(u)
                  THEN [kind |-> "gone", parent |-> NoUser, policy |-> 0]
                  ELSE kids[x]]
  BY <1>7, <1>8, <1>9, <1>10 DEF kids
<1>13. F!Start(p, u)
  BY <1>11, <1>12 DEF F!Start, kids
<1>14. kids'[p] # kids[p]
  <2>1. kids'[p].kind = "young"
    BY <1>7 DEF kids
  <2> QED
    BY <1>11, <2>1
<1> QED
  BY <1>1, <1>13, <1>14, SMTT(60) DEF F!FNext, kids

LEMMA GiveFamily ==
    ASSUME LInv, LInv', LinkingAssumption, NEW h \in Handlers, GiveConsent(h)
    PROVE  F!FNext \/ kids' = kids
<1>0. at[h].profile \in Profiles /\ at[h].user \in Users /\ policy \in Policies
  BY UpdateTyped, TablesTyped DEF LInv, Stands, GiveConsent
<1>1. profile' = profile /\ at[h].step = "consent"
  BY DEF GiveConsent
<1>p. PICK p \in Profiles : p = at[h].profile
  BY <1>0
<1>u. PICK u \in Users : u = at[h].user
  BY <1>0
<1>v. PICK v \in Policies : v = policy
  BY <1>0
<1> DEFINE new == Consent(p, u, NoUser, v)
<1>2. /\ p \in Profiles /\ profile[p].kind = "row" /\ profile[p].parent = u
      /\ profile[p].user = NoUser
  BY <1>1, <1>p, <1>u DEF LInv, Stands
<1>3. CASE Consented(p)
  <2>1. consents' = consents
    BY <1>3, <1>p DEF GiveConsent
  <2> QED
    BY <1>1, <2>1, KidsStay
<1>4. CASE ~Consented(p)
  <2>1. consents' = consents \cup {new}
    BY <1>4, <1>p, <1>u, <1>v DEF GiveConsent
  <2>2. new.profile = p /\ new.active /\ new.version = v
    BY DEF Consent
  <2> HIDE DEF new
  <2>3. PolicyOf(p)' = v
    BY <2>1, <2>2, PolicyNext DEF LInv
  <2>4. ChildOf(p) = [kind |-> "young", parent |-> u, policy |-> 0]
    BY <1>2, <1>4 DEF ChildOf, PolicyOf
  <2>5. ChildOf(p)' = [kind |-> "young", parent |-> u, policy |-> v]
    BY <1>1, <1>2, <2>3 DEF ChildOf
  <2>6. \A x \in Profiles : x # p => ChildOf(x)' = ChildOf(x)
    BY <1>1, <1>2, <2>1, <2>2, OthersAgreed DEF Row
  <2> QED
    BY <1>2, <2>4, <2>5, <2>6, FamilyStep
<1> QED
  BY <1>3, <1>4

LEMMA RenewFamily ==
    ASSUME LInv, LInv', LinkingAssumption, NEW h \in Handlers, NEW u \in Users, NEW c \in consents,
           RenewConsent(h, u, c)
    PROVE  F!FNext
<1> DEFINE p == c.profile
<1>v. PICK v \in Policies : v = policy
  BY TablesTyped DEF LInv
<1> DEFINE off == [c EXCEPT !.active = FALSE]
<1> DEFINE new == Consent(p, u, c.child, v)
<1>1. /\ profile' = profile /\ c.active /\ c.version # v
      /\ consents' = (consents \ {c}) \cup {off, new}
  BY <1>v DEF RenewConsent
<1>2. c \in ConsentRow /\ p \in Profiles /\ c.version \in Policies /\ v \in Policies
  BY TablesTyped DEF LInv, ConsentRow
<1>3. off.profile = p /\ ~off.active
  BY <1>2 DEF ConsentRow
<1>4. new.profile = p /\ new.active /\ new.version = v
  BY DEF Consent
<1> HIDE DEF off, new
<1>5. PolicyOf(p) = c.version
  BY <1>1, PolicyNow DEF LInv
<1>6. PolicyOf(p)' = v
  BY <1>1, <1>4, PolicyNext DEF LInv
<1>7. v > c.version
  <2>1. c.version <= v
    BY <1>v DEF LInv, Versions
  <2>2. \A w \in Policies : w \in Int
    BY DEF LinkingAssumption
  <2>3. c.version \in Int /\ v \in Int
    BY <1>2, <2>2
  <2> QED
    BY <1>1, <2>1, <2>3
<1>8. \A x \in Profiles : x # p => ChildOf(x)' = ChildOf(x)
  <2> SUFFICES ASSUME NEW x \in Profiles, x # p
               PROVE  ChildOf(x)' = ChildOf(x)
    OBVIOUS
  <2>1. \A d \in consents \cup consents' :
           d.active /\ d.profile = x => d \in consents /\ d \in consents'
    BY <1>1, <1>3, <1>4
  <2> QED
    BY <1>1, <2>1, SameChild DEF LInv
<1> DEFINE k == ChildOf(p).kind
<1>9. ChildOf(p) = [kind |-> k, parent |-> profile[p].parent, policy |-> c.version]
  BY <1>5 DEF ChildOf
<1>10. ChildOf(p)' = [kind |-> k, parent |-> profile[p].parent, policy |-> v]
  BY <1>1, <1>6 DEF ChildOf
<1> HIDE DEF k
<1> QED
  BY <1>2, <1>7, <1>8, <1>9, <1>10, FamilyStep

LEMMA JoinNewFamily ==
    ASSUME LInv, LInv', LinkingAssumption, NEW h \in Handlers, NEW p \in Profiles, JoinNew(h, p)
    PROVE  F!FNext
<1>1. /\ at[h].user \in Users /\ at[h].invite \in Invites
      /\ invite[at[h].invite].kind = FromParent
  BY UpdateTyped DEF LInv, Stands, JoinNew
<1>2. /\ invite[at[h].invite].by \in Users
      /\ invite[at[h].invite].version \in Policies
  BY <1>1 DEF LInv, Links
<1>3. PICK u \in Users, q \in Users, v \in Policies :
         u = at[h].user /\ q = invite[at[h].invite].by /\ v = invite[at[h].invite].version
  BY <1>1, <1>2
<1> DEFINE row == [FreeProfile EXCEPT !.kind = "row", !.user = u, !.parent = q]
<1> DEFINE new == Consent(p, q, u, v)
<1>4. /\ profile[p].kind = "none"
      /\ profile' = [profile EXCEPT ![p] = row] /\ consents' = consents \cup {new}
  BY <1>3 DEF JoinNew, Agreed
<1>5. /\ row.kind = "row" /\ row.user = u /\ row.parent = q /\ u # NoUser
      /\ new.profile = p /\ new.active /\ new.version = v
  BY DEF FreeProfile, Consent, LinkingAssumption
<1> HIDE DEF row, new
<1>6. \A x \in Profiles : profile'[x] = IF x = p THEN row ELSE profile[x]
  BY <1>4, TablesTyped DEF LInv
<1>7. PolicyOf(p)' = v
  BY <1>4, <1>5, PolicyNext DEF LInv
<1>8. ~Consented(p)
  BY <1>4, ConsentedRows DEF LInv
<1>9. ChildOf(p) = [kind |-> "none", parent |-> NoUser, policy |-> 0]
  BY <1>4, <1>8 DEF ChildOf, PolicyOf, LInv, Rows
<1>10. ChildOf(p)' = [kind |-> "own", parent |-> q, policy |-> v]
  BY <1>5, <1>6, <1>7 DEF ChildOf
<1>11. \A x \in Profiles : x # p => ChildOf(x)' = ChildOf(x)
  BY <1>4, <1>5, <1>6, OthersAgreed DEF Row
<1> QED
  BY <1>9, <1>10, <1>11, FamilyStep, SMTT(60)

\* A child with an account gets parent and consent together.
LEMMA LinkFamily ==
    ASSUME LInv, LInv', LinkingAssumption, NEW h \in Handlers, at[h].step \in Reading,
           NEW p \in Profiles, at[h].profile = p,
           NEW q \in Users, GetsParent(p, q), NEW new, consents' = consents \cup {new},
           new.profile = p, new.active, new.version \in Policies
    PROVE  F!FNext
<1>1. /\ profile'[p].kind = "row" /\ profile'[p].user = profile[p].user
      /\ profile'[p].parent = q
      /\ \A x \in Profiles : x # p => profile'[x] = profile[x]
      /\ profile[p].user # NoUser
      /\ ~Consented(p)
  BY ParentAdded
<1>2. profile[p].kind = "row" /\ profile[p].parent = NoUser
  BY DEF LInv, Stands
<1>3. PolicyOf(p)' = new.version
  BY PolicyNext DEF LInv
<1>4. ChildOf(p) = [kind |-> "own", parent |-> NoUser, policy |-> 0]
  BY <1>1, <1>2 DEF ChildOf, PolicyOf
<1>5. ChildOf(p)' = [kind |-> "own", parent |-> q, policy |-> new.version]
  BY <1>1, <1>3 DEF ChildOf
<1>6. \A x \in Profiles : x # p => ChildOf(x)' = ChildOf(x)
  BY <1>1, OthersAgreed DEF Row
<1> QED
  BY <1>4, <1>5, <1>6, FamilyStep

LEMMA JoinOwnFamily ==
    ASSUME LInv, LInv', LinkingAssumption, NEW h \in Handlers, JoinOwn(h)
    PROVE  F!FNext
<1>1. at[h].step \in Reading
  BY SMTT(60) DEF JoinOwn, Reading
<1>2. /\ at[h].profile \in Profiles /\ at[h].invite \in Invites
      /\ invite[at[h].invite].kind = FromParent
  BY <1>1 DEF LInv, Stands, JoinOwn
<1>3. invite[at[h].invite].by \in Users /\ invite[at[h].invite].version \in Policies
  BY <1>2 DEF LInv, Links
<1>4. PICK p \in Profiles, q \in Users : p = at[h].profile /\ q = invite[at[h].invite].by
  BY <1>2, <1>3
<1>5. PICK new : new = Consent(p, q, at[h].user, invite[at[h].invite].version)
  OBVIOUS
<1>6. new.profile = p /\ new.active /\ new.version \in Policies
  BY <1>3, <1>5 DEF Consent
<1>7. GetsParent(p, q)
  BY <1>4 DEF JoinOwn, GetsParent
<1>8. consents' = consents \cup {new}
  BY <1>4, <1>5 DEF JoinOwn, Agreed
<1> QED
  BY <1>1, <1>4, <1>6, <1>7, <1>8, LinkFamily

LEMMA AcceptFamily ==
    ASSUME LInv, LInv', LinkingAssumption, NEW h \in Handlers, AcceptLink(h)
    PROVE  F!FNext
<1>1. at[h].step \in Reading
  BY SMTT(60) DEF AcceptLink, Reading
<1>2. at[h].profile \in Profiles /\ at[h].user \in Users /\ policy \in Policies
  BY <1>1, UpdateTyped, TablesTyped DEF LInv, Stands, AcceptLink
<1>3. PICK p \in Profiles, q \in Users : p = at[h].profile /\ q = at[h].user
  BY <1>2
<1>4. PICK new : new = Consent(p, q, invite[at[h].invite].by, policy)
  OBVIOUS
<1>5. new.profile = p /\ new.active /\ new.version \in Policies
  BY <1>2, <1>4 DEF Consent
<1>6. GetsParent(p, q)
  BY <1>3 DEF AcceptLink, GetsParent
<1>7. consents' = consents \cup {new}
  BY <1>3, <1>4 DEF AcceptLink
<1> QED
  BY <1>1, <1>3, <1>5, <1>6, <1>7, LinkFamily

\* A step of the dialog that concerns no family.
LEMMA SubjectAlone ==
    ASSUME LInv, NEW p \in Profiles, profile' = [profile EXCEPT ![p].subject = TRUE]
    PROVE  \A x \in Profiles : /\ profile'[x].kind = profile[x].kind
                               /\ profile'[x].user = profile[x].user
                               /\ profile'[x].parent = profile[x].parent
BY TablesTyped DEF LInv, ProfileRow

LEMMA StepsOfFamily ==
    ASSUME LInv, LInv', LinkingAssumption, [Next]_vars
    PROVE  F!FNext \/ kids' = kids
<1>1. CASE profile' = profile /\ consents' = consents
  BY <1>1, KidsStay
<1>2. ASSUME NEW h \in Handlers, Students(h)
      PROVE  F!FNext \/ kids' = kids
  <2>1. ASSUME NEW u \in Users, NEW p \in Profiles, RegisterStudent(h, u, p)
        PROVE  F!FNext
    BY <2>1, RegisterFamily
  <2>2. ASSUME NEW u \in Users, NEW p \in Profiles, ChooseSubject(h, u, p)
        PROVE  kids' = kids
    BY <2>2, SubjectAlone, KidsStay DEF ChooseSubject
  <2>3. ASSUME NEW u \in Users, NEW p \in Profiles, AskAgain(h, u, p)
        PROVE  profile' = profile /\ consents' = consents
    BY <2>3 DEF AskAgain, tables
  <2>4. ASSUME NEW i \in Invites, InviteParent(h, i)
        PROVE  profile' = profile /\ consents' = consents
    BY <2>4 DEF InviteParent
  <2> QED
    BY <1>1, <1>2, <2>1, <2>2, <2>3, <2>4 DEF Students
<1>3. ASSUME NEW h \in Handlers, ParentSteps(h)
      PROVE  F!FNext \/ kids' = kids
  <2>1. ASSUME NEW u \in Users, BecomeParent(h, u)
        PROVE  profile' = profile /\ consents' = consents
    BY <2>1 DEF BecomeParent
  <2>2. ASSUME NEW u \in Users, NEW p \in Profiles, ChooseChildSubject(h, u, p)
        PROVE  kids' = kids
    BY <2>2, SubjectAlone, KidsStay DEF ChooseChildSubject
  <2>3. ASSUME NEW u \in Users, NEW p \in Profiles, AgreeForChild(h, u, p)
        PROVE  profile' = profile /\ consents' = consents
    BY <2>3 DEF AgreeForChild, tables
  <2>4. ASSUME NEW u \in Users, NEW c \in consents, RenewConsent(h, u, c)
        PROVE  F!FNext
    BY <2>4, RenewFamily
  <2>5. ASSUME NEW p \in Profiles, StartChild(h, p)
        PROVE  F!FNext
    BY <2>5, StartFamily
  <2>6. ASSUME NEW i \in Invites, OfferLink(h, i)
        PROVE  profile' = profile /\ consents' = consents
    BY <2>6 DEF OfferLink
  <2>7. ASSUME GiveConsent(h)
        PROVE  F!FNext \/ kids' = kids
    BY <2>7, GiveFamily
  <2> QED
    BY <1>1, <1>3, <2>1, <2>2, <2>3, <2>4, <2>5, <2>6, <2>7 DEF ParentSteps
<1>4. ASSUME NEW h \in Handlers, Opening(h)
      PROVE  profile' = profile /\ consents' = consents
  BY <1>4 DEF Opening, OpenLink, EnterCode, RecordAttempt, RefuseOpened, ShowConsent, JoinByLink,
              tables
<1>5. ASSUME NEW h \in Handlers, Accepting(h)
      PROVE  F!FNext \/ kids' = kids
  <2>1. CASE JoinOwn(h) \/ AcceptLink(h) \/ \E p \in Profiles : JoinNew(h, p)
    BY <2>1, JoinOwnFamily, AcceptFamily, JoinNewFamily
  <2>2. CASE ~(JoinOwn(h) \/ AcceptLink(h) \/ \E p \in Profiles : JoinNew(h, p))
    <3>1. profile' = profile /\ consents' = consents
      BY <1>5, <2>2 DEF Accepting, LockForChild, LockOwnProfile, Answer, LockForParent,
                        ClearPending, LockForAccept, DeclineLink, tables
    <3> QED
      BY <1>1, <3>1
  <2> QED
    BY <2>1, <2>2
<1>6. CASE Environment
  <2>1. profile' = profile /\ consents' = consents
    BY <1>6 DEF Environment, Expire, Forget, WindowPasses, Fail, Deploy, tables
  <2> QED
    BY <1>1, <2>1
<1>7. CASE UNCHANGED vars
  BY <1>1, <1>7 DEF vars
<1> QED
  BY <1>1, <1>2, <1>3, <1>4, <1>5, <1>6, <1>7 DEF Next

LEMMA FamilyStarts ==
    ASSUME LinkingAssumption, Init
    PROVE  F!FInit
<1>1. ASSUME NEW p \in Profiles
      PROVE  ChildOf(p) = [kind |-> "none", parent |-> NoUser, policy |-> 0]
  <2>1. profile[p].kind = "none" /\ profile[p].user = NoUser /\ profile[p].parent = NoUser
    BY DEF Init, FreeProfile
  <2>2. ~Consented(p)
    BY DEF Init, Consented
  <2> QED
    BY <2>1, <2>2 DEF ChildOf, PolicyOf
<1> QED
  BY <1>1 DEF F!FInit, F!Unknown

\* The onboarding implements Family: whatever users press and however their transactions
\* interleave, a child is registered once, gets a parent and that parent's consent together and
\* for good, is forgotten only before a consent, and its consent is replaced only by one to a
\* newer policy.
THEOREM OnboardingIsFamily == Spec => ImplementsFamily
<1>1. Init => F!FInit
  BY FamilyStarts, LinkingAssumption
<1>2. LInv /\ LInv' /\ [Next]_vars => [F!FNext]_([p \in Profiles |-> ChildOf(p)])
  BY StepsOfFamily, LinkingAssumption DEF kids
<1> QED
  BY <1>1, <1>2, LinkingInvariant, PTL DEF Spec, ImplementsFamily, F!Spec
=============================================================================
