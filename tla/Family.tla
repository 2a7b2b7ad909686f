------------------------------- MODULE Family -------------------------------
(***************************************************************************)
(* What the onboarding promises about a child, whatever users press and    *)
(* however their transactions interleave: a child is registered once, gets *)
(* a parent and that parent's consent together and for good, a child of    *)
(* grades 1-4 has its parent from the start and is forgotten only before   *)
(* the consent, and a consent is replaced only by one to a newer policy.   *)
(***************************************************************************)
EXTENDS Integers

CONSTANTS Parents,      \* the users who may become somebody's parent
          Children,     \* identities of profiles
          Policies,     \* versions of the policy, from 1
          Nobody

VARIABLE child          \* per profile: kind, parent, policy of the consent in force (0: none)

Unknown == [kind |-> "none", parent |-> Nobody, policy |-> 0]

FTypeOK == child \in [Children -> [kind : {"none", "own", "young", "gone"},
                                   parent : Parents \cup {Nobody},
                                   policy : Policies \cup {0}]]

FInit == child = [p \in Children |-> Unknown]

\* A child of grades 5-9 registers: alone, or through the link of a parent who has agreed.
Register(p) == /\ child[p].kind = "none"
               /\ child' = [child EXCEPT ![p].kind = "own"]

RegisterLinked(p, q, v) ==
    /\ child[p].kind = "none"
    /\ child' = [child EXCEPT ![p] = [kind |-> "own", parent |-> q, policy |-> v]]

\* A parent starts a child of grades 1-4: one without a consent makes way for it.
Unfinished(q) == {p \in Children : child[p].kind = "young" /\ child[p].parent = q
                                   /\ child[p].policy = 0}

Start(p, q) ==
    /\ child[p].kind = "none"
    /\ child' = [x \in Children |->
                    IF x = p THEN [kind |-> "young", parent |-> q, policy |-> 0]
                    ELSE IF x \in Unfinished(q)
                    THEN [kind |-> "gone", parent |-> Nobody, policy |-> 0]
                    ELSE child[x]]

\* The consent: for a child of grades 1-4 alone, for an older one together with the parent.
Agree(p, v) == /\ child[p].kind = "young" /\ child[p].policy = 0
               /\ child' = [child EXCEPT ![p].policy = v]

Link(p, q, v) == /\ child[p].kind = "own" /\ child[p].parent = Nobody
                 /\ child' = [child EXCEPT ![p].parent = q, ![p].policy = v]

Renew(p, v) == /\ child[p].policy # 0 /\ v > child[p].policy
               /\ child' = [child EXCEPT ![p].policy = v]

\* Whatever happens, happens to one child (and to the one it replaces).
FNext == \E p \in Children :
    /\ child'[p] # child[p]
    /\ \/ Register(p)
       \/ \E q \in Parents : Start(p, q)
       \/ \E q \in Parents, v \in Policies : RegisterLinked(p, q, v) \/ Link(p, q, v)
       \/ \E v \in Policies : Agree(p, v) \/ Renew(p, v)

Spec == FInit /\ [][FNext]_child
=============================================================================
