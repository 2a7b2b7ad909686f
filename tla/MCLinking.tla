----------------------------- MODULE MCLinking ------------------------------
(* Instances of Linking for TLC. *)
EXTENDS Linking, TLC

Symmetry == Permutations(Users) \cup Permutations(Profiles) \cup Permutations(Invites)
            \cup Permutations(Handlers)

\* A third user, a new policy, codes and expired invitations are each combined with everything
\* else, not with each other.
Active == {u \in Users : role[u] # "none" \/ pending[u] # NoLink
                         \/ \E h \in Handlers : at[h].user = u}
Crowded == Cardinality(Active) > 2
Deployed == policy > 1
Guessed == \/ \E u \in Users : attempts[u] > 0
           \/ \E h \in Handlers : at[h].step = "counted"

Expired == \E i \in Invites : invite[i].kind # "none" /\ ~invite[i].used /\ ~invite[i].live

OneAtATime == /\ Crowded => ~Deployed /\ ~Guessed /\ ~Expired
              /\ Deployed => ~Guessed /\ ~Expired
              /\ Guessed => ~Expired
=============================================================================
