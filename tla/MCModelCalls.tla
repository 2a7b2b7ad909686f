---------------------------- MODULE MCModelCalls -----------------------------
(* Instances of ModelCalls for TLC. *)
EXTENDS ModelCalls

\* Two orientations of a photo and two attempts of the generator stand for the four and the two
\* of the code.
Few == [recognize |-> 2, solve |-> 1, classify |-> 1, generate |-> 2]
\* The tariff of GigaChat allows one request at a time; the gateway allows several.
One == [gateway |-> 1, gigachat |-> 1]

Mixed == [kind : {"recognize", "solve"}, via : Providers] \cup
         [kind : {"classify", "generate"}, via : {"gateway"}]
Photos == [kind : {"recognize"}, via : {"gigachat"}]

\* Steps with different providers share no slot, so they are not combined.
OneProvider == \A s, t \in Steps : Via(s) = Via(t)

\* The steps are interchangeable: of two choices of jobs that differ by a swap, one is enough.
Rank == [recognize |-> 1, solve |-> 2, generate |-> 3, classify |-> 4]
NoSwap == LET first == CHOOSE s \in Steps : TRUE
          IN \A s \in Steps : Rank[job[first].kind] <= Rank[job[s].kind]
=============================================================================
