------------------------------ MODULE MCFamilies ------------------------------
(***************************************************************************)
(* What stands around the checks: the desk where families come with        *)
(* photos, buttons and requests, and the base of the reference texts.  Two *)
(* machines that share no state, checked side by side: `part` says which   *)
(* of them a behaviour is of.                                              *)
(***************************************************************************)
EXTENDS MCDesk

CONSTANTS
    Checks, Texts, Gaps, Replies, MaxChecks    (* KnowledgeBase *)

VARIABLES
    part,
    pages, answers, check, review, begun       (* KnowledgeBase *)

K == INSTANCE KnowledgeBase

ASSUME BaseAssumption == K!RepliesOK

bvars == <<pages, answers, check, review, begun>>
fvars == <<part, vars, bvars>>

\* The instances of KnowledgeBase for TLC.
Data == INSTANCE MCKnowledgeBase
        WITH Checks <- {}, Texts <- {}, Gaps <- <<>>, Replies <- {}, MaxChecks <- 0
MCTexts == Data!MCTexts
MCGaps == Data!MCGaps
MCReplies == Data!MCReplies

FInit == part \in {"desk", "base"} /\ Init /\ K!Init

FNext ==
    \/ part = "desk" /\ Next /\ UNCHANGED <<part, bvars>>
    \/ part = "base" /\ K!Next /\ UNCHANGED <<part, vars>>

FSpec == FInit /\ [][FNext]_fvars

-----------------------------------------------------------------------------
(* Properties, with those of Desk.                                         *)

\* A verified reference is the text the author meant, as far as the dictionary knows, and whatever
\* the model answers a gap is closed with a word that fits it or stays open (derive_text, _from_kb).
VerifiedIsProved == K!VerifiedIsProved

\* A text comes to have one answer: a check without failures leaves one, also when an earlier check
\* got no further than the page, and a check that found one adds none (resolve_reference, save_page).
AnswersKeptOnce == K!AnswersKeptOnce
=============================================================================
