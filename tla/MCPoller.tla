------------------------------ MODULE MCPoller ------------------------------
(***************************************************************************)
(* TLC instance of Poller: two updates of one chat and one without a chat, *)
(* so that a batch can hold two of the same chat or of different ones.     *)
(***************************************************************************)
EXTENDS Poller

CONSTANTS c1

MCChats  == {c1}
MCChatAt == <<c1, c1, NoChat>>
=============================================================================
