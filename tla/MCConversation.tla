--------------------------- MODULE MCConversation ---------------------------
(***************************************************************************)
(* Conversation with two accounts and few generations: one startup can be  *)
(* stale while a second holds the slot, and a session be ended and resumed.*)
(***************************************************************************)
EXTENDS Conversation, TLC

CONSTANTS alice, bob
MCUsers == {alice, bob}
=============================================================================
