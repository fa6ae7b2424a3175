---------------------------- MODULE MCChatClient ----------------------------
(***************************************************************************)
(* Sessions of a few turns; prompts and rooms such that two turns fit in   *)
(* the larger room and one in the smaller.                                 *)
(***************************************************************************)
EXTENDS ChatClient

MCSizes == {1}
MCRooms == {2, 4}
=============================================================================
