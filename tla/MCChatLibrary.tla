---------------------------- MODULE MCChatLibrary ----------------------------
(* ChatLibrary on small instances: the constants are in the .cfg files.     *)
EXTENDS ChatLibrary
=============================================================================
