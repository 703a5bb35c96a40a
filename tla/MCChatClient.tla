---------------------------- MODULE MCChatClient ----------------------------
(* Small instances of ChatClient for TLC.                                  *)
EXTENDS ChatClient
=============================================================================
