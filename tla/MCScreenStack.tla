---------------------------- MODULE MCScreenStack ----------------------------
(* ScreenStack with its constants given in the .cfg files.                 *)
EXTENDS ScreenStack
=============================================================================
