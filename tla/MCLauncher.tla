----------------------------- MODULE MCLauncher -----------------------------
(* Launcher with its constants given in the .cfg file.                      *)
EXTENDS Launcher
=============================================================================
