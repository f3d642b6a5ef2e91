---------------------------- MODULE MCConfWizard ----------------------------
(* ConfWizard with its constants given in the .cfg files.                  *)
EXTENDS ConfWizard
=============================================================================
