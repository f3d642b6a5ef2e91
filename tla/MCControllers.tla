--------------------------- MODULE MCControllers ---------------------------
(* Controllers with its constants given in the .cfg files.                 *)
EXTENDS Controllers
=============================================================================
