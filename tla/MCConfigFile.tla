---------------------------- MODULE MCConfigFile ----------------------------
(* Instances of ConfigFile: a disk that is always there and a stick that   *)
(* comes and goes, two directories for the main screen.                    *)
EXTENDS ConfigFile

CONSTANTS disk, stick, elsewhere
=============================================================================
