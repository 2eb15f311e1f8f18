--------------------------- MODULE MCInstallScript ---------------------------
(***************************************************************************)
(* Constants for the model checking of InstallScript.                       *)
(***************************************************************************)
EXTENDS InstallScript

CONSTANTS turbo, a

TwoNamespaces == {turbo, a}
AllActions == {"apply", "delete"}
=============================================================================
