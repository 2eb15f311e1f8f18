-------------------------- MODULE MCVersionDefaults --------------------------
(***************************************************************************)
(* Constants for the model checking of VersionDefaults.                     *)
(***************************************************************************)
EXTENDS VersionDefaults

MCCRs == {"a", "b"}
MCFixed == {"8.12"}
MCVersions == {"8.14", "8.15"}
MCWrites == MCFixed \cup {None, Placeholder}
=============================================================================
