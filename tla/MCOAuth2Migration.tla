------------------------- MODULE MCOAuth2Migration -------------------------
(***************************************************************************)
(* Constants for the model checking of OAuth2Migration.                     *)
(***************************************************************************)
EXTENDS OAuth2Migration

\* The Deployment mounts the secret, or does not, before the first run.
EitherWay == BOOLEAN
=============================================================================
