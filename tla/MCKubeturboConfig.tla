------------------------- MODULE MCKubeturboConfig -------------------------
(***************************************************************************)
(* Constants for the model checking of KubeturboConfig.                     *)
(***************************************************************************)
EXTENDS KubeturboConfig

CONSTANTS w1, w2, v1, v2, v3

MCWord == {w1, w2}
MCVersion == {v1, v2, v3}
MCSegment == {"master", "quoted master", "empty"}
MCMalformed == {"empty"}
MCUnquote == [p \in MCSegment \ MCMalformed |-> w1]
MCRolesList == {<<"master">>, <<"master", "quoted master">>, <<"quoted master", "empty">>}
=============================================================================
