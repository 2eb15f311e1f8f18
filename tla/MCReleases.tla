----------------------------- MODULE MCReleases -----------------------------
(***************************************************************************)
(* Constants for the model checking of Releases.                            *)
(***************************************************************************)
EXTENDS Releases

CONSTANTS kubeturbo, a, turbo, admin, all, user

Words == {kubeturbo, a, turbo, admin, all, user}

Default(name, namespace) ==
    [name |-> name, namespace |-> namespace, role |-> <<admin>>, binding |-> <<all>>,
     account |-> <<user>>]

\* "kubeturbo" and "kubeturbo-a" of "turbo" share the default account; the latter and
\* "kubeturbo" of "a-turbo" make the same names of ClusterRole and binding.
Entangled == {Default(<<kubeturbo>>, <<turbo>>), Default(<<kubeturbo, a>>, <<turbo>>),
              Default(<<kubeturbo>>, <<a, turbo>>)}
=============================================================================
