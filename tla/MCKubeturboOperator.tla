------------------------ MODULE MCKubeturboOperator ------------------------
(***************************************************************************)
(* Constants for the model checking of KubeturboOperator: the contents of   *)
(* the files, the roles and names, and the specs and finalizers that the    *)
(* users of each configuration write.                                       *)
(***************************************************************************)
EXTENDS KubeturboOperator

\* Two contents of turbo.config; the first with two contents of the dynamic file.
MCStatic == {"s1", "s2"}
MCConfig == {"s1/d1", "s1/d2", "s2/d1"}
MCStaticPart == [c \in MCConfig |-> IF c = "s2/d1" THEN "s2" ELSE "s1"]

MCManagedRole == {"turbo-cluster-admin", "turbo-cluster-reader"}
MCRole == MCManagedRole \cup {"cluster-admin"}
MCSAName == {"turbo-user", "other-user", "unset"}

Base == [config |-> "s1/d1", role |-> "turbo-cluster-admin", sa |-> "turbo-user"]

ConfigSpecs == {[Base EXCEPT !.config = c] : c \in MCConfig}
RoleSpecs == {[Base EXCEPT !.role = r] : r \in MCRole}
RenameSpecs == {Base, [Base EXCEPT !.sa = "other-user"]}

\* A spec whose serviceAccountName is missing.
MissingFields == {[Base EXCEPT !.sa = "unset"]}

ConvergeSpecs == ConfigSpecs \cup RenameSpecs \cup MissingFields
PairSpecs == {Base, [Base EXCEPT !.config = "s2/d1", !.role = "turbo-cluster-reader"]}

NoFinalizers == {{}}
AnyFinalizers == {{}, {"foreign"}}

\* Where one run has both: a CR that users edit and whose objects they delete, or one that is
\* followed by another.
EditsOrSuccessor == used.creates <= 1 \/ (used.edits = 0 /\ used.tampers = 0)
=============================================================================
