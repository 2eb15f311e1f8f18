------------------------------ MODULE Custody ------------------------------
(***************************************************************************)
(* For whom the operator makes objects.  CRs of one name follow each other; *)
(* an object bears the number of the CR it was made for.  Objects are made  *)
(* for the CR that is there only, and a ClusterRole, which nothing but a    *)
(* teardown takes away, is never taken from it.  The teardown of a CR that  *)
(* is gone may leave an account behind, but in the place of none that a     *)
(* later CR has.                                                            *)
(***************************************************************************)
EXTENDS Naturals

CONSTANTS
    Object,   \* what a CR may have made for it
    Account,  \* the objects among them that a teardown may leave behind
    Role      \* those that only a teardown takes away

VARIABLES
    latest,  \* the number of CRs so far
    live,    \* the CR that is there, or 0
    holder   \* the CR that each object was made for, or 0 if it is not there

vars == <<latest, live, holder>>

Init ==
    /\ latest = 0
    /\ live = 0
    /\ holder = [o \in Object |-> 0]

Arrive ==
    /\ live = 0
    /\ latest' = latest + 1
    /\ live' = latest + 1
    /\ UNCHANGED holder

Depart ==
    /\ live' = 0
    /\ UNCHANGED <<latest, holder>>

Make(o) ==
    /\ live # 0
    /\ holder' = [holder EXCEPT ![o] = live]
    /\ UNCHANGED <<latest, live>>

Lose(o) ==
    /\ o \notin Role
    /\ holder' = [holder EXCEPT ![o] = 0]
    /\ UNCHANGED <<latest, live>>

\* Some of the ClusterRoles of earlier CRs go.
Retire(roles) ==
    /\ live # 0 => \A r \in roles : holder[r] # live
    /\ holder' = [o \in Object |-> IF o \in roles THEN 0 ELSE holder[o]]
    /\ UNCHANGED <<latest, live>>

LeaveBehind(o, n) ==
    /\ n # live
    /\ \A p \in Object : holder[p] <= n
    /\ holder' = [holder EXCEPT ![o] = n]
    /\ UNCHANGED <<latest, live>>

Next ==
    \/ Arrive
    \/ Depart
    \/ \E o \in Object : Make(o) \/ Lose(o)
    \/ \E roles \in SUBSET Role : Retire(roles)
    \/ \E o \in Account, n \in 1..latest : LeaveBehind(o, n)

Spec == Init /\ [][Next]_vars
=============================================================================
