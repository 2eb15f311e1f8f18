------------------------- MODULE CredentialHandover -------------------------
(***************************************************************************)
(* What the migration to an OAuth2 client promises, however it goes about   *)
(* it: the secret holds the user's login or a client of the Turbo server;   *)
(* what it holds is given up only for a newer client, a new one is stored   *)
(* only if it is the latest, and success is told only of the latest client. *)
(***************************************************************************)
EXTENDS Naturals

CONSTANT None   \* no client

VARIABLES
    login,   \* the secret holds the login
    client,  \* the client that the secret holds, or None
    issued,  \* clients that the server has issued, numbered in that order
    read,    \* the client that the pod works with, or None
    told     \* the user has been told that the migration is done

vars == <<login, client, issued, read, told>>

Init ==
    /\ login \in BOOLEAN
    /\ client = None
    /\ issued = 0
    /\ read = None
    /\ told = FALSE

Issue ==
    /\ ~told
    /\ issued' = issued + 1
    /\ UNCHANGED <<login, client, read, told>>

GiveUp ==
    /\ ~told
    /\ issued > (IF client = None THEN 0 ELSE client)
    /\ login' = FALSE
    /\ client' = None
    /\ UNCHANGED <<issued, read, told>>

Store ==
    /\ ~told
    /\ ~login
    /\ client = None
    /\ issued > 0
    /\ client' = issued
    /\ UNCHANGED <<login, issued, read, told>>

Confirm ==
    /\ client = issued
    /\ told' = TRUE
    /\ UNCHANGED <<login, client, issued, read>>

Begin ==
    /\ told' = FALSE
    /\ UNCHANGED <<login, client, issued, read>>

\* The pod stops, or starts with what the secret holds.
PodReads ==
    /\ read' \in {None, client}
    /\ UNCHANGED <<login, client, issued, told>>

Next == Issue \/ GiveUp \/ Store \/ Confirm \/ Begin \/ PodReads

Spec == Init /\ [][Next]_vars
=============================================================================
