---------------------------- MODULE CRFinalizers ----------------------------
(***************************************************************************)
(* The finalizers of a Kubeturbo CR: those of other controllers, which the  *)
(* operator strikes off, and its own, which must hold the CR for as long as *)
(* objects derived from it exist.  The list is read from the informer cache *)
(* and written back by a patch that names no version, while other           *)
(* controllers and users change the CR.                                     *)
(*                                                                          *)
(* The derived objects are one Boolean here; KubeturboOperator has them.    *)
(*                                                                          *)
(* An operator Mutant... is the definition of the rest of its name with a   *)
(* plausible mistake; the runs show that the properties detect it.          *)
(***************************************************************************)
EXTENDS Naturals, SequencesExt

CONSTANTS
    None,         \* no CR
    Own,          \* the operator's finalizer, helm.k8s.io/finalizer
    Foreign,      \* finalizers of other controllers
    CreatedWith,  \* lists of finalizers that a CR may be created with
    MaxCreates, MaxForeign   \* budgets: CRs, changes by other controllers

Finalizer == Foreign \cup {Own}

\* No finalizer is in a list twice.
FinalizerList == {fs \in Seq(Finalizer) : IsInjective(fs)}
CR == [finalizers: FinalizerList, deleting: BOOLEAN, rv: Nat]

ASSUME ConstantsAssumption ==
    /\ None \notin CR
    /\ Own \notin Foreign
    /\ CreatedWith \subseteq FinalizerList
    /\ MaxCreates \in Nat
    /\ MaxForeign \in Nat

VARIABLES
    cr,       \* the CR in the API server
    seen,     \* the CR in the operator's informer cache
    objects,  \* whether objects derived from the CR exist
    pc, kt, queued,  \* the worker: next call, its copy of the CR, its work queue
    revision, \* the API server's last resource version
    used      \* how much of each budget is spent

vars == <<cr, seen, objects, pc, kt, queued, revision, used>>
worker == <<pc, kt, queued>>

TypeOK ==
    /\ {cr, seen, kt} \subseteq CR \cup {None}
    /\ objects \in BOOLEAN
    /\ pc \in {"idle", "updateCR", "teardown", "patchCR", "reconcile"}
    /\ queued \in BOOLEAN
    /\ revision \in Nat
    /\ used \in [creates: 0..MaxCreates, foreign: 0..MaxForeign]

Init ==
    /\ cr = None
    /\ seen = None
    /\ objects = FALSE
    /\ pc = "idle"
    /\ kt = None
    /\ queued = FALSE
    /\ revision = 0
    /\ used = [creates |-> 0, foreign |-> 0]

\* What RemoveFinalizer keeps: it goes over the list once and appends.
Without(finalizers, f) ==
    LET kept[i \in 0..Len(finalizers)] ==
            IF i = 0 THEN <<>>
            ELSE IF finalizers[i] = f THEN kept[i - 1]
            ELSE Append(kept[i - 1], finalizers[i])
    IN  kept[Len(finalizers)]

-----------------------------------------------------------------------------
(* The API server                                                           *)

\* An object that is being deleted and has no finalizer left is gone; a write that changes
\* nothing makes no new version.
Write(finalizers, deleting) ==
    IF cr # None /\ cr.finalizers = finalizers /\ cr.deleting = deleting
    THEN UNCHANGED <<cr, revision>>
    ELSE /\ revision' = revision + 1
         /\ cr' = IF deleting /\ finalizers = <<>> THEN None
                  ELSE [finalizers |-> finalizers, deleting |-> deleting, rv |-> revision + 1]

CreateCR(finalizers) ==
    /\ cr = None
    /\ used.creates < MaxCreates
    /\ used' = [used EXCEPT !.creates = @ + 1]
    /\ Write(finalizers, FALSE)
    /\ UNCHANGED <<seen, objects, worker>>

DeleteCR ==
    /\ cr # None
    /\ ~cr.deleting
    /\ Write(cr.finalizers, TRUE)
    /\ UNCHANGED <<seen, objects, worker, used>>

\* The API server takes no new finalizer on an object that is being deleted.
AddForeign(f) ==
    /\ cr # None
    /\ ~cr.deleting
    /\ ~Contains(cr.finalizers, f)
    /\ Write(Append(cr.finalizers, f), FALSE)

RemoveForeign(f) ==
    /\ cr # None
    /\ Contains(cr.finalizers, f)
    /\ Write(Without(cr.finalizers, f), cr.deleting)

OtherController ==
    /\ used.foreign < MaxForeign
    /\ used' = [used EXCEPT !.foreign = @ + 1]
    /\ \E f \in Foreign : AddForeign(f) \/ RemoveForeign(f)
    /\ UNCHANGED <<seen, objects, worker>>

Sync ==
    /\ seen # cr
    /\ seen' = cr
    /\ queued' = TRUE
    /\ UNCHANGED <<cr, objects, pc, kt, revision, used>>

-----------------------------------------------------------------------------
(* The list                                                                 *)

\* A slice: an array, of which the first length elements count.
Slice == [array: Seq(Finalizer), length: Nat]

\* RemoveFinalizer moves what it keeps to the front of the array; the slice gets shorter,
\* the array keeps its old tail.
Compacted(list, f) ==
    LET kept == Without(SubSeq(list.array, 1, list.length), f)
    IN  [array |-> kept \o SubSeq(list.array, Len(kept) + 1, Len(list.array)),
         length |-> Len(kept)]

MutantStricken(finalizers) == finalizers

\* The loop goes over the array that its own removals compact, and so steps over the
\* neighbour of every finalizer it removes.
Stricken(finalizers) ==
    LET round == [i \in 1..Len(finalizers) |-> [list \in Slice |->
            IF list.array[i] = Own THEN list ELSE Compacted(list, list.array[i])]]
        after[i \in 0..Len(finalizers)] ==
            IF i = 0 THEN [array |-> finalizers, length |-> Len(finalizers)]
            ELSE round[i][after[i - 1]]
        last == after[Len(finalizers)]
    IN  SubSeq(last.array, 1, last.length)

MutantCleaned(finalizers) == Append(Stricken(finalizers), Own)

\* The cycle's copy gets the operator's own finalizer if it is not there.
Cleaned(finalizers) ==
    LET rest == Stricken(finalizers)
    IN  IF Contains(rest, Own) THEN rest ELSE Append(rest, Own)

MutantNeedToUpdateCR(finalizers) == ~Contains(finalizers, Own)

NeedToUpdateCR(finalizers) == ToSet(finalizers) # {Own}

-----------------------------------------------------------------------------
(* The worker                                                               *)

Return(requeue) ==
    /\ pc' = "idle"
    /\ kt' = None
    /\ queued' = (queued \/ requeue)

\* The first call, and what the cycle decides before the next: its copy has the operator's
\* finalizer by then, whatever the CR has.
Get ==
    /\ pc = "idle"
    /\ queued
    /\ queued' = FALSE
    /\ IF seen = None
       THEN UNCHANGED <<pc, kt>>
       ELSE /\ kt' = [seen EXCEPT !.finalizers = Cleaned(seen.finalizers)]
            /\ pc' = IF seen.deleting THEN "updateCR"
                     ELSE IF NeedToUpdateCR(seen.finalizers) THEN "patchCR"
                     ELSE "reconcile"
    /\ UNCHANGED <<cr, seen, objects, revision, used>>

MutantUpdateCR ==
    /\ pc = "updateCR"
    /\ IF cr # None /\ cr.rv = kt.rv
       THEN /\ Write(Without(kt.finalizers, Own), TRUE)
            /\ pc' = IF Len(kt.finalizers) = 1 THEN "teardown" ELSE "idle"
            /\ UNCHANGED <<kt, queued>>
       ELSE /\ Return(TRUE)
            /\ UNCHANGED <<cr, revision>>
    /\ UNCHANGED <<seen, objects, used>>

\* The update succeeds on the version read only; the finalizers that the loop stepped over
\* are still in it, and then the CR stays while it is torn down.
UpdateCR ==
    /\ pc = "updateCR"
    /\ IF cr # None /\ cr.rv = kt.rv
       THEN /\ Write(Without(kt.finalizers, Own), TRUE)
            /\ pc' = "teardown"
            /\ UNCHANGED <<kt, queued>>
       ELSE /\ Return(TRUE)
            /\ UNCHANGED <<cr, revision>>
    /\ UNCHANGED <<seen, objects, used>>

Teardown ==
    /\ pc = "teardown"
    /\ objects' = FALSE
    /\ Return(FALSE)
    /\ UNCHANGED <<cr, seen, revision, used>>

\* The patch replaces the whole list of whatever CR there is now.
PatchCR ==
    /\ pc = "patchCR"
    /\ IF cr = None \/ (cr.deleting /\ ~(ToSet(kt.finalizers) \subseteq ToSet(cr.finalizers)))
       THEN /\ Return(TRUE)
            /\ UNCHANGED <<cr, revision>>
       ELSE /\ Return(FALSE)
            /\ Write(kt.finalizers, cr.deleting)
    /\ UNCHANGED <<seen, objects, used>>

\* The rest of the cycle derives the objects from the copy; it does not look at the CR.
Reconcile ==
    /\ pc = "reconcile"
    /\ objects' = TRUE
    /\ Return(FALSE)
    /\ UNCHANGED <<cr, seen, revision, used>>

Worker ==
    \/ Get
    \/ UpdateCR
    \/ Teardown
    \/ PatchCR
    \/ Reconcile

Next ==
    \/ \E finalizers \in CreatedWith : CreateCR(finalizers)
    \/ DeleteCR
    \/ OtherController
    \/ Sync
    \/ Worker

Spec == Init /\ [][Next]_vars

\* The informer and the worker never stop; users and other controllers owe nothing.
FairSpec == Spec /\ WF_vars(Worker) /\ WF_vars(Sync)

-----------------------------------------------------------------------------
(* Properties                                                               *)

\* As long as derived objects exist, either the operator's finalizer holds the CR or the
\* teardown is the next thing that happens (lines 93-131): whatever other controllers do to
\* the list, and however old the operator's copy of it, nothing is left without its CR.
ObjectsAreHeld ==
    objects => \/ cr # None /\ Contains(cr.finalizers, Own)
               \/ pc = "teardown"

\* Deletion waits for no other controller, although a cycle may step over its finalizer.
DeletionCompletes == (cr # None /\ cr.deleting) ~> cr = None

\* In the end a CR in use has the operator's finalizer and no other.
OwnFinalizerSettles == <>[](cr # None /\ ~cr.deleting => cr.finalizers = <<Own>>)
=============================================================================
