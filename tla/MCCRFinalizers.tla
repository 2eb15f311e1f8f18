--------------------------- MODULE MCCRFinalizers ---------------------------
(***************************************************************************)
(* Constants for the model checking of CRFinalizers.                        *)
(***************************************************************************)
EXTENDS CRFinalizers

CONSTANTS own, a, b, c

\* No finalizer, or two of others before the operator's: the second is stepped over.
FewLists == {<<>>, <<a, b, own>>}

OtherThree == {a, b, c}
=============================================================================
