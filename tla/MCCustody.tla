----------------------------- MODULE MCCustody -----------------------------
(* Custody with admissions that share an operation or an object.           *)
EXTENDS Custody, TLC

CONSTANTS i1, i2, o1, h1, h2

\* Another operation for the same object, and the same operation with another
\* content.
SharingAdmissions ==
    {[op |-> i1, obj |-> o1, hash |-> h1], [op |-> i2, obj |-> o1, hash |-> h2],
     [op |-> i1, obj |-> o1, hash |-> h2]}

Symmetry == Permutations(Requests)

\* Nothing is claimed, so nothing is explored, once the power failed in the
\* window of a given-up fsync.
NotExposed == ~exposed
=============================================================================
