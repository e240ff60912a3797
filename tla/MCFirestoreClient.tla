-------------------------- MODULE MCFirestoreClient --------------------------
(***************************************************************************)
(* FirestoreClient for TLC, in four small instances explored side by side. *)
(***************************************************************************)
EXTENDS FirestoreClient

CONSTANTS k1, k2

Set(k) == [key |-> k, kind |-> "set"]
Update(k) == [key |-> k, kind |-> "update"]
Delete(k) == [key |-> k, kind |-> "delete"]

\* A pipeline that fills up, with writes to one document and to another.
ThreeWrites == [writes |-> <<{Set(k1)}, {Set(k1)}, {Set(k2)}>>,
                elsewhere |-> 0, faults |-> 1, restarts |-> 1]

\* Another device sets or deletes the document in between.
TwoDevices == [writes |-> <<{Set(k1)}, {Update(k1), Set(k2)}>>,
               elsewhere |-> 1, faults |-> 0, restarts |-> 1]

\* The document updated is one that another device made, heard of or not.
MadeElsewhere == [writes |-> <<{Update(k1)}, {Set(k1)}>>,
                  elsewhere |-> 1, faults |-> 1, restarts |-> 1]

\* Users and launches alternate; what was set is deleted or updated.
ThreeLaunches == [writes |-> <<{Set(k1)}, {Update(k1), Delete(k1)}>>,
                  elsewhere |-> 0, faults |-> 1, restarts |-> 2]

MCLimits == {ThreeWrites, TwoDevices, MadeElsewhere, ThreeLaunches}
=============================================================================
