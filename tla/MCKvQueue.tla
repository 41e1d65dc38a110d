------------------------------- MODULE MCKvQueue -------------------------------
(***************************************************************************)
(* Small instances of KvQueue.                                             *)
(***************************************************************************)
EXTENDS KvQueue, TLC

CONSTANTS d1, e1

OneEndpoint == [d \in Delivery |-> e1]

\* Steps before which nothing has been taken out of the due index: one of the
\* worker before and one after the receiver was reached, and the scan's.
BeforeRemoval == {"sending", "log", "scan_claim", "scan_unindex"}

Symmetry == Permutations(Delivery) \cup Permutations(Dispatcher) \cup Permutations(Caller)
===============================================================================
