--------------------------- MODULE MCDeliveryQueue ---------------------------
(***************************************************************************)
(* Small instances of DeliveryQueue.                                       *)
(***************************************************************************)
EXTENDS DeliveryQueue, TLC

CONSTANTS d1, d2, e1

OneEndpoint == [d \in Delivery |-> e1]

\* The steps before which nothing has been taken out of the due index.
BeforeRemoval == {"queued", "sending", "log", "unindex_next", "hold_unindex", "note",
                  "publish", "retry", "recover"}

\* Every step of a dispatcher; control-plane calls complete.
DispatcherSteps == JobPc \ {"idle"}

Symmetry == Permutations(Delivery) \cup Permutations(Dispatcher) \cup Permutations(Caller)
==============================================================================
