------------------------------ MODULE MCRegistry ------------------------------
(* Small instances of Registry. *)
EXTENDS Registry

CONSTANTS a1, e1, d1

MCAppOf == [x \in Endpoint \cup Delivery |-> a1]
MCEndpointOf == [d \in Delivery |-> e1]
==============================================================================
