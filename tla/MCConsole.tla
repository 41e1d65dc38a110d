------------------------------ MODULE MCConsole ------------------------------
(* Small instances of Console: two endpoints of one application. *)
EXTENDS Console

MCHome == [e \in Endpoints |-> PortalApp]
MCDefaultApp == PortalApp
MCPublished == <<"failed", "pending">>
==============================================================================
