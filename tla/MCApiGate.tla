------------------------------ MODULE MCApiGate ------------------------------
(* Small instances of ApiGate. *)
EXTENDS ApiGate

CONSTANTS admin, viewer, a1

MCRolesOf ==
    [h \in Host |-> CASE h = admin -> {"admin"} [] h = viewer -> {"viewer"}]

\* The defaults, on a storage that takes keys as names and on one that does not, a
\* portal whose grant the host widened to everything beside an authorizer that
\* refuses changes, and a read-only core.
MCDefault ==
    [portal |-> TRUE, allow |-> PortalActions, roles |-> TRUE, frozen |-> FALSE,
     readonly |-> FALSE, opaque |-> TRUE]
MCPanel ==
    {MCDefault, [MCDefault EXCEPT !.opaque = FALSE],
     [MCDefault EXCEPT !.allow = AllActions, !.frozen = TRUE],
     [MCDefault EXCEPT !.portal = FALSE, !.allow = {}, !.roles = FALSE, !.readonly = TRUE]}

\* Tokens of either application beside an admin's session or none: run out, good
\* for a while, forged; requests without a token, by everybody else.
MCSender ==
    {s \in SenderType :
        IF s.bearer THEN s.host \in {NoOne, admin} /\ (s.genuine \/ s.exp = 2)
        ELSE s.owner = a1 /\ s.exp = 0 /\ s.genuine}
==============================================================================
