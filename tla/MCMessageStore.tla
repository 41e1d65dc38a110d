----------------------------- MODULE MCMessageStore -----------------------------
(***************************************************************************)
(* Small instances of MessageStore.                                        *)
(***************************************************************************)
EXTENDS MessageStore, TLC

\* Steps before the first write of a publish, or the first removal of a pass.
BeforeWrites == {"lookup", "existing", "hook", "message", "list", "check"}

Symmetry == Permutations(Publisher) \cup Permutations(Payload) \cup Permutations(Endpoint)
===============================================================================
