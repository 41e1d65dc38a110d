----------------------------- MODULE MCSignatures -----------------------------
(* Small instances of Signatures. *)
EXTENDS Signatures
==============================================================================
