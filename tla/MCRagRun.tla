------------------------------ MODULE MCRagRun ------------------------------
(* RagRun on small instances. *)
EXTENDS RagRun

=============================================================================
