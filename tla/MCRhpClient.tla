----------------------------- MODULE MCRhpClient -----------------------------
(* RhpClient on small instances; the .cfg files give the bounds.             *)
EXTENDS RhpClient
=============================================================================
