------------------------------- MODULE MCSync -------------------------------
(* Sync on small instances; the .cfg files give the bounds.                  *)
EXTENDS Sync
=============================================================================
