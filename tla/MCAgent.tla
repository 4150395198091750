------------------------------- MODULE MCAgent -------------------------------
(* Agent on small instances; the .cfg files give the bounds.                *)
EXTENDS Agent
=============================================================================
