----------------------------- MODULE MCInbound -----------------------------
(* Inbound for TLC. *)
EXTENDS Inbound

LastGarbled == {3}
=============================================================================
