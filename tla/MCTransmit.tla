----------------------------- MODULE MCTransmit -----------------------------
(* The instance is given by the .cfg alone. *)
EXTENDS Transmit
=============================================================================
