----------------------------- MODULE MCDnscache -----------------------------
(* Clients are interchangeable. *)
EXTENDS Dnscache, TLC

Clients == Permutations(Client)
=============================================================================
