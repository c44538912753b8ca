---------------------------- MODULE MCRendezvous ----------------------------
(* Small instances of Rendezvous for TLC. *)
EXTENDS Rendezvous
=============================================================================
