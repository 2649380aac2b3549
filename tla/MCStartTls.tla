----------------------------- MODULE MCStartTls -----------------------------
(* Instances of StartTls for TLC. *)
EXTENDS StartTls
=============================================================================
