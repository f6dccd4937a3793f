------------------------------- MODULE MCMount -------------------------------
(* Instances of Mount for TLC. *)
EXTENDS Mount
=============================================================================
