----------------------------- MODULE MCCallFlow -----------------------------
(* CallFlow on small instances. *)
EXTENDS CallFlow
=============================================================================
