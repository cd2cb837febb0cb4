------------------------------ MODULE MCPortIpc ------------------------------
(* PortIpc on small instances. *)
EXTENDS PortIpc
=============================================================================
