----------------------------- MODULE MCProxyTsx -----------------------------
(* ProxyTsx on small instances. *)
EXTENDS ProxyTsx
=============================================================================
