--------------------------- MODULE MCProxyRouting ---------------------------
(* ProxyRouting on a small instance. *)
EXTENDS ProxyRouting

MCInterfaces == <<"inside">>
MCPlaces     == {Address("home", 5060), Address("away", 5070)}
=============================================================================
