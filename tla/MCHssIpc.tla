------------------------------ MODULE MCHssIpc ------------------------------
(* HssIpc on a small instance. *)
EXTENDS HssIpc

C(u, e) == [user |-> u, expires |-> e]

\* One Contact, two users at once, one user twice; a star.
MCRegisters ==
  [contacts : {<<C("ann", Absent)>>, <<C("ann", 1), C("bob", 0)>>, <<C("bob", 0), C("bob", 1)>>},
   header : {Absent, 0}]
  \cup {[contacts |-> <<Star>>, header |-> 0]}
=============================================================================
