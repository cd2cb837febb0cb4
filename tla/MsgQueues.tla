------------------------------ MODULE MsgQueues ------------------------------
(***************************************************************************)
(* What the properties of the two message queues (sys/msg.h) say of a      *)
(* queue.                                                                  *)
(***************************************************************************)
EXTENDS Integers, Sequences, FiniteSets

\* How many messages of queue s are of one of these types.
CountTypes(s, types) == Cardinality({i \in DOMAIN s : s[i].msgtype \in types})
=============================================================================
