----------------------------- MODULE MCRtpRelay -----------------------------
(* RtpRelay on a small instance. *)
EXTENDS RtpRelay

\* Three packets are what it takes for two of them to be forwarded after the first.
MCMaxPackets == [i \in {0, 1} |-> IF i = 0 THEN 3 ELSE 2]
=============================================================================
