---------------------------- MODULE MCRtpServer ----------------------------
(* RtpServer on small instances. *)
EXTENDS RtpServer
=============================================================================
