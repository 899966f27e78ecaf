----------------------------- MODULE MCPtpClient -----------------------------
(* PtpClient with negative constants, which a configuration cannot write. *)
EXTENDS PtpClient

Behind == -2
Before == -3
=============================================================================
