----------------------------- MODULE MCAcpClient ------------------------------
(* AcpClient with two calls of the tool at once.                             *)
EXTENDS AcpClient

CONSTANTS t1, t2
=============================================================================
