------------------------------ MODULE MCAuditLog -------------------------------
(* AuditLog; the constants of the instance are in the configuration.          *)
EXTENDS AuditLog
=============================================================================
