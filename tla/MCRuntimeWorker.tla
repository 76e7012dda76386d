--------------------------- MODULE MCRuntimeWorker ---------------------------
(* Small instances of RuntimeWorker for TLC.                               *)
EXTENDS RuntimeWorker, TLC

\* The bound on revocations: a lease renewal and a lease.revoked command do not
\* revoke at the same time.  Both run revokeLocalAttempt, as the spool loop may
\* do beside either of them.
OneLeaseRevocation == At("renew", "idle") \/ At("command", "idle")
=============================================================================
