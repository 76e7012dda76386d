--------------------------- MODULE MCRuntimeStore ---------------------------
(* RuntimeStore on small instances.                                        *)
EXTENDS StoreLedger, TLC

=============================================================================
