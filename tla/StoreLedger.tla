---------------------------- MODULE StoreLedger -----------------------------
(***************************************************************************)
(* The file store implements the atomic ledger: what a ledger entry is, in *)
(* terms of the directory, is what the next open would recover from it.    *)
(***************************************************************************)
EXTENDS RuntimeStore

Ledger == INSTANCE AssignmentLedger WITH
            ledger <- [a \in Attempts |-> View(Recovered[a], payFile[a])]

\* The store implements the ledger: its operations happen at one durable
\* write, and crashes, reopening and reconciliation change nothing.
ImplementsLedger == Ledger!Spec
=============================================================================
