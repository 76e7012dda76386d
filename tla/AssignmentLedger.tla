-------------------------- MODULE AssignmentLedger --------------------------
(***************************************************************************)
(* What RuntimeStore promises its caller (the RuntimeStore interface):     *)
(* one atomic, durable record per attempt.  There is no disk, no memory    *)
(* and no crash here; RuntimeStore implements this specification.          *)
(***************************************************************************)
EXTENDS AssignmentJournal

CONSTANTS Attempts, Results, MaxEvents

VARIABLE ledger

Fresh ==
  [state |-> "absent", last |-> 0, acked |-> {}, result |-> NoResult,
   deleted |-> FALSE, payload |-> FALSE]

\* Every event allocated for the attempt has been acknowledged.
AllAcked(a) == ledger[a].acked = 1..ledger[a].last

Create(a) ==
  /\ ledger[a].state = "absent"
  /\ ledger' = [ledger EXCEPT ![a].state = "received"]

Advance(a, next) ==
  /\ Live(ledger[a])
  /\ next \in AllowedNext(ledger[a].state) \ {"finished", "result_acked"}
  /\ ledger' = [ledger EXCEPT ![a].state = next]

StorePayload(a) ==
  /\ Live(ledger[a]) /\ ~isAssignmentTerminal(ledger[a].state)
  /\ ledger[a].state # "reject_sent"
  /\ ledger' = [ledger EXCEPT ![a].payload = TRUE]

Append(a) ==
  /\ Live(ledger[a]) /\ ledger[a].state = "started"
  /\ ledger[a].last < MaxEvents
  /\ ledger' = [ledger EXCEPT ![a].last = @ + 1]

Finish(a, r) ==
  /\ Live(ledger[a]) /\ ledger[a].state = "started"
  /\ ledger' = [ledger EXCEPT ![a].state = "finished", ![a].result = r]

Ack(a, n) ==
  /\ Live(ledger[a])
  /\ ledger' = [ledger EXCEPT ![a].acked = @ \cup {n}]

\* A result is acknowledged only after every event it closes over.
AckFinal(a) ==
  /\ Live(ledger[a]) /\ ledger[a].state = "finished" /\ AllAcked(a)
  /\ ledger' = [ledger EXCEPT ![a].state = "result_acked"]

\* A record is deleted only in a terminal state and with no event pending.
Delete(a) ==
  /\ Live(ledger[a]) /\ isAssignmentTerminal(ledger[a].state) /\ AllAcked(a)
  /\ ledger' = [ledger EXCEPT ![a].deleted = TRUE, ![a].payload = FALSE]

Init == ledger = [a \in Attempts |-> Fresh]

Next ==
  \E a \in Attempts :
    \/ Create(a)
    \/ \E next \in AssignmentStates : Advance(a, next)
    \/ StorePayload(a)
    \/ Append(a)
    \/ \E r \in Results : Finish(a, r)
    \/ \E n \in 1..ledger[a].last : Ack(a, n)
    \/ AckFinal(a)
    \/ Delete(a)

Spec == Init /\ [][Next]_ledger
=============================================================================
