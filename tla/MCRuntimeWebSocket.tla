------------------------- MODULE MCRuntimeWebSocket -------------------------
(* RuntimeWebSocket on small instances.                                    *)
EXTENDS RuntimeWebSocket, TLC

Session(ops, pushes, ids, faulty) == [ops |-> ops, pushes |-> pushes, ids |-> ids, faults |-> faulty]

\* Each kind of exchange with the message IDs it takes, the dial's first: calls
\* with their replies, pings and notices, an offer that is repeated while it is
\* answered, and a cancellation.
MCSessions ==
  {Session({"resume", "renew", "event", "result", "drain", "extension"}, {}, 2, 1),
   Session({}, {"ping", "notice"}, 2, 1),
   Session({"ack", "reject"}, {"assigned"}, 4, 0),
   Session({"cancelAck"}, {"cancel"}, 3, 1)}
=============================================================================
