------------------------- MODULE MCRuntimeTransport -------------------------
(* RuntimeTransport on small instances.                                    *)
EXTENDS RuntimeTransport, TLC

\* The policies that OpenLinker publishes: long-poll only after both, and again
\* both while a recovery may still be under way; WebSocket only, then both.
ThenPullOnly == << <<"ws", "pull">>, <<"pull">>, <<"ws", "pull">> >>
\* The bound on disturbances: a third policy or a fault.
FewDisturbances == core < 3 \/ faults = 0
ThenEither == << <<"ws">>, <<"ws", "pull">> >>
=============================================================================
