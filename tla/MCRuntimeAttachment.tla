------------------------ MODULE MCRuntimeAttachment ------------------------
(* Instances of RuntimeAttachment. *)
EXTENDS RuntimeAttachment, TLC

CONSTANTS c1, c2
TwoCallers == {c1, c2}
CallerSymmetry == Permutations(Callers)
AllOps == {"create", "heartbeat", "close", "dial", "claim"} \cup PullCalls
=============================================================================
