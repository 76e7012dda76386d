------------------------ MODULE MCRuntimeCredentials ------------------------
(***************************************************************************)
(* Instances of RuntimeCredentials for TLC.                                *)
(***************************************************************************)
EXTENDS RuntimeCredentials, TLC

automatic(token) ==
  [token |-> token, agent |-> "", node |-> "", explicit |-> FALSE, tokenOnly |-> FALSE,
   platform |-> TRUE]

\* The configurations one installation can be given.
MCConfigs ==
  {automatic("a1"),
   [automatic("a1") EXCEPT !.agent = "a1", !.node = "cfg"],
   [automatic("a1") EXCEPT !.agent = "a1", !.tokenOnly = TRUE],
   [automatic("a1") EXCEPT !.explicit = TRUE],
   [automatic("a1") EXCEPT !.platform = FALSE]}

platform(policy, global, m) == [policy |-> policy, global |-> global, mode |-> m]

MCTurns == {platform(TRUE, FALSE, "mtls"), platform(FALSE, FALSE, "token_only")}
=============================================================================
