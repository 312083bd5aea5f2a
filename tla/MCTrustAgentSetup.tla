------------------------- MODULE MCTrustAgentSetup -------------------------
(* Model values for the setup model: two non-empty owner secrets, three   *)
(* AIK secrets and three AIK key pairs, so that a host can be provisioned, *)
(* cleared and provisioned again, with a regeneration in between.         *)
EXTENDS TrustAgentSetup

CONSTANTS s1, s2, a1, a2, a3

MCOwnerSecrets == {s1, s2}
MCAikSecrets == {a1, a2, a3}
=============================================================================
