------------------------ MODULE MCWebServiceLifecycle ------------------------
(* A zero and a non-zero port, and two connections, so that one request   *)
(* can be in flight while another has been answered when Stop is called. *)
EXTENDS WebServiceLifecycle, TLC

CONSTANTS c1, c2

MCPorts == {0, 8443}
MCConns == {c1, c2}
Symmetry == Permutations(MCConns)
=============================================================================
