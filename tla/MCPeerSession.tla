---------------------------- MODULE MCPeerSession ----------------------------
(***************************************************************************)
(* The environments in which TLC checks PeerSession.                       *)
(***************************************************************************)
EXTENDS PeerSession

\* One fault alone, for the runs that exhibit a disagreement.
AbortOnly == {"abort"}

\* Only built-in or uploaded modules; AssemblyScript every other time.
NoSource == {}
OddSource == {r \in Runs : r % 2 = 1}
=============================================================================
