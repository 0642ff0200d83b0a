------------------------------ MODULE MCPeers -------------------------------
(***************************************************************************)
(* Small networks of TcpMiners for TLC.                                    *)
(***************************************************************************)
EXTENDS Peers

\* Nobody has a config file that names anyone: the files of the repository.
NobodyKnown == [n \in Node |-> {}]
=============================================================================
