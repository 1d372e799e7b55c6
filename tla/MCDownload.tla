---------------------------- MODULE MCDownload ----------------------------
EXTENDS Download, TLC

MCSpeed == [p \in Peer |-> 0]
Peers == Permutations(Peer)
=============================================================================
