------------------------------- MODULE Policy -------------------------------
(***************************************************************************)
(* The list of the peers of one transfer (policy.go): which of them is     *)
(* connected next, and which is dropped when the list is full.             *)
(*                                                                         *)
(* A list is a function from endpoints to Peer records.  The code walks a  *)
(* Go map, whose order is arbitrary; the operators that walk take it as a  *)
(* parameter.  Times are in units of the model, 0 is time.Time{}.          *)
(***************************************************************************)
EXTENDS Integers, FiniteSets, SequencesExt

CONSTANTS
  Endpoint,        \* endpoints of peers
  NoEndpoint,      \* proto.Endpoint{}, not the endpoint of any peer here
  Local,           \* those for which IsLocalAddress holds
  MaxPeers,        \* maxPeers, 100 in the program
  MaxFail,         \* a peer that failed more often is not tried, 5 in the program
  MinReconnect     \* MIN_RECONNECT_TIMEOUT_SEC, 10 in the program

ASSUME PolicyAssumption ==
  /\ IsFiniteSet(Endpoint) /\ NoEndpoint \notin Endpoint
  /\ Local \subseteq Endpoint
  /\ {MaxPeers, MinReconnect} \subseteq Nat \ {0}
  /\ MaxFail \in Nat

Source == {"incoming", "server", "dht", "resume"}

PeerRecord == [SourceFlag : SUBSET Source, LastConnected : Nat, NextConnection : Nat,
               FailCount : Nat, connected : BOOLEAN]

NewPeer(flags) == [SourceFlag |-> flags, LastConnected |-> 0, NextConnection |-> 0,
                   FailCount |-> 0, connected |-> FALSE]

IsConnectCandidate(p) == ~p.connected /\ p.FailCount <= MaxFail

IsEraseCandidate(p) == ~p.connected /\ ~IsConnectCandidate(p) /\ p.FailCount > 0

\* The test for "dht" compares the bit of "server" and never holds.
SourceRank(p) ==
  (IF "server" \in p.SourceFlag THEN 32 ELSE 0)
    + (IF "incoming" \in p.SourceFlag THEN 8 ELSE 0)
    + (IF "resume" \in p.SourceFlag THEN 4 ELSE 0)

----------------------------------------------------------------------------
(* Whom to connect.                                                         *)

ConnectKey(peers, e) ==
  <<peers[e].FailCount, IF e \in Local THEN 0 ELSE 1, peers[e].LastConnected,
    peers[e].NextConnection, 0 - SourceRank(peers[e])>>

LexLess(s, t) ==
  \E i \in DOMAIN s : s[i] < t[i] /\ \A j \in 1..(i - 1) : s[j] = t[j]

LeftBetterRightToConnect(peers, l, r) == LexLess(ConnectKey(peers, l), ConnectKey(peers, r))

\* A pause for each failure, and none before NextConnection.
Due(p, t) ==
  /\ p.LastConnected = 0 \/ t >= p.LastConnected + p.FailCount * MinReconnect
  /\ t >= p.NextConnection

NumConnectCandidates(peers) == Cardinality({e \in DOMAIN peers : IsConnectCandidate(peers[e])})

\* Mutant: the peer in hand is compared the other way round.
KeepWorse(peers, candidate, e) == LeftBetterRightToConnect(peers, e, candidate)

KeepCandidate(peers, candidate, e) == LeftBetterRightToConnect(peers, candidate, e)

\* NoEndpoint stands for nil.
TakesToConnect(peers, candidate, e, t) ==
  /\ IsConnectCandidate(peers[e])
  /\ candidate # NoEndpoint => ~KeepCandidate(peers, candidate, e)
  /\ Due(peers[e], t)

\* The candidate after each step of the walk.
ConnectWalk(peers, order, t) ==
  LET best[i \in 0..Len(order)] ==
        IF i = 0 THEN NoEndpoint
        ELSE IF TakesToConnect(peers, best[i - 1], order[i], t) THEN order[i] ELSE best[i - 1]
  IN  best

FindConnectCandidate(peers, order, t) == ConnectWalk(peers, order, t)[Len(order)]

----------------------------------------------------------------------------
(* Whom to drop.                                                            *)

LeftBetterRightToRemove(l, r) ==
  \/ l.FailCount > r.FailCount
  \/ /\ l.FailCount = r.FailCount
     /\ "resume" \in l.SourceFlag /\ "resume" \notin r.SourceFlag

TakesToErase(peers, candidate, e) ==
  /\ IsEraseCandidate(peers[e])
  /\ candidate # NoEndpoint => ~LeftBetterRightToRemove(peers[candidate], peers[e])

EraseWalk(peers, order) ==
  LET worst[i \in 0..Len(order)] ==
        IF i = 0 THEN NoEndpoint
        ELSE IF TakesToErase(peers, worst[i - 1], order[i]) THEN order[i] ELSE worst[i - 1]
  IN  worst

EraseCandidate(peers, order) == EraseWalk(peers, order)[Len(order)]

\* At most one peer goes.  (The walk would stop early below the low watermark
\* of 95 percent; it is only called when the list is full.)
ErasePeers(peers, order) ==
  [e \in DOMAIN peers \ {EraseCandidate(peers, order)} |-> peers[e]]

\* A full list makes room before it looks whether it knows the peer.
AddPeer(peers, e, flags, order) ==
  LET full == Cardinality(DOMAIN peers) >= MaxPeers
      rest == IF full THEN ErasePeers(peers, order) ELSE peers
  IN  IF full /\ rest = peers THEN peers
      ELSE IF e \in DOMAIN rest THEN [rest EXCEPT ![e].SourceFlag = @ \cup flags]
      ELSE [x \in DOMAIN rest \cup {e} |-> IF x = e THEN NewPeer(flags) ELSE rest[x]]
=============================================================================
