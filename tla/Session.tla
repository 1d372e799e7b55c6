------------------------------ MODULE Session -------------------------------
(***************************************************************************)
(* The session goroutine with several transfers (session.go): the search   *)
(* for peers to connect on each tick, the table of connections that all    *)
(* transfers share, the peer lists (Policy), and the stop.                 *)
(*                                                                         *)
(* Each case of the session's select is one action, but the tick, which    *)
(* walks the transfers again and again and is a step per transfer; all     *)
(* others wait until it is over.  Of a peer connection only its life as a  *)
(* goroutine is left, of a transfer only cmdChan and its end: Download has *)
(* the rest.                                                               *)
(***************************************************************************)
EXTENDS Policy

CONSTANTS
  Transfer,              \* hashes of transfers
  NoTransfer,
  FirstPeers,            \* the peers a new transfer is given
  MaxConnections,        \* configuration.MaxConnections, 100 in the program
  MaxConnectsPerSecond,  \* configuration.MaxConnectsPerSecond, 0 in the program
  InSessionPause,        \* pause of a peer another transfer is connected to, 15 s
  MaxTime                \* bound on the clock

ASSUME SessionAssumption ==
  /\ IsFiniteSet(Transfer) /\ NoTransfer \notin Transfer
  /\ FirstPeers \subseteq Endpoint
  /\ {MaxConnections, InSessionPause} \subseteq Nat \ {0}
  /\ MaxConnectsPerSecond \in Nat
  /\ MaxTime \in Nat \ {0}

VARIABLES
  execute,          \* the loop runs
  stopped,          \* stopped
  now,              \* the clock, from 1
  tick,             \* the search for candidates under way, or NoTick
  transfers,        \* keys of s.transfers
  unwanting,        \* transfers with Finished, LastError or Stopped set
  peers,            \* policy.peers of each transfer
  peerConnections,  \* s.peerConnections: whose connection to an endpoint it is
  conn,             \* the goroutines: "off", "dialing" or "connected"
  cmdChan,          \* of each transfer: "none", "open" or "closed"
  gone,             \* transfers that have ended
  stops,            \* goroutines that are to run Transfer.Stop
  panicked          \* a goroutine panicked

vars == <<execute, stopped, now, tick, transfers, unwanting, peers, peerConnections,
          conn, cmdChan, gone, stops, panicked>>

NoTick == [todo |-> {}, steps |-> 0, reserve |-> 0, on |-> FALSE]

Idle == execute /\ ~panicked /\ ~tick.on

InSession == {e \in Endpoint : peerConnections[e] # NoTransfer}

Orders(t) == SetToSeqs(DOMAIN peers[t])

NoPeers == [e \in {} |-> NewPeer({})]

----------------------------------------------------------------------------
(* Commands of the user, and sources from the server.                       *)

\* The flag 'S' has the bits of incoming and of server.
AddWalk(list, order) ==
  LET added[i \in 0..Len(order)] ==
        IF i = 0 THEN list ELSE AddPeer(added[i - 1], order[i], {"incoming", "server"}, <<>>)
  IN  added

WithFirstPeers(list, order) == AddWalk(list, order)[Len(order)]

\* tran, and restore: a complete file is given no peers, and its StartFinished
\* announces it soon (TransferFinished).  (A hash is added once.)
AddTransfer(t) ==
  /\ Idle /\ ~stopped
  /\ cmdChan[t] = "none"
  /\ transfers' = transfers \cup {t}
  /\ cmdChan' = [cmdChan EXCEPT ![t] = "open"]
  /\ \/ \E order \in SetToSeqs(FirstPeers) :
          peers' = [peers EXCEPT ![t] = WithFirstPeers(@, order)]
     \/ UNCHANGED peers
  /\ UNCHANGED <<execute, stopped, now, tick, unwanting, peerConnections, conn, gone,
                 stops, panicked>>

\* OP_FOUNDSOURCES: a source of the list.
FoundFileSources(t, e) ==
  /\ Idle
  /\ t \in transfers
  /\ \E order \in Orders(t) :
       peers' = [peers EXCEPT ![t] = AddPeer(@, e, {"server"}, order)]
  /\ UNCHANGED <<execute, stopped, now, tick, transfers, unwanting, peerConnections, conn,
                 cmdChan, gone, stops, panicked>>

\* Mutant: the transfers are not marked.
StoppedUnmarked == unwanting

StoppedMarked == unwanting \cup transfers

\* The goroutines that run Stop of the transfers left, unless none is left.
StopTransfers(left) ==
  /\ execute' = (left # {})
  /\ stops' = [t \in Transfer |-> IF t \in left THEN stops[t] + 1 ELSE stops[t]]

\* stop.  (The connections are told to close, which they do when they can.)
StopCommand ==
  /\ Idle /\ ~stopped
  /\ stopped' = TRUE
  /\ unwanting' = StoppedMarked
  /\ IF InSession = {} THEN StopTransfers(transfers) ELSE UNCHANGED <<execute, stops>>
  /\ UNCHANGED <<now, tick, transfers, peers, peerConnections, conn, cmdChan, gone, panicked>>

----------------------------------------------------------------------------
(* The tick.                                                                *)

BeginTick ==
  /\ Idle
  /\ transfers # {}
  /\ Cardinality(InSession) < MaxConnections
  /\ tick' = [todo |-> transfers, steps |-> 0, reserve |-> MaxConnectsPerSecond, on |-> TRUE]
  /\ UNCHANGED <<execute, stopped, now, transfers, unwanting, peers, peerConnections, conn,
                 cmdChan, gone, stops, panicked>>

WantMorePeers(t) == t \notin unwanting /\ NumConnectCandidates(peers[t]) > 0

Candidate(t, order) ==
  IF WantMorePeers(t) THEN FindConnectCandidate(peers[t], order, now) ELSE NoEndpoint

\* One iteration of the inner loop; connectionsReserve may become negative.
VisitTransfer(t) ==
  /\ tick.on
  /\ t \in tick.todo
  /\ \E order \in Orders(t) :
       LET e == Candidate(t, order)
       IN  \/ /\ e = NoEndpoint
              /\ tick' = [tick EXCEPT !.todo = @ \ {t}]
              /\ UNCHANGED <<peers, peerConnections, conn>>
           \/ /\ e \in Endpoint \ InSession
              /\ peers' = [peers EXCEPT ![t][e].LastConnected = now,
                                        ![t][e].connected = TRUE]
              /\ peerConnections' = [peerConnections EXCEPT ![e] = t]
              /\ conn' = [conn EXCEPT ![t][e] = "dialing"]
              /\ tick' = [tick EXCEPT !.todo = @ \ {t}, !.steps = 0, !.reserve = @ - 1]
           \/ /\ e \in InSession
              /\ peers' = [peers EXCEPT ![t][e].NextConnection = now + InSessionPause]
              /\ tick' = [tick EXCEPT !.todo = @ \ {t}]
              /\ UNCHANGED <<peerConnections, conn>>
  /\ UNCHANGED <<execute, stopped, now, transfers, unwanting, cmdChan, gone, stops, panicked>>

\* Mutant: one more pass.
GoesOnLonger(steps, reserve) == steps <= Cardinality(transfers) * 2 + 1 /\ reserve # 0

GoesOn(steps, reserve) == steps <= Cardinality(transfers) * 2 /\ reserve # 0

\* Mutant: the passes are not counted.
AgainUncounted == [tick EXCEPT !.todo = transfers]

Again == [tick EXCEPT !.todo = transfers, !.steps = @ + 1]

\* The end of one pass over the transfers.
EndPass ==
  /\ tick.on
  /\ tick.todo = {}
  /\ tick' = IF GoesOn(tick.steps + 1, tick.reserve) THEN Again ELSE NoTick
  /\ UNCHANGED <<execute, stopped, now, transfers, unwanting, peers, peerConnections, conn,
                 cmdChan, gone, stops, panicked>>

----------------------------------------------------------------------------
(* Peer connections.                                                        *)

RegisterPeerConnection(t, e) ==
  /\ Idle
  /\ conn[t][e] = "dialing"
  /\ conn' = [conn EXCEPT ![t][e] = "connected"]
  /\ peerConnections' = [peerConnections EXCEPT ![e] = t]
  /\ UNCHANGED <<execute, stopped, now, tick, transfers, unwanting, peers, cmdChan, gone,
                 stops, panicked>>

\* Mutant: the peer keeps its connection.
StillConnected(p) == [p EXCEPT !.LastConnected = now, !.FailCount = @ + 1]

\* The peer of a connection that ended.  closedByRequest is never set and the
\* error never nil, so each end counts as a failure.
Disconnected(p) ==
  [p EXCEPT !.connected = FALSE, !.LastConnected = now, !.FailCount = @ + 1]

\* The dial failed, or the read loop ended.
UnregisterPeerConnection(t, e) ==
  /\ Idle
  /\ conn[t][e] # "off"
  /\ conn' = [conn EXCEPT ![t][e] = "off"]
  /\ peerConnections' = [peerConnections EXCEPT ![e] = NoTransfer]
  /\ peers' = IF e \in DOMAIN peers[t]
              THEN [peers EXCEPT ![t][e] = Disconnected(@)]
              ELSE peers
  /\ IF stopped /\ InSession \ {e} = {}
     THEN StopTransfers(transfers) ELSE UNCHANGED <<execute, stops>>
  /\ UNCHANGED <<stopped, now, tick, transfers, unwanting, cmdChan, gone, panicked>>

----------------------------------------------------------------------------
(* Transfers.                                                               *)

\* It is finished, or failed: it wants no more peers.
TransferFinished(t) ==
  /\ Idle
  /\ t \in transfers
  /\ unwanting' = unwanting \cup {t}
  /\ UNCHANGED <<execute, stopped, now, tick, transfers, peers, peerConnections, conn,
                 cmdChan, gone, stops, panicked>>

\* Transfer.Stop in its own goroutine: a second close of cmdChan panics.
RunStop(t) ==
  /\ ~panicked
  /\ stops[t] > 0
  /\ stops' = [stops EXCEPT ![t] = @ - 1]
  /\ cmdChan' = [cmdChan EXCEPT ![t] = "closed"]
  /\ panicked' = (cmdChan[t] = "closed")
  /\ UNCHANGED <<execute, stopped, now, tick, transfers, unwanting, peers, peerConnections,
                 conn, gone>>

\* Mutant: the session ends with the first of its transfers.
EndsWithFirst(left) == stopped /\ InSession = {}

\* Mutant: the end of the last transfer is not noticed.
NeverEnds(left) == FALSE

\* A stopped session goes on while something is left.
MayEnd(left) == stopped /\ InSession = {} /\ left = {}

\* The transfer sees cmdChan closed, and the session takes transferChanClosed.
TransferClosed(t) ==
  /\ Idle
  /\ cmdChan[t] = "closed" /\ t \notin gone
  /\ gone' = gone \cup {t}
  /\ transfers' = transfers \ {t}
  /\ execute' = ~MayEnd(transfers')
  /\ UNCHANGED <<stopped, now, tick, unwanting, peers, peerConnections, conn, cmdChan,
                 stops, panicked>>

TimePasses ==
  /\ execute
  /\ now < MaxTime
  /\ now' = now + 1
  /\ UNCHANGED <<execute, stopped, tick, transfers, unwanting, peers, peerConnections, conn,
                 cmdChan, gone, stops, panicked>>

\* Session.Stop returns and the program ends.
SessionClosed == ~execute /\ UNCHANGED vars

----------------------------------------------------------------------------
Init ==
  /\ execute = TRUE
  /\ stopped = FALSE
  /\ now = 1
  /\ tick = NoTick
  /\ transfers = {}
  /\ unwanting = {}
  /\ peers = [t \in Transfer |-> NoPeers]
  /\ peerConnections = [e \in Endpoint |-> NoTransfer]
  /\ conn = [t \in Transfer |-> [e \in Endpoint |-> "off"]]
  /\ cmdChan = [t \in Transfer |-> "none"]
  /\ gone = {}
  /\ stops = [t \in Transfer |-> 0]
  /\ panicked = FALSE

TickStep == EndPass \/ \E t \in Transfer : VisitTransfer(t)

Next ==
  \/ StopCommand \/ BeginTick \/ TickStep \/ TimePasses \/ SessionClosed
  \/ \E t \in Transfer : AddTransfer(t) \/ TransferFinished(t) \/ RunStop(t) \/ TransferClosed(t)
  \/ \E t \in Transfer, e \in Endpoint :
       \/ FoundFileSources(t, e)
       \/ RegisterPeerConnection(t, e) \/ UnregisterPeerConnection(t, e)

\* The session serves some connection or transfer that is waiting for it again
\* and again, although ticks may win for a while (strong fairness).  That every
\* connection ends is an assumption on the peers.
Fairness ==
  /\ WF_vars(TickStep)
  /\ WF_vars(\E t \in Transfer : RunStop(t))
  /\ SF_vars(\E t \in Transfer : \/ TransferClosed(t)
                                 \/ \E e \in Endpoint : UnregisterPeerConnection(t, e))

Spec == Init /\ [][Next]_vars /\ Fairness

----------------------------------------------------------------------------
\* Every variable has its type.
TypeOK ==
  /\ {execute, stopped, panicked, tick.on} \subseteq BOOLEAN
  /\ now \in 1..MaxTime
  /\ tick.todo \subseteq transfers
  /\ tick.steps \in 0..(2 * Cardinality(transfers)) /\ tick.reserve \in Int
  /\ transfers \subseteq Transfer /\ unwanting \subseteq Transfer /\ gone \subseteq Transfer
  /\ \A t \in Transfer : DOMAIN peers[t] \subseteq Endpoint
  /\ \A t \in Transfer : \A e \in DOMAIN peers[t] : peers[t][e] \in PeerRecord
  /\ peerConnections \in [Endpoint -> Transfer \cup {NoTransfer}]
  /\ conn \in [Transfer -> [Endpoint -> {"off", "dialing", "connected"}]]
  /\ cmdChan \in [Transfer -> {"none", "open", "closed"}]
  /\ stops \in [Transfer -> Nat]

\* The table of connections, the connections that run and the peers' marks
\* agree: two transfers never connect the same endpoint at a time, and the
\* peer of a connection is neither erased from its list nor tried again
\* (session.go:389-404, 442, 449, 452; policy.go:39-45).
TablesAgree ==
  \A t \in Transfer, e \in Endpoint :
    /\ conn[t][e] # "off" <=> peerConnections[e] = t
    /\ conn[t][e] # "off" <=> e \in DOMAIN peers[t] /\ peers[t][e].connected

\* No goroutine panics: cmdChan is closed once, by the stop or by the last
\* connection that ends after it (session.go:147, 469-471; transfer.go:290).
ClosedOnce == ~panicked

\* The session ends only when nothing is left that would talk to it: no
\* connection, no transfer (session.go:103, 138, 464, 494).
NobodyIsLeft ==
  ~execute => /\ transfers = {} /\ InSession = {}
              /\ \A t \in Transfer : cmdChan[t] = "open" => t \in gone

\* A transfer gets a connection only to a peer that is due, of those the one
\* that failed least, whatever the order of the map (policy.go:209-234).
LeastFailedIsNext ==
  [][\A t \in Transfer, e \in Endpoint :
       conn[t][e] = "off" /\ conn'[t][e] # "off" =>
         LET tried == {x \in DOMAIN peers[t] :
                         ~peers[t][x].connected /\ Due(peers[t][x], now)}
         IN  /\ e \in tried
             /\ peers[t][e].FailCount <= MaxFail
             /\ now >= peers[t][e].LastConnected + peers[t][e].FailCount * MinReconnect
                  \/ peers[t][e].LastConnected = 0
             /\ \A x \in tried : peers[t][x].FailCount >= peers[t][e].FailCount]_vars

\* The search for candidates ends though nothing limits the connections of a
\* second, whichever transfers find one (session.go:405-419).
TickEnds == tick.on ~> ~tick.on

\* The stopped session ends once the peers let go of their connections: none is
\* started again, and every transfer is told (session.go:136-158, 464-472, 494).
StopEnds == stopped ~> ~execute
=============================================================================
