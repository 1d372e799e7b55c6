---------------------------- MODULE SessionProofs ----------------------------
(***************************************************************************)
(* Proofs about the session, for every number of transfers and peers and   *)
(* all limits: the table of connections, the goroutines and the marks in   *)
(* the peer lists agree, the peer that is tried is the one that failed     *)
(* least, a transfer is stopped once, and the session ends only when       *)
(* nobody is left.                                                         *)
(***************************************************************************)
EXTENDS Session, FiniteSetTheorems, WellFoundedInduction, TLAPS

Types ==
  /\ execute \in BOOLEAN /\ stopped \in BOOLEAN
  /\ transfers \subseteq Transfer /\ unwanting \subseteq Transfer /\ gone \subseteq Transfer
  /\ peerConnections \in [Endpoint -> Transfer \cup {NoTransfer}]
  /\ conn \in [Transfer -> [Endpoint -> {"off", "dialing", "connected"}]]
  /\ cmdChan \in [Transfer -> {"none", "open", "closed"}]
  /\ stops \in [Transfer -> Nat]

\* The table has the connections that run, each endpoint once.
ConnectionsAreListed ==
  \A t \in Transfer, e \in Endpoint : conn[t][e] # "off" <=> peerConnections[e] = t

\* The tick visits transfers of the session.
TickInSession ==
  /\ tick \in [todo : SUBSET Transfer, steps : Int, reserve : Int, on : BOOLEAN]
  /\ tick.todo \subseteq transfers
  /\ ~tick.on => tick.todo = {}

\* The transfers of a stopped session want no more peers.
NobodyIsWanted == stopped => transfers \subseteq unwanting

\* A transfer is in the session from its command to its end.
Registered ==
  \A t \in Transfer :
    /\ t \in transfers <=> cmdChan[t] # "none" /\ t \notin gone
    /\ t \in gone => cmdChan[t] = "closed"

\* Stop is run when the last connection has ended, once for each transfer.
StopsOnce ==
  \A t \in Transfer :
    /\ stops[t] # 0 => stops[t] = 1 /\ cmdChan[t] = "open" /\ t \in transfers
    /\ stops[t] # 0 \/ cmdChan[t] = "closed" => stopped /\ InSession = {}

EndedAlone == ~execute => stopped /\ transfers = {} /\ InSession = {}

SessionInv ==
  /\ Types /\ ConnectionsAreListed /\ TickInSession /\ NobodyIsWanted /\ Registered
  /\ StopsOnce /\ EndedAlone /\ ClosedOnce

----------------------------------------------------------------------------
(* Walks.  A walk is a function of the number of its steps.  It exists      *)
(* whatever the step does, which the least number without it shows.         *)

LEMMA LeastElement ==
  ASSUME NEW T, T \subseteq Nat, T # {}
  PROVE  \E x \in T : \A y \in T : x <= y
<1>1. PICK x \in T : \A y \in T : ~ (<<y, x>> \in OpToRel(<, Nat))
  BY NatLessThanWellFounded, WFMin
<1>2. \A y \in T : ~(y < x)
  BY <1>1 DEF OpToRel
<1> QED
  BY <1>2

\* A set of the numbers to n that has 0, and with each the next one, has them all.
LEMMA UpTo ==
  ASSUME NEW n \in Nat, NEW G, 0 \in G, \A i \in 1..n : i - 1 \in G => i \in G
  PROVE  0..n \subseteq G
<1> DEFINE T == (0..n) \ G
<1>1. SUFFICES ASSUME T # {} PROVE FALSE
  OBVIOUS
<1>2. PICK k \in T : \A y \in T : k <= y
  <2>1. T \subseteq Nat
    OBVIOUS
  <2> HIDE DEF T
  <2> QED
    BY <1>1, <2>1, LeastElement
<1>3. k \in 1..n /\ k - 1 \notin T
  BY <1>2
<1> QED
  BY <1>2, <1>3

LEMMA WalkExists ==
  ASSUME NEW S, NEW base \in S, NEW n \in Nat, NEW step \in [1..n -> [S -> S]]
  PROVE  \E w \in [0..n -> S] : w[0] = base /\ \A i \in 1..n : w[i] = step[i][w[i - 1]]
<1> DEFINE IsWalk(w, k) == /\ w \in [0..k -> S] /\ w[0] = base
                           /\ \A i \in 1..k : w[i] = step[i][w[i - 1]]
           G == {k \in 0..n : \E w : IsWalk(w, k)}
<1>1. 0 \in G
  <2>1. IsWalk([i \in 0..0 |-> base], 0) /\ 0 \in 0..n
    OBVIOUS
  <2> HIDE DEF IsWalk
  <2> QED
    BY <2>1
<1>2. ASSUME NEW k \in 1..n, k - 1 \in G PROVE k \in G
  <2>1. PICK w : IsWalk(w, k - 1)
    BY <1>2
  <2> DEFINE v == [i \in 0..k |-> IF i = k THEN step[k][w[k - 1]] ELSE w[i]]
  <2>2. k - 1 \in 0..(k - 1) /\ k \in Nat /\ \A i \in 0..k : i = k \/ i \in 0..(k - 1)
    OBVIOUS
  <2>3. v \in [0..k -> S]
    BY <2>1, <2>2
  <2>4. \A i \in 1..k : v[i] = step[i][v[i - 1]]
    <3>1. TAKE i \in 1..k
    <3>2. i - 1 \in 0..(k - 1) /\ i - 1 # k /\ i \in 0..k
      OBVIOUS
    <3>3. v[i - 1] = w[i - 1]
      BY <3>2
    <3>4. CASE i = k
      BY <3>2, <3>3, <3>4
    <3>5. CASE i # k
      BY <2>1, <3>2, <3>3, <3>5
    <3> QED
      BY <3>4, <3>5
  <2>5. v[0] = base
    BY <2>1
  <2>6. IsWalk(v, k) /\ k \in 0..n
    <3> HIDE DEF v
    <3> QED
      BY <2>2, <2>3, <2>4, <2>5
  <2> HIDE DEF IsWalk, v
  <2> QED
    BY <2>6
<1>3. n \in G
  <2>1. n \in 0..n
    OBVIOUS
  <2> HIDE DEF G
  <2>2. 0..n \subseteq G
    BY <1>1, <1>2, UpTo
  <2> QED
    BY <2>1, <2>2
<1> QED
  BY <1>3

----------------------------------------------------------------------------
(* The list of peers.                                                       *)

IsList(list) ==
  /\ list \in [DOMAIN list -> PeerRecord]
  /\ DOMAIN list \subseteq Endpoint

\* A walk over some of the peers of a list.
IsOrder(order, list) == order \in [1..Len(order) -> DOMAIN list] /\ Len(order) \in Nat

Marked(list) == {e \in DOMAIN list : list[e].connected}

\* Who may be connected, and the walk finds who failed least of them.
MayConnect(list, t) == {e \in DOMAIN list : IsConnectCandidate(list[e]) /\ Due(list[e], t)}

LEMMA OrderVisitsAll ==
  ASSUME NEW list, IsList(list), NEW order \in SetToSeqs(DOMAIN list)
  PROVE  /\ IsOrder(order, list)
         /\ \A e \in DOMAIN list : \E i \in 1..Len(order) : order[i] = e
<1> DEFINE n == Cardinality(DOMAIN list)
<1>1. IsFiniteSet(DOMAIN list) /\ n \in Nat
  BY PolicyAssumption, FS_Subset, FS_CardinalityType DEF IsList
<1>2. order \in [1..n -> DOMAIN list] /\ \A i, j \in 1..n : i # j => order[i] # order[j]
  BY DEF SetToSeqs
<1>3. Len(order) = n
  BY <1>1, <1>2
<1>4. order \in Injection(1..n, DOMAIN list)
  BY <1>2 DEF Injection, IsInjective
<1>5. Cardinality(1..n) = n
  BY <1>1, FS_Interval
<1>6. order \in Surjection(1..n, DOMAIN list)
  BY <1>1, <1>4, <1>5, FS_Injection
<1> QED
  BY <1>1, <1>2, <1>3, <1>6 DEF IsOrder, Surjection

\* The walk of FindConnectCandidate is what its steps make it.
LEMMA ConnectWalkIs ==
  ASSUME NEW list, IsList(list), NEW order, IsOrder(order, list), NEW t
  PROVE  LET w == ConnectWalk(list, order, t)
         IN  /\ w[0] = NoEndpoint
             /\ \A i \in 1..Len(order) :
                  w[i] = IF TakesToConnect(list, w[i - 1], order[i], t) THEN order[i] ELSE w[i - 1]
<1> DEFINE n == Len(order)
           S == DOMAIN list \cup {NoEndpoint}
           Step(i, c) == IF TakesToConnect(list, c, order[i], t) THEN order[i] ELSE c
           IsWalk(w) == w = [i \in 0..n |-> IF i = 0 THEN NoEndpoint
                                            ELSE IF TakesToConnect(list, w[i - 1], order[i], t)
                                                 THEN order[i] ELSE w[i - 1]]
           step == [i \in 1..n |-> [c \in S |-> Step(i, c)]]
<1>1. n \in Nat /\ NoEndpoint \in S /\ \A i \in 1..n : order[i] \in S
  BY DEF IsOrder
<1>2. step \in [1..n -> [S -> S]]
  <2>1. \A i \in 1..n, c \in S : Step(i, c) \in S
    BY <1>1
  <2> HIDE DEF S, Step
  <2> QED
    BY <2>1
<1>3. PICK w \in [0..n -> S] : w[0] = NoEndpoint /\ \A i \in 1..n : w[i] = step[i][w[i - 1]]
  <2>1. n \in Nat /\ NoEndpoint \in S
    BY <1>1
  <2> HIDE DEF S, step, n, Step, IsWalk
  <2> QED
    BY <2>1, <1>2, WalkExists
<1>4. \A i \in 1..n : i - 1 \in 0..n /\ w[i] = Step(i, w[i - 1])
  <2>1. \A i \in 1..n : i - 1 \in 0..n /\ w[i - 1] \in S
    BY <1>1, <1>3
  <2> HIDE DEF S, Step
  <2> QED
    BY <1>3, <2>1
<1>5. IsWalk(w)
  <2>1. \A i \in 0..n : i = 0 \/ i \in 1..n
    OBVIOUS
  <2> QED
    BY <1>3, <1>4, <2>1
<1>6. ConnectWalk(list, order, t) = CHOOSE v : IsWalk(v)
  BY Zenon DEF ConnectWalk
<1>7. IsWalk(ConnectWalk(list, order, t))
  <2>1. \E v : IsWalk(v)
    BY <1>5
  <2> HIDE DEF IsWalk
  <2>2. IsWalk(CHOOSE v : IsWalk(v))
    BY <2>1, Zenon
  <2> QED
    BY <1>6, <2>2, Zenon
<1> HIDE DEF n
<1>8. \A i \in 1..n : i \in 0..n /\ i # 0
  BY <1>1
<1>9. 0 \in 0..n
  BY <1>1
<1> QED
  BY <1>7, <1>8, <1>9, Zenon DEF n

\* The number of failures is compared first.
LEMMA KeepsLessFailed ==
  ASSUME NEW list, IsList(list), NEW c \in DOMAIN list, NEW e \in DOMAIN list
  PROVE  /\ KeepCandidate(list, c, e) => list[c].FailCount <= list[e].FailCount
         /\ ~KeepCandidate(list, c, e) => list[e].FailCount <= list[c].FailCount
<1>1. list[c].FailCount \in Nat /\ list[e].FailCount \in Nat
  BY DEF IsList, PeerRecord
<1> DEFINE s == ConnectKey(list, c)
           u == ConnectKey(list, e)
<1>2. DOMAIN s = 1..5 /\ s[1] = list[c].FailCount /\ u[1] = list[e].FailCount
  BY DEF ConnectKey
<1> HIDE DEF s, u
<1>3. LexLess(s, u) => s[1] <= u[1]
  <2>1. SUFFICES ASSUME NEW i \in 1..5, s[i] < u[i], \A j \in 1..(i - 1) : s[j] = u[j]
                 PROVE  s[1] <= u[1]
    BY <1>2 DEF LexLess
  <2>2. CASE i = 1
    BY <2>1, <2>2, <1>1, <1>2
  <2>3. CASE i # 1
    <3>1. 1 \in 1..(i - 1)
      BY <2>3
    <3> QED
      BY <2>1, <3>1, <1>1, <1>2
  <2> QED
    BY <2>2, <2>3
<1>4. ~LexLess(s, u) => u[1] <= s[1]
  <2>1. 1 \in 1..5 /\ 1..(1 - 1) = {}
    OBVIOUS
  <2>2. s[1] < u[1] => LexLess(s, u)
    BY <1>2, <2>1 DEF LexLess
  <2> QED
    BY <2>2, <1>1, <1>2
<1> QED
  BY <1>2, <1>3, <1>4 DEF KeepCandidate, LeftBetterRightToConnect, s, u

LEMMA FindFacts ==
  ASSUME NEW list, IsList(list), NEW order \in SetToSeqs(DOMAIN list), NEW t \in Nat,
         NEW e, e = FindConnectCandidate(list, order, t)
  PROVE  \/ e = NoEndpoint /\ MayConnect(list, t) = {}
         \/ /\ e \in MayConnect(list, t)
            /\ \A x \in MayConnect(list, t) : list[e].FailCount <= list[x].FailCount
<1> DEFINE n == Len(order)
           w == ConnectWalk(list, order, t)
           May == MayConnect(list, t)
           Seen(i) == {x \in May : \E j \in 1..i : order[j] = x}
           Least(c, X) == \/ c = NoEndpoint /\ X = {}
                          \/ /\ c \in X
                             /\ \A x \in X : list[c].FailCount <= list[x].FailCount
           G == {i \in 0..n : Least(w[i], Seen(i))}
<1>1. IsOrder(order, list) /\ \A x \in DOMAIN list : \E i \in 1..n : order[i] = x
  BY OrderVisitsAll
<1>2. n \in Nat /\ \A i \in 1..n : order[i] \in DOMAIN list
  BY <1>1 DEF IsOrder
<1>3. /\ w[0] = NoEndpoint
      /\ \A i \in 1..n :
           w[i] = IF TakesToConnect(list, w[i - 1], order[i], t) THEN order[i] ELSE w[i - 1]
  BY <1>1, ConnectWalkIs
<1>4. /\ May \subseteq DOMAIN list /\ NoEndpoint \notin May
      /\ \A x \in DOMAIN list : list[x].FailCount \in Nat
  BY PolicyAssumption DEF MayConnect, IsList, PeerRecord
<1>5. 0 \in G
  <2>1. Seen(0) = {} /\ 0 \in 0..n
    BY <1>2
  <2> QED
    BY <1>3, <2>1
<1>6. ASSUME NEW i \in 1..n, i - 1 \in G PROVE i \in G
  <2> DEFINE e0 == order[i]
             c == w[i - 1]
  <2>1. Seen(i) = Seen(i - 1) \cup ({e0} \cap May)
    <3>1. \A j \in 1..i : j = i \/ j \in 1..(i - 1)
      OBVIOUS
    <3>2. i \in 1..i /\ \A j \in 1..(i - 1) : j \in 1..i
      OBVIOUS
    <3> HIDE DEF May
    <3> QED
      BY <3>1, <3>2
  <2>2. Least(c, Seen(i - 1))
    BY <1>6
  <2>3. e0 \in DOMAIN list /\ Seen(i - 1) \subseteq May
    BY <1>2
  <2>4. e0 \in May <=> IsConnectCandidate(list[e0]) /\ Due(list[e0], t)
    BY <2>3 DEF MayConnect
  <2>5. c \in May => \/ KeepCandidate(list, c, e0) /\ list[c].FailCount <= list[e0].FailCount
                     \/ ~KeepCandidate(list, c, e0) /\ list[e0].FailCount <= list[c].FailCount
    BY <1>4, <2>3, KeepsLessFailed
  <2>6. w[i] = IF TakesToConnect(list, c, e0, t) THEN e0 ELSE c
    BY <1>3
  <2>7. TakesToConnect(list, c, e0, t)
          <=> e0 \in May /\ (c # NoEndpoint => ~KeepCandidate(list, c, e0))
    BY <2>4 DEF TakesToConnect
  <2>8. i \in 0..n /\ i - 1 \in 0..n
    BY <1>2
  <2> HIDE DEF May, Seen, c, e0, w
  <2>9. CASE e0 \notin May
    BY <2>1, <2>2, <2>6, <2>7, <2>9
  <2>10. CASE e0 \in May /\ c = NoEndpoint
    <3>1. Seen(i) = {e0}
      BY <2>1, <2>2, <2>10, <1>4, <2>3
    <3> QED
      BY <3>1, <2>3, <2>6, <2>7, <2>8, <2>10, <1>4
  <2>11. CASE e0 \in May /\ c # NoEndpoint
    <3>1. /\ c \in Seen(i - 1) /\ c \in May
          /\ \A x \in Seen(i - 1) : list[c].FailCount <= list[x].FailCount
      BY <2>2, <2>3, <2>11
    <3>2. \A x \in May : list[x].FailCount \in Nat
      BY <1>4
    <3>3. \A x \in Seen(i) : x = e0 \/ x \in Seen(i - 1)
      BY <2>1
    <3>4. CASE KeepCandidate(list, c, e0)
      <4>1. w[i] = c /\ list[c].FailCount <= list[e0].FailCount
        BY <2>5, <2>6, <2>7, <2>11, <3>1, <3>2, <3>4
      <4> QED
        BY <4>1, <2>1, <2>8, <3>1, <3>3
    <3>5. CASE ~KeepCandidate(list, c, e0)
      <4>1. w[i] = e0 /\ list[e0].FailCount <= list[c].FailCount
        BY <2>5, <2>6, <2>7, <2>11, <3>1, <3>5
      <4>2. \A x \in Seen(i - 1) : list[e0].FailCount <= list[x].FailCount
        BY <2>3, <2>11, <3>1, <3>2, <4>1
      <4>3. list[e0].FailCount <= list[e0].FailCount
        BY <2>11, <3>2
      <4> QED
        BY <4>1, <4>2, <4>3, <2>1, <2>8, <2>11, <3>3
    <3> QED
      BY <3>4, <3>5
  <2> QED
    BY <2>9, <2>10, <2>11
<1>7. n \in G
  <2>1. n \in 0..n
    BY <1>2
  <2> HIDE DEF G, n
  <2> QED
    BY <1>2, <1>5, <1>6, <2>1, UpTo
<1>8. Seen(n) = May
  BY <1>1, <1>4
<1>9. e = w[n]
  BY DEF FindConnectCandidate
<1> HIDE DEF May, Seen, w, n
<1> QED
  BY <1>7, <1>8, <1>9 DEF May
\* And the walk of erasePeers.
LEMMA EraseWalkIs ==
  ASSUME NEW list, IsList(list), NEW order, IsOrder(order, list)
  PROVE  LET w == EraseWalk(list, order)
         IN  /\ w[0] = NoEndpoint
             /\ \A i \in 1..Len(order) :
                  w[i] = IF TakesToErase(list, w[i - 1], order[i]) THEN order[i] ELSE w[i - 1]
<1> DEFINE n == Len(order)
           S == DOMAIN list \cup {NoEndpoint}
           Step(i, c) == IF TakesToErase(list, c, order[i]) THEN order[i] ELSE c
           IsWalk(w) == w = [i \in 0..n |-> IF i = 0 THEN NoEndpoint
                                            ELSE IF TakesToErase(list, w[i - 1], order[i])
                                                 THEN order[i] ELSE w[i - 1]]
           step == [i \in 1..n |-> [c \in S |-> Step(i, c)]]
<1>1. n \in Nat /\ NoEndpoint \in S /\ \A i \in 1..n : order[i] \in S
  BY DEF IsOrder
<1>2. step \in [1..n -> [S -> S]]
  <2>1. \A i \in 1..n, c \in S : Step(i, c) \in S
    BY <1>1
  <2> HIDE DEF S, Step
  <2> QED
    BY <2>1
<1>3. PICK w \in [0..n -> S] : w[0] = NoEndpoint /\ \A i \in 1..n : w[i] = step[i][w[i - 1]]
  <2>1. n \in Nat /\ NoEndpoint \in S
    BY <1>1
  <2> HIDE DEF S, step, n, Step, IsWalk
  <2> QED
    BY <2>1, <1>2, WalkExists
<1>4. \A i \in 1..n : i - 1 \in 0..n /\ w[i] = Step(i, w[i - 1])
  <2>1. \A i \in 1..n : i - 1 \in 0..n /\ w[i - 1] \in S
    BY <1>1, <1>3
  <2> HIDE DEF S, Step
  <2> QED
    BY <1>3, <2>1
<1>5. IsWalk(w)
  <2>1. \A i \in 0..n : i = 0 \/ i \in 1..n
    OBVIOUS
  <2> QED
    BY <1>3, <1>4, <2>1
<1>6. EraseWalk(list, order) = CHOOSE v : IsWalk(v)
  BY Zenon DEF EraseWalk
<1>7. IsWalk(EraseWalk(list, order))
  <2>1. \E v : IsWalk(v)
    BY <1>5
  <2> HIDE DEF IsWalk
  <2>2. IsWalk(CHOOSE v : IsWalk(v))
    BY <2>1, Zenon
  <2> QED
    BY <1>6, <2>2, Zenon
<1> HIDE DEF n
<1>8. \A i \in 1..n : i \in 0..n /\ i # 0
  BY <1>1
<1>9. 0 \in 0..n
  BY <1>1
<1> QED
  BY <1>7, <1>8, <1>9, Zenon DEF n


\* A peer that is connected is never erased.
LEMMA EraseFacts ==
  ASSUME NEW list, IsList(list), NEW order, IsOrder(order, list)
  PROVE  EraseCandidate(list, order) \in {NoEndpoint} \cup (DOMAIN list \ Marked(list))
<1> DEFINE n == Len(order)
           w == EraseWalk(list, order)
           Free == {NoEndpoint} \cup (DOMAIN list \ Marked(list))
           G == {i \in 0..n : w[i] \in Free}
<1>1. /\ w[0] = NoEndpoint
      /\ \A i \in 1..n :
           w[i] = IF TakesToErase(list, w[i - 1], order[i]) THEN order[i] ELSE w[i - 1]
  BY EraseWalkIs
<1>2. n \in Nat /\ \A i \in 1..n : order[i] \in DOMAIN list
  BY DEF IsOrder
<1>3. 0 \in G
  BY <1>1, <1>2
<1>4. ASSUME NEW i \in 1..n, i - 1 \in G PROVE i \in G
  <2>1. TakesToErase(list, w[i - 1], order[i]) => order[i] \in Free
    BY <1>2 DEF TakesToErase, IsEraseCandidate, Marked
  <2>2. i \in 0..n
    BY <1>2
  <2> QED
    BY <1>1, <1>4, <2>1, <2>2
<1>5. n \in G
  <2>1. n \in 0..n
    BY <1>2
  <2> HIDE DEF G, n
  <2> QED
    BY <1>2, <1>3, <1>4, <2>1, UpTo
<1> QED
  BY <1>5 DEF EraseCandidate

LEMMA NoOrder ==
  ASSUME NEW list
  PROVE  IsOrder(<<>>, list)
BY DEF IsOrder

\* The new peer is not connected, and one that is stays in the list.
LEMMA AddPeerFacts ==
  ASSUME NEW list, IsList(list), NEW order, IsOrder(order, list),
         NEW e \in Endpoint, NEW flags \in SUBSET Source
  PROVE  /\ IsList(AddPeer(list, e, flags, order))
         /\ Marked(AddPeer(list, e, flags, order)) = Marked(list)
<1> DEFINE full == Cardinality(DOMAIN list) >= MaxPeers
           rest == IF full THEN ErasePeers(list, order) ELSE list
           known == [rest EXCEPT ![e].SourceFlag = @ \cup flags]
           longer == [x \in DOMAIN rest \cup {e} |-> IF x = e THEN NewPeer(flags) ELSE rest[x]]
<1>1. IsList(rest) /\ Marked(rest) = Marked(list)
  <2>1. CASE ~full
    BY <2>1
  <2>2. CASE full
    <3>1. PICK x : x = EraseCandidate(list, order)
      OBVIOUS
    <3>2. x \notin Marked(list)
      BY <3>1, EraseFacts, PolicyAssumption DEF Marked, IsList
    <3>3. rest = [y \in DOMAIN list \ {x} |-> list[y]]
      BY <2>2, <3>1 DEF ErasePeers
    <3> HIDE DEF rest
    <3>4. DOMAIN rest = DOMAIN list \ {x} /\ \A y \in DOMAIN rest : rest[y] = list[y]
      BY <3>3
    <3>5. IsList(rest)
      BY <3>3, <3>4 DEF IsList
    <3> QED
      BY <3>2, <3>4, <3>5 DEF Marked
  <2> QED
    BY <2>1, <2>2
<1>2. /\ NewPeer(flags) \in PeerRecord /\ ~NewPeer(flags).connected
  BY DEF NewPeer, PeerRecord
<1>3. AddPeer(list, e, flags, order) \in {list, known, longer}
  BY DEF AddPeer
<1> HIDE DEF rest
<1>4. CASE e \in DOMAIN rest
  <2>1. rest[e] \in PeerRecord
    BY <1>1, <1>4 DEF IsList
  <2>2. [rest[e] EXCEPT !.SourceFlag = @ \cup flags] \in PeerRecord
    BY <2>1 DEF PeerRecord
  <2>3. [rest[e] EXCEPT !.SourceFlag = @ \cup flags].connected = rest[e].connected
    BY <2>1 DEF PeerRecord
  <2>4. /\ DOMAIN known = DOMAIN rest
        /\ \A x \in DOMAIN rest :
             known[x] = IF x = e THEN [rest[e] EXCEPT !.SourceFlag = @ \cup flags] ELSE rest[x]
    BY <1>1, <1>4 DEF IsList
  <2>5. IsList(known)
    BY <1>1, <1>4, <2>2 DEF IsList
  <2>6. Marked(known) = Marked(rest)
    <3> HIDE DEF known
    <3> QED
      BY <2>3, <2>4 DEF Marked
  <2>7. AddPeer(list, e, flags, order) \in {list, known}
    BY <1>4 DEF AddPeer, rest
  <2> QED
    BY <1>1, <2>5, <2>6, <2>7
<1>5. CASE e \notin DOMAIN rest
  <2>1. /\ DOMAIN longer = DOMAIN rest \cup {e}
        /\ \A x \in DOMAIN longer : longer[x] = IF x = e THEN NewPeer(flags) ELSE rest[x]
    OBVIOUS
  <2>2. \A x \in DOMAIN rest : rest[x] \in PeerRecord
    BY <1>1 DEF IsList
  <2>3. IsList(longer)
    <3>1. longer \in [DOMAIN rest \cup {e} -> PeerRecord]
      <4> HIDE DEF PeerRecord
      <4> QED
        BY <1>2, <2>2
    <3> QED
      BY <1>1, <2>1, <3>1 DEF IsList
  <2>4. Marked(longer) = Marked(rest)
    <3> HIDE DEF longer
    <3> QED
      BY <1>2, <1>5, <2>1 DEF Marked
  <2>5. AddPeer(list, e, flags, order) \in {list, longer}
    BY <1>5 DEF AddPeer, rest
  <2> QED
    BY <1>1, <2>3, <2>4, <2>5
<1> QED
  BY <1>4, <1>5

LEMMA AddWalkIs ==
  ASSUME NEW list, IsList(list), NEW n \in Nat, NEW order \in [1..n -> Endpoint],
         Len(order) = n
  PROVE  LET w == AddWalk(list, order)
         IN  /\ w[0] = list
             /\ \A i \in 1..n : w[i] = AddPeer(w[i - 1], order[i], {"incoming", "server"}, <<>>)
<1> DEFINE S == {l \in UNION {[D -> PeerRecord] : D \in SUBSET Endpoint} :
                   IsList(l) /\ Marked(l) = Marked(list)}
           Step(i, l) == AddPeer(l, order[i], {"incoming", "server"}, <<>>)
           IsWalk(w) == w = [i \in 0..n |-> IF i = 0 THEN list
                               ELSE AddPeer(w[i - 1], order[i], {"incoming", "server"}, <<>>)]
           step == [i \in 1..n |-> [l \in S |-> Step(i, l)]]
<1>1. \A l : IsList(l) /\ Marked(l) = Marked(list) => l \in S
  BY DEF IsList
<1>2. step \in [1..n -> [S -> S]]
  <2>1. ASSUME NEW i \in 1..n, NEW l \in S PROVE Step(i, l) \in S
    <3>1. IsList(l) /\ Marked(l) = Marked(list)
      OBVIOUS
    <3>2. order[i] \in Endpoint /\ {"incoming", "server"} \in SUBSET Source /\ IsOrder(<<>>, l)
      BY NoOrder DEF Source
    <3>3. IsList(Step(i, l)) /\ Marked(Step(i, l)) = Marked(list)
      BY <3>1, <3>2, AddPeerFacts
    <3> HIDE DEF S, Step
    <3> QED
      BY <3>3, <1>1
  <2> HIDE DEF S, Step
  <2> QED
    BY <2>1
<1>3. PICK w \in [0..n -> S] : w[0] = list /\ \A i \in 1..n : w[i] = step[i][w[i - 1]]
  <2>1. list \in S
    BY <1>1
  <2> HIDE DEF S, step, Step, IsWalk
  <2> QED
    BY <2>1, <1>2, WalkExists
<1>4. \A i \in 1..n : w[i] = Step(i, w[i - 1])
  <2>1. \A i \in 1..n : w[i - 1] \in S
    BY <1>3
  <2> HIDE DEF S, Step
  <2> QED
    BY <1>3, <2>1
<1>5. IsWalk(w)
  <2>1. \A i \in 0..n : i = 0 \/ i \in 1..n
    OBVIOUS
  <2>2. w = [i \in 0..n |-> w[i]]
    BY <1>3
  <2> QED
    BY <1>3, <1>4, <2>1, <2>2
<1>6. AddWalk(list, order) = CHOOSE v : IsWalk(v)
  BY Zenon DEF AddWalk
<1>7. IsWalk(AddWalk(list, order))
  <2>1. \E v : IsWalk(v)
    BY <1>5
  <2> HIDE DEF IsWalk
  <2>2. IsWalk(CHOOSE v : IsWalk(v))
    BY <2>1, Zenon
  <2> QED
    BY <1>6, <2>2, Zenon
<1>8. 0 \in 0..n /\ \A i \in 1..n : i \in 0..n /\ i # 0
  OBVIOUS
<1> QED
  BY <1>7, <1>8, Zenon

LEMMA FirstPeersFacts ==
  ASSUME NEW list, IsList(list), NEW order \in SetToSeqs(FirstPeers)
  PROVE  /\ IsList(WithFirstPeers(list, order))
         /\ Marked(WithFirstPeers(list, order)) = Marked(list)
<1> DEFINE n == Cardinality(FirstPeers)
           w == AddWalk(list, order)
           G == {i \in 0..n : IsList(w[i]) /\ Marked(w[i]) = Marked(list)}
<1>1. n \in Nat
  BY PolicyAssumption, SessionAssumption, FS_Subset, FS_CardinalityType
<1>2. order \in [1..n -> Endpoint] /\ Len(order) = n
  BY <1>1, SessionAssumption DEF SetToSeqs
<1>3. /\ w[0] = list
      /\ \A i \in 1..n : w[i] = AddPeer(w[i - 1], order[i], {"incoming", "server"}, <<>>)
  BY <1>1, <1>2, AddWalkIs
<1> HIDE DEF n, w
<1>4. 0 \in G
  BY <1>1, <1>3
<1>5. ASSUME NEW i \in 1..n, i - 1 \in G PROVE i \in G
  <2>1. order[i] \in Endpoint /\ {"incoming", "server"} \in SUBSET Source /\ IsOrder(<<>>, w[i - 1])
    BY <1>2, NoOrder DEF Source
  <2>2. IsList(w[i]) /\ Marked(w[i]) = Marked(w[i - 1])
    BY <1>3, <1>5, <2>1, AddPeerFacts
  <2> QED
    BY <1>1, <1>5, <2>2
<1>6. n \in G
  <2>1. n \in 0..n
    BY <1>1
  <2> HIDE DEF G
  <2> QED
    BY <1>1, <1>4, <1>5, <2>1, UpTo
<1> QED
  BY <1>2, <1>6 DEF WithFirstPeers, w

----------------------------------------------------------------------------
LEMMA InitSession == Init => SessionInv
<1> SUFFICES ASSUME Init PROVE SessionInv
  OBVIOUS
<1> USE SessionAssumption DEF Init
<1>1. \A t \in Transfer, e \in Endpoint : conn[t][e] = "off" /\ peerConnections[e] = NoTransfer
  OBVIOUS
<1>2. Types
  BY DEF Types
<1>3. ConnectionsAreListed
  BY <1>1 DEF ConnectionsAreListed
<1>4. TickInSession
  BY DEF TickInSession, NoTick
<1>5. NobodyIsWanted /\ Registered /\ StopsOnce /\ EndedAlone /\ ClosedOnce
  BY DEF NobodyIsWanted, Registered, StopsOnce, EndedAlone, ClosedOnce
<1> QED
  BY <1>2, <1>3, <1>4, <1>5 DEF SessionInv

LEMMA InSessionIs ==
  ASSUME Types, NEW e \in Endpoint
  PROVE  e \in InSession <=> peerConnections[e] \in Transfer
BY SessionAssumption DEF Types, InSession

\* An action that leaves these alone keeps the invariant.
LEMMA UntouchedKeeps ==
  ASSUME SessionInv,
         UNCHANGED <<execute, stopped, transfers, peerConnections, conn, cmdChan, gone,
                     stops, panicked>>,
         TickInSession',
         unwanting \subseteq unwanting', unwanting' \subseteq Transfer
  PROVE  SessionInv'
BY DEF SessionInv, Types, ConnectionsAreListed, NobodyIsWanted, Registered, StopsOnce,
       EndedAlone, ClosedOnce, InSession

LEMMA AddTransferStep ==
  ASSUME SessionInv, NEW t \in Transfer, AddTransfer(t)
  PROVE  SessionInv'
<1>1. /\ Idle /\ ~stopped /\ cmdChan[t] = "none"
      /\ transfers' = transfers \cup {t}
      /\ cmdChan' = [cmdChan EXCEPT ![t] = "open"]
      /\ UNCHANGED <<execute, stopped, tick, unwanting, peerConnections, conn, gone, stops,
                     panicked>>
  BY DEF AddTransfer
<1>2. /\ Types /\ ConnectionsAreListed /\ TickInSession /\ NobodyIsWanted /\ Registered
      /\ StopsOnce /\ EndedAlone /\ ClosedOnce
  BY DEF SessionInv
<1>3. \A u \in Transfer : cmdChan'[u] = IF u = t THEN "open" ELSE cmdChan[u]
  BY <1>1, <1>2 DEF Types
<1>4. Types'
  BY <1>1, <1>2 DEF Types
<1>5. ConnectionsAreListed' /\ TickInSession' /\ NobodyIsWanted' /\ ClosedOnce'
  BY <1>1, <1>2 DEF ConnectionsAreListed, TickInSession, NobodyIsWanted, ClosedOnce
<1>6. Registered'
  BY <1>1, <1>2, <1>3 DEF Registered
<1>7. StopsOnce'
  BY <1>1, <1>2, <1>3 DEF StopsOnce, InSession
<1>8. EndedAlone'
  BY <1>1 DEF EndedAlone, Idle
<1> QED
  BY <1>4, <1>5, <1>6, <1>7, <1>8 DEF SessionInv

\* Stop of all transfers is started: it was not before, and nobody is connected.
LEMMA StopTransfersStep ==
  ASSUME Types, NobodyIsWanted, Registered, StopsOnce, ClosedOnce,
         StopTransfers(transfers), stopped', InSession' = {},
         ~stopped \/ InSession # {},
         UNCHANGED <<transfers, cmdChan, gone, panicked>>
  PROVE  stops' \in [Transfer -> Nat] /\ Registered' /\ StopsOnce' /\ EndedAlone' /\ ClosedOnce'
<1>1. /\ execute' = (transfers # {})
      /\ stops' = [t \in Transfer |-> IF t \in transfers THEN stops[t] + 1 ELSE stops[t]]
  BY DEF StopTransfers
<1>2. \A t \in Transfer : stops[t] = 0 /\ cmdChan[t] # "closed"
  BY DEF StopsOnce
<1>3. \A t \in Transfer : stops'[t] = IF t \in transfers THEN 1 ELSE 0
  BY <1>1, <1>2
<1>4. stops' \in [Transfer -> Nat]
  BY <1>1, <1>2
<1>5. Registered' /\ ClosedOnce'
  BY DEF Registered, ClosedOnce
<1>6. \A t \in transfers : cmdChan[t] = "open"
  BY <1>2 DEF Types, Registered
<1>7. StopsOnce'
  BY <1>3, <1>6 DEF StopsOnce
<1>8. EndedAlone'
  BY <1>1 DEF EndedAlone
<1> QED
  BY <1>4, <1>5, <1>7, <1>8

LEMMA StopCommandStep ==
  ASSUME SessionInv, StopCommand
  PROVE  SessionInv'
<1>1. /\ Idle /\ ~stopped /\ stopped' = TRUE
      /\ unwanting' = unwanting \cup transfers
      /\ UNCHANGED <<tick, transfers, peerConnections, conn, cmdChan, gone, panicked>>
  BY DEF StopCommand, StoppedMarked
<1>2. /\ Types /\ ConnectionsAreListed /\ TickInSession /\ NobodyIsWanted /\ Registered
      /\ StopsOnce /\ EndedAlone /\ ClosedOnce
  BY DEF SessionInv
<1>3. InSession' = InSession
  BY <1>1 DEF InSession
<1>4. ConnectionsAreListed' /\ TickInSession' /\ NobodyIsWanted'
  BY <1>1, <1>2 DEF ConnectionsAreListed, TickInSession, NobodyIsWanted
<1>5. CASE InSession = {}
  <2>1. stops' \in [Transfer -> Nat] /\ Registered' /\ StopsOnce' /\ EndedAlone' /\ ClosedOnce'
    BY <1>1, <1>2, <1>3, <1>5, StopTransfersStep DEF StopCommand
  <2>2. Types'
    BY <1>1, <1>2, <1>5, <2>1 DEF Types, StopCommand, StopTransfers
  <2> QED
    BY <1>4, <2>1, <2>2 DEF SessionInv
<1>6. CASE InSession # {}
  <2>1. UNCHANGED <<execute, stops>>
    BY <1>6 DEF StopCommand
  <2>2. Types'
    BY <1>1, <1>2, <2>1 DEF Types
  <2>3. Registered' /\ StopsOnce' /\ EndedAlone' /\ ClosedOnce'
    BY <1>1, <1>2, <1>3, <2>1 DEF Registered, StopsOnce, EndedAlone, ClosedOnce, Idle
  <2> QED
    BY <1>4, <2>2, <2>3 DEF SessionInv
<1> QED
  BY <1>5, <1>6

\* A transfer connects only to an endpoint that is not in the table, and never
\* after the stop.
LEMMA VisitTransferStep ==
  ASSUME SessionInv, NEW t \in Transfer, VisitTransfer(t)
  PROVE  SessionInv'
<1>1. /\ t \in tick.todo
      /\ UNCHANGED <<execute, stopped, transfers, unwanting, cmdChan, gone, stops, panicked>>
  BY DEF VisitTransfer
<1>2. /\ Types /\ ConnectionsAreListed /\ TickInSession /\ NobodyIsWanted /\ Registered
      /\ StopsOnce /\ EndedAlone /\ ClosedOnce
  BY DEF SessionInv
<1>3. CASE UNCHANGED <<peerConnections, conn>> /\ TickInSession'
  BY <1>1, <1>2, <1>3, UntouchedKeeps DEF Types
<1>4. ASSUME NEW order \in Orders(t), NEW e \in Endpoint \ InSession,
             e = Candidate(t, order),
             peerConnections' = [peerConnections EXCEPT ![e] = t],
             conn' = [conn EXCEPT ![t][e] = "dialing"],
             TickInSession'
      PROVE  SessionInv'
  <2>1. t \notin unwanting
    BY <1>4, PolicyAssumption DEF Candidate, WantMorePeers
  <2>2. ~stopped /\ t \in transfers
    BY <1>1, <1>2, <2>1 DEF TickInSession, NobodyIsWanted
  <2>3. /\ \A x \in Endpoint : peerConnections'[x] = IF x = e THEN t ELSE peerConnections[x]
        /\ \A u \in Transfer, x \in Endpoint :
             conn'[u][x] = IF u = t /\ x = e THEN "dialing" ELSE conn[u][x]
    BY <1>2, <1>4 DEF Types
  <2>4. Types'
    <3>1. conn' \in [Transfer -> [Endpoint -> {"off", "dialing", "connected"}]]
      BY <1>2, <1>4 DEF Types
    <3>2. peerConnections' \in [Endpoint -> Transfer \cup {NoTransfer}]
      BY <1>2, <1>4 DEF Types
    <3> QED
      BY <1>1, <1>2, <3>1, <3>2 DEF Types
  <2>5. ConnectionsAreListed'
    <3>1. peerConnections[e] \notin Transfer
      BY <1>2, <1>4, InSessionIs
    <3> QED
      BY <1>2, <2>3, <3>1 DEF ConnectionsAreListed
  <2>6. NobodyIsWanted' /\ Registered' /\ ClosedOnce'
    BY <1>1, <1>2, <1>4 DEF NobodyIsWanted, Registered, ClosedOnce
  <2>7. StopsOnce' /\ EndedAlone'
    BY <1>1, <1>2, <2>2 DEF StopsOnce, EndedAlone
  <2> QED
    BY <1>4, <2>4, <2>5, <2>6, <2>7 DEF SessionInv
<1>5. PICK order \in Orders(t) :
        LET e == Candidate(t, order)
        IN  \/ /\ e = NoEndpoint
               /\ tick' = [tick EXCEPT !.todo = @ \ {t}]
               /\ UNCHANGED <<peers, peerConnections, conn>>
            \/ /\ e \in Endpoint \ InSession
               /\ peerConnections' = [peerConnections EXCEPT ![e] = t]
               /\ conn' = [conn EXCEPT ![t][e] = "dialing"]
               /\ tick' = [tick EXCEPT !.todo = @ \ {t}, !.steps = 0, !.reserve = @ - 1]
            \/ /\ e \in InSession
               /\ tick' = [tick EXCEPT !.todo = @ \ {t}]
               /\ UNCHANGED <<peerConnections, conn>>
  BY DEF VisitTransfer
<1>6. TickInSession'
  <2>1. tick \in [todo : SUBSET Transfer, steps : Int, reserve : Int, on : BOOLEAN] /\ tick.on
    BY <1>2 DEF TickInSession, VisitTransfer
  <2>2. \/ tick' = [tick EXCEPT !.todo = @ \ {t}]
        \/ tick' = [tick EXCEPT !.todo = @ \ {t}, !.steps = 0, !.reserve = @ - 1]
    BY <1>5
  <2>3. CASE tick' = [tick EXCEPT !.todo = @ \ {t}]
    BY <1>1, <1>2, <2>1, <2>3 DEF TickInSession
  <2>4. CASE tick' = [tick EXCEPT !.todo = @ \ {t}, !.steps = 0, !.reserve = @ - 1]
    <3>1. tick' = [todo |-> tick.todo \ {t}, steps |-> 0, reserve |-> tick.reserve - 1,
                   on |-> tick.on]
      BY <2>1, <2>4, Zenon
    <3> QED
      BY <1>1, <1>2, <2>1, <3>1 DEF TickInSession
  <2> QED
    BY <2>2, <2>3, <2>4
<1> QED
  BY <1>3, <1>4, <1>5, <1>6

LEMMA EndPassStep ==
  ASSUME SessionInv, EndPass
  PROVE  SessionInv'
<1>1. TickInSession'
  <2>1. /\ tick \in [todo : SUBSET Transfer, steps : Int, reserve : Int, on : BOOLEAN]
        /\ tick.on /\ transfers' = transfers /\ transfers \subseteq Transfer
    BY DEF SessionInv, TickInSession, EndPass, Types
  <2>2. tick' = NoTick \/ tick' = [tick EXCEPT !.todo = transfers, !.steps = @ + 1]
    BY DEF EndPass, Again
  <2>3. CASE tick' = NoTick
    BY <2>3 DEF TickInSession, NoTick
  <2>4. CASE tick' = [tick EXCEPT !.todo = transfers, !.steps = @ + 1]
    <3>1. tick' = [todo |-> transfers, steps |-> tick.steps + 1, reserve |-> tick.reserve,
                   on |-> tick.on]
      BY <2>1, <2>4, Zenon
    <3> QED
      BY <2>1, <3>1 DEF TickInSession
  <2> QED
    BY <2>2, <2>3, <2>4
<1> QED
  BY <1>1, UntouchedKeeps DEF EndPass, SessionInv, Types

LEMMA BeginTickStep ==
  ASSUME SessionInv, BeginTick
  PROVE  SessionInv'
<1>1. TickInSession'
  BY SessionAssumption DEF BeginTick, TickInSession, SessionInv, Types
<1> QED
  BY <1>1, UntouchedKeeps DEF BeginTick, SessionInv, Types

LEMMA RegisterStep ==
  ASSUME SessionInv, NEW t \in Transfer, NEW e \in Endpoint, RegisterPeerConnection(t, e)
  PROVE  SessionInv'
<1>1. /\ conn[t][e] = "dialing"
      /\ conn' = [conn EXCEPT ![t][e] = "connected"]
      /\ peerConnections' = [peerConnections EXCEPT ![e] = t]
      /\ UNCHANGED <<execute, stopped, tick, transfers, unwanting, cmdChan, gone, stops, panicked>>
  BY DEF RegisterPeerConnection
<1>2. /\ Types /\ ConnectionsAreListed /\ TickInSession /\ NobodyIsWanted /\ Registered
      /\ StopsOnce /\ EndedAlone /\ ClosedOnce
  BY DEF SessionInv
<1>3. peerConnections' = peerConnections
  <2>1. peerConnections[e] = t
    BY <1>1, <1>2 DEF ConnectionsAreListed
  <2> QED
    BY <1>1, <1>2, <2>1 DEF Types
<1>4. \A u \in Transfer, x \in Endpoint :
        conn'[u][x] = IF u = t /\ x = e THEN "connected" ELSE conn[u][x]
  BY <1>1, <1>2 DEF Types
<1>5. Types'
  BY <1>1, <1>2 DEF Types
<1>6. ConnectionsAreListed'
  BY <1>1, <1>2, <1>3, <1>4 DEF ConnectionsAreListed
<1>7. /\ TickInSession' /\ NobodyIsWanted' /\ Registered'
      /\ StopsOnce' /\ EndedAlone' /\ ClosedOnce'
  BY <1>1, <1>2, <1>3 DEF TickInSession, NobodyIsWanted, Registered, StopsOnce, EndedAlone, ClosedOnce, InSession
<1> QED
  BY <1>5, <1>6, <1>7 DEF SessionInv

LEMMA UnregisterStep ==
  ASSUME SessionInv, NEW t \in Transfer, NEW e \in Endpoint, UnregisterPeerConnection(t, e)
  PROVE  SessionInv'
<1>1. /\ Idle /\ conn[t][e] # "off"
      /\ conn' = [conn EXCEPT ![t][e] = "off"]
      /\ peerConnections' = [peerConnections EXCEPT ![e] = NoTransfer]
      /\ UNCHANGED <<stopped, tick, transfers, unwanting, cmdChan, gone, panicked>>
  BY DEF UnregisterPeerConnection
<1>2. /\ Types /\ ConnectionsAreListed /\ TickInSession /\ NobodyIsWanted /\ Registered
      /\ StopsOnce /\ EndedAlone /\ ClosedOnce
  BY DEF SessionInv
<1>3. peerConnections[e] = t /\ InSession # {}
  <2>1. peerConnections[e] = t
    BY <1>1, <1>2 DEF ConnectionsAreListed
  <2> QED
    BY <1>2, <2>1, InSessionIs
<1>4. /\ \A x \in Endpoint :
           peerConnections'[x] = IF x = e THEN NoTransfer ELSE peerConnections[x]
      /\ \A u \in Transfer, x \in Endpoint :
           conn'[u][x] = IF u = t /\ x = e THEN "off" ELSE conn[u][x]
  BY <1>1, <1>2 DEF Types
<1>5. InSession' = InSession \ {e}
  BY <1>4 DEF InSession
<1>6. ConnectionsAreListed' /\ TickInSession' /\ NobodyIsWanted'
  BY <1>1, <1>2, <1>3, <1>4, SessionAssumption DEF ConnectionsAreListed, TickInSession, NobodyIsWanted
<1>7. CASE stopped /\ InSession \ {e} = {}
  <2>1. StopTransfers(transfers)
    BY <1>7 DEF UnregisterPeerConnection
  <2>2. stops' \in [Transfer -> Nat] /\ Registered' /\ StopsOnce' /\ EndedAlone' /\ ClosedOnce'
    BY <1>1, <1>2, <1>3, <1>5, <1>7, <2>1, StopTransfersStep
  <2>3. Types'
    BY <1>1, <1>2, <2>1, <2>2 DEF Types, StopTransfers
  <2> QED
    BY <1>6, <2>2, <2>3 DEF SessionInv
<1>8. CASE ~(stopped /\ InSession \ {e} = {})
  <2>1. UNCHANGED <<execute, stops>>
    BY <1>8 DEF UnregisterPeerConnection
  <2>2. Types'
    BY <1>1, <1>2, <2>1 DEF Types
  <2>3. Registered' /\ StopsOnce' /\ EndedAlone' /\ ClosedOnce'
    BY <1>1, <1>2, <1>3, <1>5, <2>1 DEF Registered, StopsOnce, EndedAlone, ClosedOnce
  <2> QED
    BY <1>6, <2>2, <2>3 DEF SessionInv
<1> QED
  BY <1>7, <1>8

\* cmdChan was open.
LEMMA RunStopStep ==
  ASSUME SessionInv, NEW t \in Transfer, RunStop(t)
  PROVE  SessionInv'
<1>1. /\ stops[t] > 0
      /\ stops' = [stops EXCEPT ![t] = @ - 1]
      /\ cmdChan' = [cmdChan EXCEPT ![t] = "closed"]
      /\ panicked' = (cmdChan[t] = "closed")
      /\ UNCHANGED <<execute, stopped, tick, transfers, unwanting, peerConnections, conn, gone>>
  BY DEF RunStop
<1>2. /\ Types /\ ConnectionsAreListed /\ TickInSession /\ NobodyIsWanted /\ Registered
      /\ StopsOnce /\ EndedAlone /\ ClosedOnce
  BY DEF SessionInv
<1>3. stops[t] = 1 /\ cmdChan[t] = "open" /\ t \in transfers /\ stopped /\ InSession = {}
  BY <1>1, <1>2 DEF StopsOnce
<1>4. \A u \in Transfer : /\ stops'[u] = IF u = t THEN 0 ELSE stops[u]
                          /\ cmdChan'[u] = IF u = t THEN "closed" ELSE cmdChan[u]
  BY <1>1, <1>2, <1>3 DEF Types
<1>5. Types'
  BY <1>1, <1>2, <1>3 DEF Types
<1>6. ConnectionsAreListed' /\ TickInSession' /\ NobodyIsWanted'
  BY <1>1, <1>2 DEF ConnectionsAreListed, TickInSession, NobodyIsWanted
<1>7. Registered'
  BY <1>1, <1>2, <1>3, <1>4 DEF Registered
<1>8. StopsOnce'
  BY <1>1, <1>2, <1>3, <1>4 DEF StopsOnce, InSession
<1>9. EndedAlone'
  BY <1>1, <1>2 DEF EndedAlone, InSession
<1>10. ClosedOnce'
  BY <1>1, <1>3 DEF ClosedOnce
<1> QED
  BY <1>5, <1>6, <1>7, <1>8, <1>9, <1>10 DEF SessionInv

LEMMA TransferClosedStep ==
  ASSUME SessionInv, NEW t \in Transfer, TransferClosed(t)
  PROVE  SessionInv'
<1>1. /\ cmdChan[t] = "closed" /\ t \notin gone /\ ~tick.on
      /\ gone' = gone \cup {t}
      /\ transfers' = transfers \ {t}
      /\ execute' = ~(stopped /\ InSession = {} /\ transfers' = {})
      /\ UNCHANGED <<stopped, tick, unwanting, peerConnections, conn, cmdChan, stops, panicked>>
  BY DEF TransferClosed, MayEnd, Idle
<1>2. /\ Types /\ ConnectionsAreListed /\ TickInSession /\ NobodyIsWanted /\ Registered
      /\ StopsOnce /\ EndedAlone /\ ClosedOnce
  BY DEF SessionInv
<1>3. InSession' = InSession
  BY <1>1 DEF InSession
<1>4. Types'
  BY <1>1, <1>2 DEF Types
<1>5. ConnectionsAreListed' /\ ClosedOnce' /\ EndedAlone'
  BY <1>1, <1>2, <1>3 DEF ConnectionsAreListed, ClosedOnce, EndedAlone
<1>6. TickInSession' /\ NobodyIsWanted'
  BY <1>1, <1>2 DEF TickInSession, NobodyIsWanted
<1>7. Registered'
  BY <1>1, <1>2 DEF Registered
<1>8. StopsOnce'
  BY <1>1, <1>2, <1>3 DEF StopsOnce
<1> QED
  BY <1>4, <1>5, <1>6, <1>7, <1>8 DEF SessionInv

----------------------------------------------------------------------------
LEMMA SessionStep == SessionInv /\ [Next]_vars => SessionInv'
<1> SUFFICES ASSUME SessionInv, [Next]_vars PROVE SessionInv'
  OBVIOUS
<1>1. /\ unwanting \subseteq Transfer
      /\ UNCHANGED <<tick, transfers>> => TickInSession'
  BY DEF SessionInv, TickInSession, Types
<1>2. CASE StopCommand
  BY <1>2, StopCommandStep
<1>3. CASE BeginTick
  BY <1>3, BeginTickStep
<1>4. CASE TickStep
  BY <1>4, EndPassStep, VisitTransferStep DEF TickStep
<1>5. CASE TimePasses \/ SessionClosed \/ UNCHANGED vars
  BY <1>1, <1>5, UntouchedKeeps DEF TimePasses, SessionClosed, vars
<1>6. ASSUME NEW t \in Transfer, AddTransfer(t) PROVE SessionInv'
  BY <1>6, AddTransferStep
<1>7. ASSUME NEW t \in Transfer, TransferFinished(t) PROVE SessionInv'
  BY <1>1, <1>7, UntouchedKeeps DEF TransferFinished
<1>8. ASSUME NEW t \in Transfer, RunStop(t) PROVE SessionInv'
  BY <1>8, RunStopStep
<1>9. ASSUME NEW t \in Transfer, TransferClosed(t) PROVE SessionInv'
  BY <1>9, TransferClosedStep
<1>10. ASSUME NEW t \in Transfer, NEW e \in Endpoint, FoundFileSources(t, e) PROVE SessionInv'
  BY <1>1, <1>10, UntouchedKeeps DEF FoundFileSources
<1>11. ASSUME NEW t \in Transfer, NEW e \in Endpoint,
              RegisterPeerConnection(t, e) \/ UnregisterPeerConnection(t, e)
       PROVE  SessionInv'
  BY <1>11, RegisterStep, UnregisterStep
<1> QED
  BY <1>2, <1>3, <1>4, <1>5, <1>6, <1>7, <1>8, <1>9, <1>10, <1>11 DEF Next

LEMMA SessionInductive == Spec => []SessionInv
BY InitSession, SessionStep, PTL DEF Spec

----------------------------------------------------------------------------
(* The peer lists.  They are lists of peers, the peers of the connections   *)
(* that run are marked in them and no others, and a tick that is over has   *)
(* no passes left.                                                          *)

ListsOK ==
  /\ peers = [t \in Transfer |-> peers[t]]
  /\ \A t \in Transfer : IsList(peers[t])

MarksAgree ==
  \A t \in Transfer, e \in Endpoint : conn[t][e] # "off" <=> e \in Marked(peers[t])

TickCounted ==
  /\ tick.steps \in 0..(2 * Cardinality(transfers))
  /\ ~tick.on => tick.steps = 0

ListsInv ==
  /\ ListsOK /\ MarksAgree /\ TickCounted
  /\ now \in 1..MaxTime /\ panicked \in BOOLEAN

LEMMA TransfersCounted ==
  ASSUME Types
  PROVE  Cardinality(transfers) \in Nat
BY SessionAssumption, FS_Subset, FS_CardinalityType DEF Types

\* What a step that leaves the lists, the connections and the tick alone keeps.
LEMMA ListsUntouched ==
  ASSUME ListsInv, UNCHANGED <<peers, conn, now>>, panicked' \in BOOLEAN, TickCounted'
  PROVE  ListsInv'
BY DEF ListsInv, ListsOK, MarksAgree, Marked, IsList

LEMMA InitLists == Init => ListsInv
<1> SUFFICES ASSUME Init PROVE ListsInv
  OBVIOUS
<1>1. peers = [t \in Transfer |-> NoPeers] /\ DOMAIN NoPeers = {}
  BY DEF Init, NoPeers
<1>2. IsList(NoPeers)
  BY DEF IsList, NoPeers
<1>3. ListsOK
  BY <1>1, <1>2 DEF ListsOK
<1>4. MarksAgree
  BY <1>1 DEF MarksAgree, Marked, Init
<1>5. TickCounted
  BY FS_EmptySet DEF TickCounted, Init, NoTick
<1>6. now \in 1..MaxTime /\ panicked \in BOOLEAN
  <2>1. now = 1 /\ panicked = FALSE
    BY Zenon DEF Init
  <2>2. now \in 1..MaxTime
    BY <2>1, SessionAssumption
  <2>3. panicked \in BOOLEAN
    BY <2>1
  <2> QED
    BY <2>2, <2>3
<1> QED
  BY <1>3, <1>4, <1>5, <1>6 DEF ListsInv

\* A list is replaced by one with the same marks.
LEMMA AddedKeeps ==
  ASSUME ListsInv, NEW t \in Transfer, NEW list, IsList(list), Marked(list) = Marked(peers[t]),
         peers' = [peers EXCEPT ![t] = list], UNCHANGED <<conn, now, panicked>>, TickCounted'
  PROVE  ListsInv'
<1>1. ListsOK /\ MarksAgree
  BY DEF ListsInv
<1>2. \A u \in Transfer : peers'[u] = IF u = t THEN list ELSE peers[u]
  BY <1>1 DEF ListsOK
<1>3. peers' = [u \in Transfer |-> peers'[u]]
  BY <1>1 DEF ListsOK
<1>4. \A u \in Transfer : IsList(peers'[u]) /\ Marked(peers'[u]) = Marked(peers[u])
  BY <1>1, <1>2 DEF ListsOK
<1>5. ListsOK'
  BY <1>3, <1>4 DEF ListsOK
<1>6. MarksAgree'
  BY <1>1, <1>4 DEF MarksAgree
<1> QED
  BY <1>5, <1>6 DEF ListsInv

\* The record of one peer is replaced.
LEMMA ChangedKeeps ==
  ASSUME ListsOK, NEW t \in Transfer, NEW e \in DOMAIN peers[t], NEW p \in PeerRecord,
         peers' = [peers EXCEPT ![t][e] = p]
  PROVE  /\ ListsOK'
         /\ \A u \in Transfer : u # t => peers'[u] = peers[u]
         /\ Marked(peers'[t]) = IF p.connected THEN Marked(peers[t]) \cup {e}
                                               ELSE Marked(peers[t]) \ {e}
<1> DEFINE list == [peers[t] EXCEPT ![e] = p]
<1>1. peers' = [peers EXCEPT ![t] = list]
  OBVIOUS
<1>2. IsList(peers[t])
  BY DEF ListsOK
<1>3. IsList(list)
  BY <1>2 DEF IsList
<1>4. DOMAIN list = DOMAIN peers[t] /\ \A x \in DOMAIN list : list[x] = IF x = e THEN p ELSE peers[t][x]
  BY <1>2 DEF IsList
<1> HIDE DEF list
<1>5. \A u \in Transfer : peers'[u] = IF u = t THEN list ELSE peers[u]
  BY <1>1 DEF ListsOK
<1>6. peers' = [u \in Transfer |-> peers'[u]]
  BY <1>1 DEF ListsOK
<1>7. ListsOK'
  <2>1. \A u \in Transfer : IsList(peers'[u])
    BY <1>3, <1>5 DEF ListsOK
  <2> QED
    BY <1>6, <2>1 DEF ListsOK
<1>8. Marked(list) = IF p.connected THEN Marked(peers[t]) \cup {e} ELSE Marked(peers[t]) \ {e}
  BY <1>4 DEF Marked
<1> QED
  BY <1>5, <1>7, <1>8

\* A transfer that wants peers gets one that may be connected and failed least.
LEMMA CandidateFacts ==
  ASSUME NEW t \in Transfer, IsList(peers[t]), now \in Nat, NEW order \in Orders(t),
         Candidate(t, order) # NoEndpoint
  PROVE  LET e == Candidate(t, order)
         IN  /\ e \in MayConnect(peers[t], now)
             /\ \A x \in MayConnect(peers[t], now) : peers[t][e].FailCount <= peers[t][x].FailCount
<1> DEFINE list == peers[t]
           time == now
<1>1. Candidate(t, order) = FindConnectCandidate(list, order, time)
  BY DEF Candidate
<1>2. IsList(list) /\ order \in SetToSeqs(DOMAIN list) /\ time \in Nat
  BY DEF Orders
<1> QED
  BY <1>1, <1>2, FindFacts

LEMMA AddTransferLists ==
  ASSUME SessionInv, ListsInv, NEW t \in Transfer, AddTransfer(t)
  PROVE  ListsInv'
<1>1. /\ Idle /\ cmdChan[t] = "none" /\ transfers' = transfers \cup {t}
      /\ UNCHANGED <<tick, conn, now, panicked>>
  BY DEF AddTransfer
<1>2. \/ \E order \in SetToSeqs(FirstPeers) :
            peers' = [peers EXCEPT ![t] = WithFirstPeers(@, order)]
      \/ UNCHANGED peers
  BY DEF AddTransfer
<1>3. Types /\ Types'
  BY AddTransferStep DEF SessionInv
<1>4. TickCounted'
  <2>1. Cardinality(transfers') \in Nat
    BY <1>3, SessionAssumption, FS_Subset, FS_CardinalityType DEF Types
  <2>2. tick'.steps = 0
    BY <1>1 DEF ListsInv, TickCounted, Idle
  <2> QED
    BY <2>1, <2>2 DEF TickCounted
<1>5. PICK list : /\ peers' = [peers EXCEPT ![t] = list]
                  /\ IsList(list) /\ Marked(list) = Marked(peers[t])
  <2>1. CASE UNCHANGED peers
    <3>1. peers' = [peers EXCEPT ![t] = peers[t]] /\ IsList(peers[t])
      BY <2>1 DEF ListsInv, ListsOK
    <3> QED
      BY <3>1
  <2>2. ASSUME NEW order \in SetToSeqs(FirstPeers),
               peers' = [peers EXCEPT ![t] = WithFirstPeers(@, order)]
        PROVE  /\ IsList(WithFirstPeers(peers[t], order))
               /\ Marked(WithFirstPeers(peers[t], order)) = Marked(peers[t])
    BY FirstPeersFacts DEF ListsInv, ListsOK
  <2> QED
    BY <1>2, <2>1, <2>2
<1> QED
  BY <1>1, <1>4, <1>5, AddedKeeps

LEMMA FoundSourcesLists ==
  ASSUME ListsInv, NEW t \in Transfer, NEW e \in Endpoint, FoundFileSources(t, e)
  PROVE  ListsInv'
<1>1. UNCHANGED <<tick, transfers, conn, now, panicked>>
  BY DEF FoundFileSources
<1>2. PICK order \in Orders(t) : peers' = [peers EXCEPT ![t] = AddPeer(@, e, {"server"}, order)]
  BY DEF FoundFileSources
<1>3. IsList(peers[t])
  BY DEF ListsInv, ListsOK
<1>4. IsOrder(order, peers[t])
  BY <1>3, OrderVisitsAll DEF Orders
<1>5. /\ IsList(AddPeer(peers[t], e, {"server"}, order))
      /\ Marked(AddPeer(peers[t], e, {"server"}, order)) = Marked(peers[t])
  <2>1. {"server"} \in SUBSET Source
    BY DEF Source
  <2> QED
    BY <2>1, <1>3, <1>4, AddPeerFacts
<1>6. TickCounted'
  BY <1>1 DEF ListsInv, TickCounted
<1> QED
  BY <1>1, <1>2, <1>5, <1>6, AddedKeeps

\* A peer that is tried is one of the list, and not connected by this transfer.
LEMMA VisitTransferLists ==
  ASSUME SessionInv, ListsInv, NEW t \in Transfer, VisitTransfer(t)
  PROVE  ListsInv'
<1>1. UNCHANGED <<transfers, now, panicked>>
  BY DEF VisitTransfer
<1>2. ListsOK /\ MarksAgree /\ TickCounted /\ now \in Nat /\ IsList(peers[t])
  BY SessionAssumption DEF ListsInv, ListsOK
<1>3. Types /\ tick \in [todo : SUBSET Transfer, steps : Int, reserve : Int, on : BOOLEAN] /\ tick.on
  BY DEF SessionInv, TickInSession, VisitTransfer
<1>4. PICK order \in Orders(t) :
        LET e == Candidate(t, order)
        IN  \/ /\ e = NoEndpoint
               /\ tick' = [tick EXCEPT !.todo = @ \ {t}]
               /\ UNCHANGED <<peers, peerConnections, conn>>
            \/ /\ e \in Endpoint \ InSession
               /\ peers' = [peers EXCEPT ![t][e].LastConnected = now,
                                         ![t][e].connected = TRUE]
               /\ conn' = [conn EXCEPT ![t][e] = "dialing"]
               /\ tick' = [tick EXCEPT !.todo = @ \ {t}, !.steps = 0, !.reserve = @ - 1]
            \/ /\ e \in InSession
               /\ peers' = [peers EXCEPT ![t][e].NextConnection = now + InSessionPause]
               /\ tick' = [tick EXCEPT !.todo = @ \ {t}]
               /\ UNCHANGED <<peerConnections, conn>>
  BY DEF VisitTransfer
<1>5. TickCounted'
  <2>1. Cardinality(transfers) \in Nat
    BY <1>3, TransfersCounted
  <2>2. \/ tick' = [tick EXCEPT !.todo = @ \ {t}]
        \/ tick' = [tick EXCEPT !.todo = @ \ {t}, !.steps = 0, !.reserve = @ - 1]
    BY <1>4
  <2>3. CASE tick' = [tick EXCEPT !.todo = @ \ {t}]
    BY <1>1, <1>2, <1>3, <2>3 DEF TickCounted
  <2>4. CASE tick' = [tick EXCEPT !.todo = @ \ {t}, !.steps = 0, !.reserve = @ - 1]
    <3>1. tick' = [todo |-> tick.todo \ {t}, steps |-> 0, reserve |-> tick.reserve - 1,
                   on |-> tick.on]
      BY <1>3, <2>4, Zenon
    <3> QED
      BY <1>1, <2>1, <3>1 DEF TickCounted
  <2> QED
    BY <2>2, <2>3, <2>4
<1> DEFINE e == Candidate(t, order)
<1>6. e # NoEndpoint => /\ e \in DOMAIN peers[t] /\ ~peers[t][e].connected
                        /\ peers[t][e] \in PeerRecord
  BY <1>2, CandidateFacts DEF MayConnect, IsConnectCandidate, IsList
<1> HIDE DEF e
<1>7. CASE UNCHANGED <<peers, conn>>
  BY <1>1, <1>5, <1>7, ListsUntouched DEF ListsInv
<1>8. CASE /\ e \in Endpoint
           /\ peers' = [peers EXCEPT ![t][e].LastConnected = now, ![t][e].connected = TRUE]
           /\ conn' = [conn EXCEPT ![t][e] = "dialing"]
  <2> DEFINE p == [peers[t][e] EXCEPT !.LastConnected = now, !.connected = TRUE]
  <2>1. e # NoEndpoint
    BY <1>8, PolicyAssumption
  <2>2. p \in PeerRecord /\ p.connected
    BY <1>2, <1>6, <2>1 DEF PeerRecord
  <2>3. peers' = [peers EXCEPT ![t][e] = p]
    BY <1>2, <1>6, <1>8, <2>1 DEF ListsOK, IsList
  <2> HIDE DEF p
  <2>4. /\ ListsOK' /\ \A u \in Transfer : u # t => peers'[u] = peers[u]
        /\ Marked(peers'[t]) = Marked(peers[t]) \cup {e}
    BY <1>2, <1>6, <2>1, <2>2, <2>3, ChangedKeeps
  <2>5. \A u \in Transfer, x \in Endpoint :
          conn'[u][x] = IF u = t /\ x = e THEN "dialing" ELSE conn[u][x]
    BY <1>3, <1>8 DEF Types
  <2>6. \A u \in Transfer, x \in Endpoint :
          x \in Marked(peers'[u]) <=> (x \in Marked(peers[u]) \/ (u = t /\ x = e))
    BY <2>4
  <2>7. MarksAgree'
    BY <1>2, <2>5, <2>6 DEF MarksAgree
  <2> QED
    BY <1>1, <1>5, <2>4, <2>7 DEF ListsInv
<1>9. CASE /\ e \in Endpoint
           /\ peers' = [peers EXCEPT ![t][e].NextConnection = now + InSessionPause]
           /\ conn' = conn
  <2> DEFINE p == [peers[t][e] EXCEPT !.NextConnection = now + InSessionPause]
  <2>1. e # NoEndpoint
    BY <1>9, PolicyAssumption
  <2>2. p \in PeerRecord /\ ~p.connected
    BY <1>2, <1>6, <2>1, SessionAssumption DEF PeerRecord
  <2>3. peers' = [peers EXCEPT ![t][e] = p]
    BY <1>9
  <2> HIDE DEF p
  <2>4. /\ ListsOK' /\ \A u \in Transfer : u # t => peers'[u] = peers[u]
        /\ Marked(peers'[t]) = Marked(peers[t]) \ {e}
    BY <1>2, <1>6, <2>1, <2>2, <2>3, ChangedKeeps
  <2>5. e \notin Marked(peers[t])
    BY <1>6, <2>1 DEF Marked
  <2>6. \A u \in Transfer : Marked(peers'[u]) = Marked(peers[u])
    BY <2>4, <2>5
  <2>7. MarksAgree'
    BY <1>2, <1>9, <2>6 DEF MarksAgree
  <2> QED
    BY <1>1, <1>5, <2>4, <2>7 DEF ListsInv
<1> QED
  BY <1>4, <1>7, <1>8, <1>9 DEF e, InSession

\* After the last pass a tick is over.
LEMMA EndPassLists ==
  ASSUME SessionInv, ListsInv, EndPass
  PROVE  ListsInv'
<1>1. UNCHANGED <<transfers, peers, conn, now, panicked>>
  BY DEF EndPass
<1>2. /\ tick \in [todo : SUBSET Transfer, steps : Int, reserve : Int, on : BOOLEAN]
      /\ tick.on /\ tick.steps \in 0..(2 * Cardinality(transfers)) /\ panicked \in BOOLEAN
  BY DEF SessionInv, TickInSession, EndPass, ListsInv, TickCounted
<1>3. Cardinality(transfers) \in Nat
  BY TransfersCounted DEF SessionInv
<1>4. CASE ~GoesOn(tick.steps + 1, tick.reserve)
  <2>1. tick' = NoTick
    BY <1>4 DEF EndPass
  <2> QED
    BY <1>1, <1>2, <1>3, <2>1, ListsUntouched DEF TickCounted, NoTick
<1>5. CASE GoesOn(tick.steps + 1, tick.reserve)
  <2>1. tick' = [tick EXCEPT !.todo = transfers, !.steps = @ + 1]
    BY <1>5 DEF EndPass, Again
  <2>2. tick' = [todo |-> transfers, steps |-> tick.steps + 1, reserve |-> tick.reserve,
                 on |-> tick.on]
    BY <1>2, <2>1, Zenon
  <2>3. tick.steps + 1 <= Cardinality(transfers) * 2
    BY <1>5 DEF GoesOn
  <2>4. TickCounted'
    BY <1>1, <1>2, <1>3, <2>2, <2>3 DEF TickCounted
  <2> QED
    BY <1>1, <1>2, <2>4, ListsUntouched
<1> QED
  BY <1>4, <1>5

LEMMA BeginTickLists ==
  ASSUME SessionInv, ListsInv, BeginTick
  PROVE  ListsInv'
<1>1. UNCHANGED <<transfers, peers, conn, now, panicked>> /\ tick'.steps = 0
  BY DEF BeginTick
<1>2. Cardinality(transfers) \in Nat
  BY TransfersCounted DEF SessionInv
<1>3. TickCounted' /\ panicked \in BOOLEAN
  BY <1>1, <1>2 DEF TickCounted, ListsInv
<1> QED
  BY <1>1, <1>3, ListsUntouched

\* The goroutine of a connection ends, and its peer is free again.
LEMMA UnregisterLists ==
  ASSUME SessionInv, ListsInv, NEW t \in Transfer, NEW e \in Endpoint,
         UnregisterPeerConnection(t, e)
  PROVE  ListsInv'
<1>1. /\ conn[t][e] # "off" /\ conn' = [conn EXCEPT ![t][e] = "off"]
      /\ UNCHANGED <<tick, transfers, now, panicked>>
  BY DEF UnregisterPeerConnection
<1>2. /\ Types /\ ListsOK /\ MarksAgree /\ TickCounted
      /\ now \in 1..MaxTime /\ now \in Nat /\ panicked \in BOOLEAN
  BY SessionAssumption DEF SessionInv, ListsInv
<1>3. e \in DOMAIN peers[t] /\ peers[t][e] \in PeerRecord
  BY <1>1, <1>2 DEF MarksAgree, Marked, ListsOK, IsList
<1> DEFINE p == Disconnected(peers[t][e])
<1>4. p \in PeerRecord /\ ~p.connected
  <2>1. \A q \in PeerRecord, at \in Nat, c \in Nat :
          LET r == [q EXCEPT !.connected = FALSE, !.LastConnected = at, !.FailCount = c]
          IN  r \in PeerRecord /\ ~r.connected
    BY DEF PeerRecord
  <2>2. peers[t][e].FailCount + 1 \in Nat
    BY <1>3 DEF PeerRecord
  <2> HIDE DEF PeerRecord
  <2> QED
    BY <1>2, <1>3, <2>1, <2>2, Zenon DEF Disconnected
<1>5. peers' = [peers EXCEPT ![t][e] = p]
  BY <1>3 DEF UnregisterPeerConnection
<1> HIDE DEF p
<1>6. /\ ListsOK' /\ \A u \in Transfer : u # t => peers'[u] = peers[u]
      /\ Marked(peers'[t]) = Marked(peers[t]) \ {e}
  BY <1>2, <1>3, <1>4, <1>5, ChangedKeeps
<1>7. \A u \in Transfer, x \in Endpoint :
        conn'[u][x] = IF u = t /\ x = e THEN "off" ELSE conn[u][x]
  BY <1>1, <1>2 DEF Types
<1>8. MarksAgree'
  BY <1>2, <1>6, <1>7 DEF MarksAgree
<1> QED
  BY <1>1, <1>2, <1>6, <1>8 DEF ListsInv, TickCounted

\* A connection that dialed goes on.
LEMMA RegisterLists ==
  ASSUME SessionInv, ListsInv, NEW t \in Transfer, NEW e \in Endpoint,
         RegisterPeerConnection(t, e)
  PROVE  ListsInv'
<1>1. /\ conn[t][e] = "dialing" /\ conn' = [conn EXCEPT ![t][e] = "connected"]
      /\ UNCHANGED <<tick, transfers, peers, now, panicked>>
  BY DEF RegisterPeerConnection
<1>2. Types /\ ListsOK /\ MarksAgree
  BY DEF SessionInv, ListsInv
<1>3. \A u \in Transfer, x \in Endpoint : conn'[u][x] # "off" <=> conn[u][x] # "off"
  BY <1>1, <1>2 DEF Types
<1>4. MarksAgree'
  BY <1>1, <1>2, <1>3 DEF MarksAgree
<1> QED
  BY <1>1, <1>4 DEF ListsInv, ListsOK, TickCounted

\* Transfers leave the session between two ticks only.
LEMMA TransferClosedLists ==
  ASSUME SessionInv, ListsInv, NEW t \in Transfer, TransferClosed(t)
  PROVE  ListsInv'
<1>1. UNCHANGED <<tick, peers, conn, now, panicked>> /\ ~tick.on
  BY DEF TransferClosed, Idle
<1>2. Types'
  BY TransferClosedStep DEF SessionInv
<1>3. Cardinality(transfers') \in Nat
  BY <1>2, SessionAssumption, FS_Subset, FS_CardinalityType DEF Types
<1>4. TickCounted' /\ panicked \in BOOLEAN
  BY <1>1, <1>3 DEF TickCounted, ListsInv
<1> QED
  BY <1>1, <1>4, ListsUntouched

LEMMA ListsStep ==
  ASSUME SessionInv, ListsInv, [Next]_vars
  PROVE  ListsInv'
<1>1. /\ panicked \in BOOLEAN
      /\ UNCHANGED <<tick, transfers>> => TickCounted'
  BY DEF ListsInv, TickCounted
<1>2. CASE StopCommand \/ SessionClosed \/ UNCHANGED vars
  BY <1>1, <1>2, ListsUntouched DEF StopCommand, SessionClosed, vars
<1>3. CASE TimePasses
  <2>1. now' \in 1..MaxTime
    BY <1>3, SessionAssumption DEF TimePasses, ListsInv
  <2>2. UNCHANGED <<tick, transfers, peers, conn, panicked>>
    BY <1>3 DEF TimePasses
  <2> QED
    BY <1>1, <2>1, <2>2 DEF ListsInv, ListsOK, MarksAgree, Marked, IsList
<1>4. CASE BeginTick
  BY <1>4, BeginTickLists
<1>5. CASE TickStep
  BY <1>5, EndPassLists, VisitTransferLists DEF TickStep
<1>6. ASSUME NEW t \in Transfer, AddTransfer(t) PROVE ListsInv'
  BY <1>6, AddTransferLists
<1>7. ASSUME NEW t \in Transfer, TransferFinished(t) PROVE ListsInv'
  BY <1>1, <1>7, ListsUntouched DEF TransferFinished
<1>8. ASSUME NEW t \in Transfer, RunStop(t) PROVE ListsInv'
  BY <1>1, <1>8, ListsUntouched DEF RunStop
<1>9. ASSUME NEW t \in Transfer, TransferClosed(t) PROVE ListsInv'
  BY <1>9, TransferClosedLists
<1>10. ASSUME NEW t \in Transfer, NEW e \in Endpoint, FoundFileSources(t, e) PROVE ListsInv'
  BY <1>10, FoundSourcesLists
<1>11. ASSUME NEW t \in Transfer, NEW e \in Endpoint,
              RegisterPeerConnection(t, e) \/ UnregisterPeerConnection(t, e)
       PROVE  ListsInv'
  BY <1>11, RegisterLists, UnregisterLists
<1> QED
  BY <1>2, <1>3, <1>4, <1>5, <1>6, <1>7, <1>8, <1>9, <1>10, <1>11 DEF Next

LEMMA ListsInductive == Spec => [](SessionInv /\ ListsInv)
<1>1. Init => SessionInv /\ ListsInv
  BY InitSession, InitLists
<1>2. SessionInv /\ ListsInv /\ [Next]_vars => (SessionInv /\ ListsInv)'
  BY SessionStep, ListsStep
<1> QED
  BY <1>1, <1>2, PTL DEF Spec

\* Only a visit of the tick starts a connection.
LEMMA FirstTries ==
  ASSUME SessionInv, ListsInv, [Next]_vars, NEW t \in Transfer, NEW e \in Endpoint,
         conn[t][e] = "off", conn'[t][e] # "off"
  PROVE  \E order \in Orders(t) : e = Candidate(t, order)
<1>1. Types
  BY DEF SessionInv
<1>2. CASE conn' = conn
  BY <1>2
<1>3. ASSUME NEW u \in Transfer, VisitTransfer(u) PROVE \E order \in Orders(t) : e = Candidate(t, order)
  <2>1. PICK order \in Orders(u) :
          \/ conn' = conn
          \/ conn' = [conn EXCEPT ![u][Candidate(u, order)] = "dialing"]
    BY <1>3 DEF VisitTransfer
  <2>2. u = t /\ Candidate(u, order) = e
    BY <1>1, <2>1 DEF Types
  <2> QED
    BY <2>2
<1>4. ASSUME NEW u \in Transfer, NEW x \in Endpoint, RegisterPeerConnection(u, x) PROVE FALSE
  BY <1>1, <1>4 DEF RegisterPeerConnection, Types
<1>5. ASSUME NEW u \in Transfer, NEW x \in Endpoint, UnregisterPeerConnection(u, x) PROVE FALSE
  BY <1>1, <1>5 DEF UnregisterPeerConnection, Types
<1>6. \/ conn' = conn \/ \E u \in Transfer : VisitTransfer(u)
      \/ \E u \in Transfer, x \in Endpoint :
           RegisterPeerConnection(u, x) \/ UnregisterPeerConnection(u, x)
  BY DEF Next, vars, StopCommand, BeginTick, TickStep, EndPass, TimePasses, SessionClosed,
         AddTransfer, TransferFinished, RunStop, TransferClosed, FoundFileSources
<1> QED
  BY <1>2, <1>3, <1>4, <1>5, <1>6

\* For any number of transfers, peers and connections, and a stop at any point, the
\* cmdChan of a transfer is closed once: the stop and the last connection that ends
\* after it never both run Transfer.Stop (session.go:147, 469-471; transfer.go:290).
THEOREM StopRunsOnce == Spec => []ClosedOnce
<1>1. SessionInv => ClosedOnce
  BY DEF SessionInv
<1> QED
  BY SessionInductive, <1>1, PTL

\* However the connections and the transfers end, the session loop ends last
\* (session.go:103, 138, 464, 494).
THEOREM SessionEndsLast == Spec => []NobodyIsLeft
<1>1. SessionInv => NobodyIsLeft
  BY DEF SessionInv, NobodyIsLeft, EndedAlone, Registered
<1> QED
  BY SessionInductive, <1>1, PTL

\* Every variable of the session has its type, the peer lists are lists of peers, and
\* the tick makes no more passes in a row without a connection than two for each transfer
\* (session.go:405-419).
THEOREM SessionTypeCorrect == Spec => []TypeOK
<1>1. SessionInv /\ ListsInv => TypeOK
  <2> SUFFICES ASSUME SessionInv, ListsInv PROVE TypeOK
    OBVIOUS
  <2>1. /\ \A t \in Transfer : DOMAIN peers[t] \subseteq Endpoint
        /\ \A t \in Transfer : \A e \in DOMAIN peers[t] : peers[t][e] \in PeerRecord
    BY DEF ListsInv, ListsOK, IsList
  <2>2. /\ tick.todo \subseteq transfers /\ tick.reserve \in Int /\ tick.on \in BOOLEAN
        /\ tick.steps \in 0..(2 * Cardinality(transfers))
        /\ now \in 1..MaxTime /\ panicked \in BOOLEAN
    BY DEF SessionInv, TickInSession, ListsInv, TickCounted
  <2>3. Types
    BY DEF SessionInv
  <2> HIDE DEF PeerRecord
  <2> QED
    BY <2>1, <2>2, <2>3 DEF TypeOK, Types
<1> QED
  BY ListsInductive, <1>1, PTL

\* The table of connections, the connections that run and the marks in the peer lists
\* agree, however lists are filled, erased and walked: the peer of a connection is neither
\* erased nor tried again (session.go:389-404, 442-452; policy.go:39-45, 91-145).
THEOREM TablesAlwaysAgree == Spec => []TablesAgree
<1>1. SessionInv /\ ListsInv => TablesAgree
  BY DEF SessionInv, ListsInv, ConnectionsAreListed, MarksAgree, Marked, TablesAgree
<1> QED
  BY ListsInductive, <1>1, PTL

\* Whatever the order in which Go walks the map of peers, the one that is tried has
\* waited long enough and none that has failed less often (policy.go:209-234).
THEOREM LeastFailedFirst == Spec => LeastFailedIsNext
<1> DEFINE Tried(t) == {x \in DOMAIN peers[t] : ~peers[t][x].connected /\ Due(peers[t][x], now)}
           Next1(t, e) ==
             /\ e \in Tried(t)
             /\ peers[t][e].FailCount <= MaxFail
             /\ now >= peers[t][e].LastConnected + peers[t][e].FailCount * MinReconnect
                  \/ peers[t][e].LastConnected = 0
             /\ \A x \in Tried(t) : peers[t][x].FailCount >= peers[t][e].FailCount
           Step == \A t \in Transfer, e \in Endpoint :
                     conn[t][e] = "off" /\ conn'[t][e] # "off" => Next1(t, e)
<1>1. SessionInv /\ ListsInv /\ [Next]_vars => [Step]_vars
  <2> SUFFICES ASSUME SessionInv, ListsInv, [Next]_vars,
                      NEW t \in Transfer, NEW e \in Endpoint,
                      conn[t][e] = "off", conn'[t][e] # "off"
               PROVE  Next1(t, e)
    OBVIOUS
  <2>1. PICK order \in Orders(t) : e = Candidate(t, order)
    BY FirstTries
  <2>2. IsList(peers[t]) /\ now \in Nat /\ e # NoEndpoint
    BY SessionAssumption, PolicyAssumption DEF ListsInv, ListsOK
  <2>3. /\ e \in MayConnect(peers[t], now)
        /\ \A x \in MayConnect(peers[t], now) : peers[t][e].FailCount <= peers[t][x].FailCount
    BY <2>1, <2>2, CandidateFacts
  <2>4. /\ e \in DOMAIN peers[t] /\ ~peers[t][e].connected /\ peers[t][e].FailCount <= MaxFail
        /\ Due(peers[t][e], now)
    BY <2>3 DEF MayConnect, IsConnectCandidate
  <2>5. ASSUME NEW x \in Tried(t) PROVE peers[t][x].FailCount >= peers[t][e].FailCount
    <3>1. peers[t][x].FailCount \in Nat /\ peers[t][e].FailCount \in Nat /\ MaxFail \in Nat
      BY <2>2, <2>4, PolicyAssumption DEF IsList, PeerRecord
    <3>2. peers[t][x].FailCount <= MaxFail => x \in MayConnect(peers[t], now)
      BY DEF MayConnect, IsConnectCandidate
    <3> QED
      BY <2>3, <2>4, <3>1, <3>2
  <2> QED
    BY <2>4, <2>5 DEF Due
<1>2. [][Step]_vars => LeastFailedIsNext
  BY DEF LeastFailedIsNext
<1> QED
  BY ListsInductive, <1>1, <1>2, PTL DEF Spec
=============================================================================
