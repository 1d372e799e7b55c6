----------------------------- MODULE BlockPool -----------------------------
(***************************************************************************)
(* What the piece picker promises its callers, without pieces in progress, *)
(* bits or counters: a pool of blocks, each with the peers that download   *)
(* it now (its owners).  PickerUse implements it, through restarts.        *)
(***************************************************************************)
EXTENDS Integers, FiniteSets

CONSTANTS
  Pieces,       \* the pieces of the file
  LastPiece,    \* the one a restart may lose
  BlocksIn(_),  \* the blocks of a piece
  Peers,
  PeerSpeed,    \* 0 is slow
  MaxRequest    \* REQUEST_QUEUE_SIZE

VARIABLES
  owners,    \* the peers that download each block now
  done,      \* blocks on disk, verified or not
  verified,  \* pieces whose hash matched
  lost       \* pieces that will not be handed out any more

poolVars == <<owners, done, verified, lost>>

Blocks == UNION {BlocksIn(p) : p \in Pieces}
LostBlocks == UNION {BlocksIn(p) : p \in lost}
Idle   == {b \in (Blocks \ done) \ LostBlocks : owners[b] = {}}

Init ==
  /\ owners = [b \in Blocks |-> {}]
  /\ done = {}
  /\ verified = {}
  /\ lost = {}

(* A request gets blocks nobody has delivered.  A slow peer gets only idle   *)
(* blocks; a faster one may join a block's single owner.  Fewer than asked   *)
(* for means that no idle block is left behind.                              *)
Request(peer) ==
  \E S \in SUBSET ((Blocks \ done) \ LostBlocks) :
    /\ Cardinality(S) <= MaxRequest
    /\ Cardinality(S) < MaxRequest => Idle \subseteq S
    /\ \A b \in S :
         \/ owners[b] = {}
         \/ PeerSpeed[peer] > 0 /\ peer \notin owners[b] /\ Cardinality(owners[b]) = 1
    /\ owners' = [b \in Blocks |-> IF b \in S THEN owners[b] \cup {peer} ELSE owners[b]]
    /\ UNCHANGED <<done, verified, lost>>

Release(peer, b) ==
  /\ peer \in owners[b]
  /\ owners' = [owners EXCEPT ![b] = @ \ {peer}]
  /\ UNCHANGED <<done, verified, lost>>

Deliver(peer, b) ==
  /\ peer \in owners[b]
  /\ owners' = [owners EXCEPT ![b] = @ \ {peer}]
  /\ done' = done \cup {b}
  /\ UNCHANGED <<verified, lost>>

Verify(p) ==
  /\ BlocksIn(p) \subseteq done
  /\ p \notin verified
  /\ verified' = verified \cup {p}
  /\ UNCHANGED <<owners, done, lost>>

Reject(p) ==
  /\ BlocksIn(p) \subseteq done
  /\ p \notin verified
  /\ done' = done \ BlocksIn(p)
  /\ UNCHANGED <<owners, verified, lost>>

(* The process ends and another one resumes: nobody downloads, what was       *)
(* delivered and what was verified is kept.  The last piece is lost if no     *)
(* block of it is there: the resume data does not say how long it is.         *)
Resume ==
  /\ owners' = [b \in Blocks |-> {}]
  /\ lost' \in {lost, lost \cup {LastPiece}}
  /\ LastPiece \in lost' => LastPiece \notin verified /\ BlocksIn(LastPiece) \cap done = {}
  /\ UNCHANGED <<done, verified>>

Next ==
  \/ \E peer \in Peers : Request(peer)
  \/ \E peer \in Peers, b \in Blocks : Release(peer, b) \/ Deliver(peer, b)
  \/ \E p \in Pieces : Verify(p) \/ Reject(p)
  \/ Resume

Spec == Init /\ [][Next]_poolVars
=============================================================================
