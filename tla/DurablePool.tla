----------------------------- MODULE DurablePool -----------------------------
(***************************************************************************)
(* What the download of a file promises, whatever fails: the pool of       *)
(* BlockPool, with snapshots of it that go to a file and a process that    *)
(* may end at any point.  The next one goes on from the file, or from the  *)
(* snapshot that was being written.  Download implements it.               *)
(***************************************************************************)
EXTENDS BlockPool

VARIABLES
  mode,    \* "running", "failing" (it will end and does nothing more), "exited"
  saving,  \* the snapshot that is being written, in a set, or none
  unsaved, \* the last one could not be written
  file     \* the one in the file, in a set, or none

durablePoolVars == <<poolVars, mode, saving, unsaved, file>>

Snapshot == [done |-> done, verified |-> verified]
Latest == IF saving # {} THEN saving ELSE file

DurableInit ==
  /\ Init
  /\ mode = "running"
  /\ saving = {Snapshot} /\ unsaved = FALSE
  /\ file = {}

Assign(peer) ==
  /\ mode = "running"
  /\ Request(peer)
  /\ UNCHANGED <<mode, saving, unsaved, file>>

Return(peer, b) ==
  /\ mode = "running"
  /\ Release(peer, b)
  /\ UNCHANGED <<mode, saving, unsaved, file>>

(* A block comes only when all that came before it has been handed over to be *)
(* written: at most one is not in a snapshot, unless that could not be        *)
(* written.                                                                   *)
Receive(peer, b) ==
  /\ mode = "running"
  /\ Deliver(peer, b)
  /\ unsaved \/ \A s \in Latest : done \subseteq s.done
  /\ UNCHANGED <<mode, saving, unsaved, file>>

Save ==
  /\ mode = "running"
  /\ saving = {} /\ saving' = {Snapshot}
  /\ unsaved' = FALSE
  /\ UNCHANGED <<poolVars, mode, file>>

Write ==
  /\ saving # {}
  /\ file' = saving /\ saving' = {}
  /\ UNCHANGED <<poolVars, mode, unsaved>>

(* The next one will have all that this one has. *)
WriteFails ==
  /\ saving # {}
  /\ saving' = {} /\ unsaved' = TRUE
  /\ UNCHANGED <<poolVars, mode, file>>

(* What was verified is saved in the same step. *)
Accept(p) ==
  /\ mode = "running"
  /\ Verify(p)
  /\ saving = {} /\ saving' = {Snapshot'}
  /\ unsaved' = FALSE
  /\ UNCHANGED <<mode, file>>

(* A piece is given up only by a process that then ends. *)
GiveUp(p) ==
  /\ mode = "running" /\ mode' = "failing"
  /\ p \notin verified
  /\ done' = done \ BlocksIn(p)
  /\ owners' = [b \in Blocks |-> IF b \in BlocksIn(p) THEN {} ELSE owners[b]]
  /\ saving = {} /\ saving' = {Snapshot'}
  /\ unsaved' = FALSE
  /\ UNCHANGED <<verified, lost, file>>

Fail ==
  /\ mode = "running" /\ mode' = "failing"
  /\ UNCHANGED <<poolVars, saving, unsaved, file>>

(* Nothing that was delivered is missing in the file after an exit, unless the *)
(* last snapshot could not be written.                                         *)
Exit ==
  /\ mode = "running" /\ mode' = "exited"
  /\ saving = {} /\ (unsaved \/ file = {Snapshot})
  /\ UNCHANGED <<poolVars, saving, unsaved, file>>

(* Without a file the download begins anew.  The last piece is lost if no       *)
(* block of it is in the file: the resume data does not say how long it is.     *)
Restart ==
  /\ owners' = [b \in Blocks |-> {}]
  /\ file' \in {file, Latest}
  /\ \/ file' = {} /\ done' = {} /\ verified' = {} /\ saving' = {Snapshot'}
     \/ file' = {Snapshot'} /\ saving' = {}
  /\ lost' \subseteq {LastPiece}
  /\ LastPiece \in lost' => LastPiece \notin verified' /\ BlocksIn(LastPiece) \cap done' = {}
  /\ mode' = "running" /\ unsaved' = FALSE

(* A step of a download that the pool does not see. *)
Hidden == UNCHANGED durablePoolVars

DurableNext ==
  \/ Hidden
  \/ \E peer \in Peers : Assign(peer)
  \/ \E peer \in Peers, b \in Blocks : Return(peer, b) \/ Receive(peer, b)
  \/ \E p \in Pieces : Accept(p) \/ GiveUp(p)
  \/ Save \/ Write \/ WriteFails \/ Fail \/ Exit \/ Restart

DurableSpec == DurableInit /\ [][DurableNext]_durablePoolVars
=============================================================================
