---------------------------- MODULE MCPickerUse ----------------------------
(* Three peers and a file of two pieces whose last piece is shorter.        *)
EXTENDS PickerUse, TLC

CONSTANTS a, b, c

MCPeer == {a, b, c}

\* Slow, medium and fast, so that every kind of sharing occurs.
MCSpeed == a :> 0 @@ b :> 1 @@ c :> 2
=============================================================================
