--------------------------- MODULE MCPieceReceipt ---------------------------
(* The second piece of a file of two, with blocks of 3, 3 and 1 bytes.      *)
EXTENDS PieceReceipt, TLC

CONSTANTS c1, c2

MCConnection == {c1, c2}

\* What a buffer may hold.
MCData == Seq(Int)

Symmetric == Permutations(MCConnection)
=============================================================================
