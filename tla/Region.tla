------------------------------- MODULE Region -------------------------------
(***************************************************************************)
(* data/region.go: half-open ranges of bytes and the set of them that is   *)
(* still missing of a block.                                               *)
(***************************************************************************)
EXTENDS Integers

Make(b, e) == [begin |-> b, end |-> e]
Ranges == [begin : Nat, end : Nat]
Bytes(r) == r.begin .. (r.end - 1)
BytesOf(R) == UNION {Bytes(r) : r \in R}

\* What is left of segment s without segment t: one of the branches of
\* data.Sub, tried in this order.
SubInside(s, t) == s.begin < t.begin /\ s.end > t.end
SubApart(s, t)  == s.end <= t.begin \/ t.end <= s.begin
\* Mutant: a part that starts with the segment leaves its front.
SubTailFromStart(s, t) == t.begin >= s.begin /\ t.begin < s.end
SubTail(s, t)   == t.begin > s.begin /\ t.begin < s.end
SubHead(s, t)   == t.end > s.begin /\ t.end < s.end

Sub(s, t) ==
  IF SubInside(s, t) THEN {Make(s.begin, t.begin), Make(t.end, s.end)}
  ELSE IF SubApart(s, t) THEN {s}
  ELSE IF SubTail(s, t) THEN {Make(s.begin, t.begin)}
  ELSE IF SubHead(s, t) THEN {Make(t.end, s.end)}
  ELSE {}

RegionSub(R, t) == UNION {Sub(s, t) : s \in R}
=============================================================================
