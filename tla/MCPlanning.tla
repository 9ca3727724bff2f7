----------------------------- MODULE MCPlanning -----------------------------
(* Planning for TLC: every file of up to MaxLines lines, and every target  *)
(* file of up to two lines whose options are up to MaxWords words.         *)
EXTENDS Planning

CONSTANTS MaxLines, LineSizes, MaxWords

SmallFiles == UNION {[1..n -> LineSizes] : n \in 0..MaxLines}

(* A file that was cut or appended to between its readings. *)
CutOrGrown(f) == {SubSeq(f, 1, n) : n \in 0..Len(f)} \union {Append(f, s) : s \in LineSizes}

SmallPolicies ==
  { [requested |-> r, workers |-> w, target |-> t, max |-> 5] :
      r \in {-1, 0, 3}, w \in {0, 2}, t \in {2, 4} }

(* "2", "3,1", "5-7,4", "3-2": out of order, overlapping, reversed.        *)
Specs == { <<[lo |-> 2, hi |-> 2]>>,
           <<[lo |-> 3, hi |-> 3], [lo |-> 1, hi |-> 1]>>,
           <<[lo |-> 5, hi |-> 7], [lo |-> 3, hi |-> 5]>>,
           <<[lo |-> 3, hi |-> 2]>> }

Words == {[flag |-> "p", spec |-> NoSpec], [flag |-> "other", spec |-> NoSpec]}
         \union [flag : {"pSpec", "other"}, spec : Specs]

SmallTargetFiles ==
  LET Lines(t, n) == [target : t, options : UNION {[1..k -> Words] : k \in 0..n}]
  IN {<<l>> : l \in Lines({"a"}, MaxWords)}
     \union {<<k, l>> : k \in Lines({"a"}, 1), l \in Lines({"a", "b"}, 1)}
=============================================================================
