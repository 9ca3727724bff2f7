-------------------------- MODULE PlanningProofs ---------------------------
(***************************************************************************)
(* Theorems about Splitting and Planning, for every file, whatever it has  *)
(* become by its second reading, every policy, every target file and every *)
(* number of port chunks: the entries are in the chunks once and in order, *)
(* the chunks are as many as planned, every task has its input and no      *)
(* temporary file stays; every port of a line is scanned by exactly one of *)
(* its tasks and no two tasks of split lines name the same result.         *)
(***************************************************************************)
EXTENDS Planning, FiniteSetTheorems, SequenceTheorems, WellFoundedInduction, TLAPS

(* Induction up to n, as a fact about a set: what the recursive functions  *)
(* of the model compute is shown with it.                                  *)
LEMMA Induction ==
  ASSUME NEW n \in Nat, NEW J, 0 \in J, \A k \in 1..n : k - 1 \in J => k \in J
  PROVE  \A k \in 0..n : k \in J
<1> DEFINE Bad == (0..n) \ J
<1> SUFFICES ASSUME Bad # {} PROVE FALSE
  OBVIOUS
<1>1. PICK x \in Bad : \A y \in Bad : <<y, x>> \notin OpToRel(<, Nat)
  <2>1. Bad \subseteq Nat
    OBVIOUS
  <2> QED BY <2>1, NatLessThanWellFounded, WFMin
<1>2. x \in 1..n /\ x - 1 \in 0..n
  OBVIOUS
<1>3. x - 1 \in Bad
  BY <1>2
<1>4. <<x - 1, x>> \in OpToRel(<, Nat)
  BY <1>2 DEF OpToRel
<1> QED BY <1>1, <1>3, <1>4

(* t is what base becomes by the steps 1 to m, one after the other.        *)
Computes(t, base, step, m) ==
  t[0] = base /\ \A k \in 1..m : t[k] = step[k][t[k - 1]]

(* Such a t exists, and is the function that a recursive definition names. *)
LEMMA Recursion ==
  ASSUME NEW n \in Nat, NEW X, NEW base \in X, NEW step \in [1..n -> [X -> X]]
  PROVE  \E t \in [0..n -> X] : Computes(t, base, step, n)
<1> DEFINE J == {m \in 0..n : \E t \in [0..n -> X] : Computes(t, base, step, m)}
<1>1. 0 \in J
  <2> DEFINE u == [k \in 0..n |-> base]
  <2>1. u \in [0..n -> X] /\ Computes(u, base, step, 0)
    BY DEF Computes
  <2> HIDE DEF u
  <2>2. \E t \in [0..n -> X] : Computes(t, base, step, 0)
    BY <2>1
  <2> QED BY <2>2
<1>2. ASSUME NEW m \in 1..n, m - 1 \in J
      PROVE  m \in J
  <2>1. PICK t \in [0..n -> X] : Computes(t, base, step, m - 1)
    BY <1>2
  <2> DEFINE u == [t EXCEPT ![m] = step[m][t[m - 1]]]
  <2>2. step[m][t[m - 1]] \in X
    OBVIOUS
  <2>3. u \in [0..n -> X]
    BY <2>2
  <2>4. Computes(u, base, step, m)
    BY <2>1 DEF Computes
  <2> HIDE DEF u
  <2> QED BY <2>3, <2>4
<1>3. n \in J
  <2> HIDE DEF J
  <2>1. \A k \in 1..n : k - 1 \in J => k \in J
    BY <1>2
  <2>2. \A k \in 0..n : k \in J
    BY <1>1, <2>1, Induction, Zenon
  <2> QED BY <2>2
<1> QED BY <1>3

-----------------------------------------------------------------------------
(* The bytes of a file are a number.                                       *)
LEMMA SumIsNat ==
  ASSUME NEW s \in Seq(Nat)
  PROVE  Sum(s) \in Nat
<1> DEFINE upTo[n \in 0..Len(s)] == IF n = 0 THEN 0 ELSE upTo[n - 1] + s[n]
           step == [k \in 1..Len(s) |-> [x \in Nat |-> x + s[k]]]
<1>0. Len(s) \in Nat
  OBVIOUS
<1>1. Sum(s) = upTo[Len(s)]
  BY DEF Sum
<1>2. step \in [1..Len(s) -> [Nat -> Nat]]
  OBVIOUS
<1>3. PICK t \in [0..Len(s) -> Nat] : Computes(t, 0, step, Len(s))
  <2> HIDE DEF step
  <2> QED BY <1>0, <1>2, Recursion, Zenon
<1>4. t = [k \in 0..Len(s) |-> IF k = 0 THEN 0 ELSE t[k - 1] + s[k]]
  <2>1. ASSUME NEW k \in 1..Len(s) PROVE t[k] = t[k - 1] + s[k]
    <3>1. t[k] = step[k][t[k - 1]]
      BY <1>3 DEF Computes
    <3>2. k - 1 \in 0..Len(s)
      BY <1>0
    <3>3. t[k - 1] \in Nat
      BY <1>3, <3>2, Zenon
    <3> QED BY <3>1, <3>3
  <2>2. t[0] = 0
    BY <1>3 DEF Computes
  <2> QED BY <2>1, <2>2
<1>5. upTo = [k \in 0..Len(s) |-> IF k = 0 THEN 0 ELSE upTo[k - 1] + s[k]]
  BY <1>4, Zenon
<1>6. upTo \in [0..Len(s) -> Nat]
  <2> DEFINE J == {k \in 0..Len(s) : upTo[k] \in Nat}
  <2> HIDE DEF upTo
  <2>1. 0 \in J
    BY <1>5
  <2>2. ASSUME NEW k \in 1..Len(s), k - 1 \in J PROVE k \in J
    <3>1. k \in 0..Len(s) /\ k # 0 /\ s[k] \in Nat /\ upTo[k - 1] \in Nat
      BY <1>0, <2>2
    <3>2. upTo[k] = upTo[k - 1] + s[k]
      BY <1>5, <3>1
    <3>3. upTo[k] \in Nat
      BY <3>1, <3>2
    <3> QED BY <3>1, <3>3
  <2>3. \A k \in 0..Len(s) : k \in J
    <3> HIDE DEF J
    <3> QED BY <1>0, <2>1, <2>2, Induction, Zenon
  <2> QED BY <1>5, <2>3
<1> HIDE DEF upTo
<1> QED BY <1>1, <1>6

(* The chunks made so far follow each other and hold the entries read.     *)
Chain(s) ==
  \A i \in 1..Len(s) : s[i].from = (IF i = 1 THEN 1 ELSE s[i - 1].from + s[i - 1].count)
Held(s) == IF s = <<>> THEN 0 ELSE s[Len(s)].from + s[Len(s)].count - 1
Chained == Chain(All) /\ done = Held(All)

(* None of them is empty or too large, and enough entries are left for the *)
(* chunks that are missing.                                                *)
Budget ==
  /\ \A i \in 1..Len(All) : All[i].count > 0 /\ All[i].bytes <= policy.max
  /\ Len(All) <= meta.effective
  /\ phase \in {"split", "upload", "ready"} =>
       /\ meta.effective > 0
       /\ Len(All) >= meta.effective \/ Len(All) + meta.targets - done >= meta.effective
       /\ file = first => meta.targets = Entries(first, Len(first))

(* What each phase has reached.                                            *)
Reached ==
  /\ done = Entries(file, pos - 1)
  /\ phase = "inspect" => pos = 1 /\ cur = NoChunk /\ chunks = <<>> /\ meta = NoMeta
  /\ phase \in {"inspect", "split"} => stored = {}
  /\ phase \in {"upload", "ready"} => pos = Len(file) + 1 /\ cur = NoChunk
  /\ phase = "ready" => stored = 1..Len(chunks)

(* The chunks are uploaded in their order.                                 *)
InOrder == \E k \in 0..Len(chunks) : stored = 1..k

(* While the file is split, a chunk is open unless none was begun.         *)
Opened == phase = "split" /\ cur.count = 0 => chunks = <<>>

SplitInv == SplittingTypeOK /\ Chained /\ Budget /\ Reached /\ Opened /\ InOrder

(* A chunk put behind a chain, and a last chunk that grows.                *)
LEMMA ChainAppend ==
  ASSUME NEW s \in Seq(Chunk), NEW e \in Chunk, Chain(s), e.from = Held(s) + 1
  PROVE  Chain(Append(s, e)) /\ Held(Append(s, e)) = e.from + e.count - 1
<1> DEFINE t == Append(s, e)
<1>1. /\ t \in Seq(Chunk) /\ Len(t) = Len(s) + 1 /\ Len(s) \in Nat /\ t[Len(s) + 1] = e
      /\ \A i \in 1..Len(s) : t[i] = s[i] /\ s[i] \in Chunk
  OBVIOUS
<1>2. t # <<>>
  BY <1>1
<1> HIDE DEF t
<1>3. Held(t) = e.from + e.count - 1
  BY <1>1, <1>2 DEF Held
<1>4. ASSUME NEW i \in 1..Len(t)
      PROVE  t[i].from = (IF i = 1 THEN 1 ELSE t[i - 1].from + t[i - 1].count)
  <2>1. CASE i \in 1..Len(s)
    <3>1. i # 1 => i - 1 \in 1..Len(s)
      BY <1>1, <2>1
    <3> QED BY <1>1, <2>1, <3>1 DEF Chain
  <2>2. CASE i = Len(s) + 1
    <3>1. CASE Len(s) = 0
      BY <1>1, <2>2, <3>1 DEF Held
    <3>2. CASE Len(s) > 0
      <4>1. s # <<>> /\ i # 1 /\ t[i - 1] = s[Len(s)] /\ s[Len(s)] \in Chunk
        BY <1>1, <2>2, <3>2
      <4>2. Held(s) = s[Len(s)].from + s[Len(s)].count - 1
        BY <4>1 DEF Held
      <4>3. s[Len(s)].from \in Nat /\ s[Len(s)].count \in Nat /\ t[i] = e
        BY <1>1, <2>2, <4>1 DEF Chunk
      <4> QED BY <4>1, <4>2, <4>3
    <3> QED BY <1>1, <3>1, <3>2
  <2> QED BY <1>1, <2>1, <2>2
<1> QED BY <1>3, <1>4 DEF Chain, t

LEMMA ChainGrow ==
  ASSUME NEW s \in Seq(Chunk), NEW c \in Chunk, NEW e \in Chunk,
         Chain(Append(s, c)), e.from = c.from
  PROVE  Chain(Append(s, e)) /\ Held(Append(s, e)) = e.from + e.count - 1
<1> DEFINE t == Append(s, e)
           u == Append(s, c)
<1>1. /\ Len(t) = Len(s) + 1 /\ Len(u) = Len(s) + 1 /\ Len(s) \in Nat
      /\ t[Len(s) + 1] = e /\ u[Len(s) + 1] = c /\ t # <<>>
      /\ \A i \in 1..Len(s) : t[i] = s[i] /\ u[i] = s[i]
  OBVIOUS
<1> HIDE DEF t, u
<1>2. \A i \in 1..Len(t) : t[i].from = u[i].from /\ (i # 1 => i - 1 \in 1..Len(s))
  BY <1>1
<1>3. \A i \in 1..Len(t) : t[i].from = (IF i = 1 THEN 1 ELSE t[i - 1].from + t[i - 1].count)
  BY <1>1, <1>2 DEF Chain, u
<1>4. Held(t) = e.from + e.count - 1
  BY <1>1 DEF Held
<1> QED BY <1>3, <1>4 DEF Chain, t

(* What the two readings read.                                             *)
LEMMA InputTypes ==
  ASSUME SplittingTypeOK
  PROVE  /\ first \in Seq(Nat) /\ file \in Seq(Nat) /\ Sum(first) \in Nat
         /\ Len(file) \in Nat /\ Len(first) \in Nat
         /\ policy.requested \in Int /\ policy.workers \in Int
         /\ policy.target \in Nat \ {0} /\ policy.max \in Nat \ {0}
BY SplittingAssumption, SumIsNat DEF SplittingTypeOK

(* Reading one more line adds it to the entries if it yields one.          *)
LEMMA EntriesNext ==
  ASSUME NEW f \in Seq(Nat), NEW n \in 1..Len(f)
  PROVE  Entries(f, n) = IF f[n] > 0 THEN Entries(f, n - 1) + 1 ELSE Entries(f, n - 1)
<1> DEFINE E(m) == {i \in 1..m : f[i] > 0}
<1>1. IsFiniteSet(E(n - 1))
  <2>1. IsFiniteSet(1..(n - 1))
    BY FS_Interval
  <2> QED BY <2>1, FS_Subset
<1>2. CASE f[n] > 0
  <2>1. E(n) = E(n - 1) \union {n} /\ n \notin E(n - 1)
    BY <1>2
  <2> HIDE DEF E
  <2>2. Cardinality(E(n)) = Cardinality(E(n - 1)) + 1
    BY <1>1, <2>1, FS_AddElement
  <2> QED BY <1>2, <2>2 DEF E, Entries
<1>3. CASE ~(f[n] > 0)
  <2>1. E(n) = E(n - 1)
    BY <1>3
  <2> QED BY <1>3, <2>1 DEF Entries
<1> QED BY <1>2, <1>3

LEMMA EntriesNat ==
  ASSUME NEW f \in Seq(Nat), NEW n \in 0..Len(f)
  PROVE  Entries(f, n) \in Nat /\ Entries(f, 0) = 0
<1>1. IsFiniteSet(1..n)
  BY FS_Interval
<1>2. IsFiniteSet({i \in 1..n : f[i] > 0})
  BY <1>1, FS_Subset
<1>3. {i \in 1..0 : f[i] > 0} = {}
  OBVIOUS
<1> QED BY <1>2, <1>3, FS_CardinalityType, FS_EmptySet DEF Entries

(* There is at least one chunk, and no more than there are entries.        *)
LEMMA EffectiveBounds ==
  ASSUME SplittingTypeOK, NEW source \in Nat, NEW targets \in Nat \ {0}
  PROVE  EffectiveChunks(source, targets) \in 1..targets
<1>1. /\ policy.requested \in Int /\ policy.workers \in Int /\ policy.target \in Nat \ {0}
  BY InputTypes
<1>2. CeilDiv(source, policy.target) \in Int
  BY <1>1 DEF CeilDiv
<1> QED BY <1>1, <1>2 DEF EffectiveChunks, Smaller, Larger

(* A chunk that is begun comes after all there are.                        *)
LEMMA BeginChunk ==
  ASSUME SplittingTypeOK, NEW n \in Nat, n > 0,
         chunks' = IF cur.count > 0 THEN Append(chunks, cur) ELSE chunks,
         cur' = Begin(n)
  PROVE  All' = Append(All, Begin(n)) /\ All \in Seq(Chunk) /\ Begin(n) \in Chunk
<1>1. cur \in Chunk /\ chunks \in Seq(Chunk) /\ done \in Nat
  BY DEF SplittingTypeOK
<1>2. Begin(n) \in Chunk /\ Begin(n).count > 0
  BY <1>1 DEF Begin, Chunk
<1> QED BY <1>1, <1>2 DEF All

LEMMA InitInv == Init => SplitInv
<1> SUFFICES ASSUME Init PROVE SplitInv
  OBVIOUS
<1>1. SplittingTypeOK
  <2>1. file \in Seq(Nat)
    BY SplittingAssumption DEF Init
  <2> QED BY <2>1 DEF Init, SplittingTypeOK, NoMeta, NoChunk, Chunk
<1>2. All = <<>>
  BY DEF Init, All, NoChunk
<1>3. Chained
  BY <1>2 DEF Chained, Chain, Held, Init
<1>4. Budget
  BY <1>2 DEF Budget, Init, NoMeta
<1>5. Reached
  BY <1>1, InputTypes, EntriesNat DEF Reached, Init
<1>6. Opened /\ InOrder
  <2>1. stored = 1..0 /\ 0 \in 0..Len(chunks)
    BY DEF Init
  <2> QED BY <2>1 DEF Opened, InOrder, Init
<1> QED BY <1>1, <1>3, <1>4, <1>5, <1>6 DEF SplitInv

LEMMA StutterInv == SplitInv /\ UNCHANGED vars => SplitInv'
BY DEF vars, input, SplitInv, SplittingTypeOK, Chained, Budget, Reached, Opened, InOrder, All, NoChunk, NoMeta

(* A step that fails keeps everything but the phase.                       *)
LEMMA FailInv ==
  ASSUME SplitInv, Fail
  PROVE  SplitInv'
BY DEF SplitInv, SplittingTypeOK, Chained, Budget, Reached, Opened, InOrder, All, Fail, input, NoChunk, NoMeta

LEMMA InspectInv ==
  ASSUME SplitInv, Inspect
  PROVE  SplitInv'
<1> DEFINE source == SourceBytes(first)
           targets == Entries(first, Len(first))
           effective == EffectiveChunks(source, targets)
<1>1. CASE Fail
  BY <1>1, FailInv
<1>2. CASE /\ targets > 0 /\ phase = "inspect" /\ phase' = "split"
           /\ meta' = [targets |-> targets, effective |-> effective,
                       share |-> Larger(1, CeilDiv(Sum(first), effective))]
           /\ UNCHANGED <<input, pos, done, cur, chunks, stored>>
  <2>1. first \in Seq(Nat) /\ file \in Seq(Nat) /\ Sum(first) \in Nat /\ Len(first) \in Nat
    BY InputTypes DEF SplitInv
  <2>2. targets \in Nat \ {0}
    BY <1>2, <2>1, EntriesNat
  <2>3. targets <= Len(first)
    <3>1. IsFiniteSet(1..Len(first)) /\ Cardinality(1..Len(first)) = Len(first)
      <4>1. \A k \in Nat : IsFiniteSet(1..k) /\ Cardinality(1..k) = IF 1 > k THEN 0 ELSE k - 1 + 1
        BY FS_Interval
      <4> QED BY <2>1, <4>1
    <3> QED BY <3>1, FS_Subset DEF Entries
  <2>4. source \in Nat
    BY <2>1, <2>2, <2>3 DEF SourceBytes
  <2>5. effective \in 1..targets
    BY <2>2, <2>4, EffectiveBounds DEF SplitInv
  <2>6. CeilDiv(Sum(first), effective) \in Int
    BY <2>1, <2>2, <2>5 DEF CeilDiv
  <2>7. Larger(1, CeilDiv(Sum(first), effective)) \in Nat
    BY <2>6 DEF Larger
  <2> HIDE DEF targets, effective, source
  <2>8. meta' \in [targets : Nat, share : Nat, effective : Nat]
    BY <1>2, <2>2, <2>5, <2>7
  <2>9. SplittingTypeOK'
    BY <1>2, <2>8 DEF SplitInv, SplittingTypeOK, input
  <2>10. chunks = <<>> /\ cur = NoChunk /\ All = <<>> /\ All' = <<>> /\ pos = 1
    BY <1>2 DEF SplitInv, Reached, All, NoChunk
  <2>11. done = 0
    BY <2>10 DEF SplitInv, Chained, Held
  <2>12. Chained'
    BY <1>2, <2>10, <2>11 DEF Chained, Chain, Held
  <2>13. Budget'
    BY <1>2, <2>2, <2>5, <2>10, <2>11 DEF Budget, input, targets
  <2>14. Reached'
    BY <1>2 DEF SplitInv, Reached, input
  <2>15. Opened' /\ InOrder'
    BY <1>2, <2>10 DEF SplitInv, Opened, InOrder
  <2> QED BY <2>9, <2>12, <2>13, <2>14, <2>15 DEF SplitInv
<1> QED BY <1>1, <1>2 DEF Inspect

LEMMA SkipLineInv ==
  ASSUME SplitInv, SkipLine
  PROVE  SplitInv'
<1>1. file \in Seq(Nat) /\ Len(file) \in Nat /\ pos \in 1..Len(file)
  BY InputTypes DEF SplitInv, SplittingTypeOK, SkipLine
<1>2. Entries(file, pos) = Entries(file, pos - 1)
  BY <1>1, EntriesNext DEF SkipLine
<1>3. SplittingTypeOK' /\ Opened' /\ InOrder'
  BY <1>1 DEF SplitInv, SplittingTypeOK, Opened, InOrder, SkipLine, input
<1>5. All' = All
  BY DEF All, SkipLine
<1>6. Chained' /\ Budget'
  BY <1>5 DEF SplitInv, Chained, Budget, SkipLine, input
<1>4. Reached'
  BY <1>1, <1>2 DEF SplitInv, SplittingTypeOK, Reached, SkipLine, input, NoChunk, NoMeta
<1> QED BY <1>3, <1>4, <1>6 DEF SplitInv

LEMMA WriteEntryInv ==
  ASSUME SplitInv, WriteEntry
  PROVE  SplitInv'
<1> DEFINE n == file[pos]
<1>0. /\ file \in Seq(Nat) /\ Len(file) \in Nat /\ pos \in 1..Len(file) /\ n \in Nat /\ n > 0
      /\ phase = "split" /\ policy.max \in Nat
  <2>1. /\ phase = "split" /\ pos <= Len(file) /\ file[pos] > 0
    BY DEF WriteEntry
  <2>2. SplittingTypeOK /\ pos \in 1..Len(file) + 1
    BY DEF SplitInv, SplittingTypeOK
  <2> QED BY <2>1, <2>2, InputTypes
<1>1. CASE Fail
  BY <1>1, FailInv
<1>2. ASSUME Fits(n), pos' = pos + 1, done' = done + 1, UNCHANGED <<input, phase, meta, stored>>,
             IF cur.count > 0 /\ ~Cut(n)
             THEN /\ cur' = [cur EXCEPT !.count = @ + 1, !.bytes = @ + n]
                  /\ UNCHANGED chunks
             ELSE /\ cur' = Begin(n)
                  /\ chunks' = IF cur.count > 0 THEN Append(chunks, cur) ELSE chunks
      PROVE  SplitInv'
  <2>1. Reached'
    <3>1. Entries(file, pos) = Entries(file, pos - 1) + 1
      BY <1>0, EntriesNext
    <3> QED BY SMTT(30), <1>0, <1>2, <3>1 DEF SplitInv, SplittingTypeOK, Reached, input
  <2>2. CASE cur.count > 0 /\ ~Cut(n)
    <3>1. /\ cur \in Chunk /\ chunks \in Seq(Chunk) /\ done \in Nat
          /\ meta.effective \in Nat /\ meta.targets \in Nat /\ Len(chunks) \in Nat
      BY DEF SplitInv, SplittingTypeOK
    <3>2. /\ cur' \in Chunk /\ cur'.count = cur.count + 1 /\ cur'.bytes = cur.bytes + n
          /\ cur'.from = cur.from /\ chunks' = chunks
      <4>1. cur' = [cur EXCEPT !.count = cur.count + 1, !.bytes = cur.bytes + n]
        BY <1>2, <2>2
      <4>2. chunks' = chunks
        BY <1>2, <2>2
      <4>3. n \in Nat
        BY <1>0
      <4> HIDE DEF n
      <4>4. cur = [from |-> cur.from, count |-> cur.count, bytes |-> cur.bytes]
            /\ {cur.from, cur.count, cur.bytes} \subseteq Nat
        BY <3>1 DEF Chunk
      <4>5. cur' = [from |-> cur.from, count |-> cur.count + 1, bytes |-> cur.bytes + n]
        BY <4>1, <4>4
      <4> QED BY <4>2, <4>3, <4>4, <4>5 DEF Chunk
    <3>3. All = Append(chunks, cur) /\ All' = Append(chunks, cur')
      BY <2>2, <3>1, <3>2 DEF All, Chunk
    <3>4. SplittingTypeOK'
      <4>1. UNCHANGED <<first, file, policy, phase, meta, chunks, stored>>
        BY <1>2, <3>2 DEF input
      <4>2. pos' \in 1..Len(file) + 1 /\ done' \in Nat
        BY SMTT(30), <1>0, <1>2, <3>1
      <4> QED BY <3>2, <4>1, <4>2 DEF SplitInv, SplittingTypeOK
    <3>5. Chained'
      <4>1. Chain(All') /\ Held(All') = cur'.from + cur'.count - 1
        BY <3>1, <3>2, <3>3, ChainGrow DEF SplitInv, Chained
      <4>2. done = cur.from + cur.count - 1
        BY <3>1, <3>3 DEF SplitInv, Chained, Held
      <4>3. done' = done + 1 /\ {cur.from, cur.count, done} \subseteq Nat
        BY <1>2, <3>1 DEF Chunk
      <4> QED BY <3>2, <4>1, <4>2, <4>3 DEF Chained
    <3>6. Budget'
      <4>1. cur.bytes + n <= policy.max
        BY SMTT(30), <1>0, <2>2, <3>1 DEF Cut, Chunk
      <4>2. ~(Future > 0) \/ ~(meta.targets - done <= Future)
        BY <2>2 DEF Cut
      <4>3. \A i \in 1..Len(All') : All'[i].count > 0 /\ All'[i].bytes <= policy.max
        <5>1. \A i \in 1..Len(chunks) : All[i] = chunks[i] /\ All'[i] = chunks[i]
          BY <3>1, <3>2, <3>3
        <5>2. /\ Len(All') = Len(chunks) + 1 /\ All'[Len(chunks) + 1] = cur'
              /\ Len(All) = Len(chunks) + 1 
          BY <3>1, <3>2, <3>3
        <5>3. cur'.count > 0 /\ cur'.bytes <= policy.max
          BY <2>2, <3>1, <3>2, <4>1 DEF Chunk
        <5>4. \A i \in 1..Len(All) : All[i].count > 0 /\ All[i].bytes <= policy.max
          BY DEF SplitInv, Budget
        <5> QED BY <3>1, <5>1, <5>2, <5>3, <5>4
      <4>4. Len(All') = Len(chunks) + 1 /\ Len(All') = Len(All)
        BY <3>1, <3>2, <3>3
      <4>5. policy' = policy /\ meta' = meta /\ phase' = phase /\ first' = first /\ file' = file
        BY <1>2 DEF input
      <4>6. /\ meta.effective > 0 /\ Len(All) <= meta.effective
            /\ Len(All) >= meta.effective \/ Len(All) + meta.targets - done >= meta.effective
            /\ file = first => meta.targets = Entries(first, Len(first))
        BY <1>0 DEF SplitInv, Budget
      <4>7. Len(All') >= meta.effective \/ Len(All') + meta.targets - (done + 1) >= meta.effective
        BY <3>1, <4>2, <4>4 DEF Future
      <4> QED BY <1>2, <4>3, <4>4, <4>5, <4>6, <4>7 DEF Budget
    <3>7. Opened' /\ InOrder'
      BY <1>2, <2>2, <3>1, <3>2 DEF SplitInv, Opened, InOrder, Chunk
    <3> QED BY <2>1, <3>4, <3>5, <3>6, <3>7 DEF SplitInv
  <2>3. CASE ~(cur.count > 0 /\ ~Cut(n))
    <3>0. SplittingTypeOK
      BY DEF SplitInv
    <3>1. /\ cur' = Begin(n)
          /\ chunks' = IF cur.count > 0 THEN Append(chunks, cur) ELSE chunks
      BY <1>2, <2>3
    <3>2. All' = Append(All, Begin(n)) /\ All \in Seq(Chunk) /\ Begin(n) \in Chunk
      BY <1>0, <3>0, <3>1, BeginChunk
    <3>3. /\ cur \in Chunk /\ chunks \in Seq(Chunk) /\ done \in Nat /\ Len(chunks) \in Nat
          /\ meta.effective \in Nat /\ meta.targets \in Nat
      BY DEF SplitInv, SplittingTypeOK
    <3>4. SplittingTypeOK'
      <4>1. chunks' \in Seq(Chunk) /\ Len(chunks') \in Nat /\ Len(chunks') >= Len(chunks)
        BY <3>1, <3>3
      <4>3. stored' \subseteq 1..Len(chunks')
        BY <1>0, <1>2 DEF SplitInv, Reached
      <4>4. pos' \in 1..Len(file) + 1 /\ done' \in Nat /\ cur' \in Chunk
        <5>1. pos' \in 1..Len(file) + 1 /\ done' \in Nat
          BY SMTT(30), <1>0, <1>2, <3>3
        <5>2. cur' \in Chunk
          BY <3>1, <3>2
        <5> QED BY <5>1, <5>2
      <4>5. UNCHANGED <<first, file, policy, phase, meta>>
        BY <1>2 DEF input
      <4> QED BY <3>0, <4>1, <4>3, <4>4, <4>5 DEF SplittingTypeOK
    <3>5. Chained'
      <4>1. Chain(All) /\ done = Held(All)
        BY DEF SplitInv, Chained
      <4>2. Begin(n).from = done + 1 /\ Begin(n).count = 1
        BY DEF Begin
      <4>3. Chain(All') /\ Held(All') = Begin(n).from + Begin(n).count - 1
        BY <3>2, <4>1, <4>2, ChainAppend
      <4> QED BY <1>2, <3>3, <4>2, <4>3 DEF Chained
    <3>6. Budget'
      <4>1. Len(All) \in Nat /\ Len(All') = Len(All) + 1
        BY <3>2
      <4>2. n <= policy.max
        BY <1>2 DEF Fits
      <4>3. \A i \in 1..Len(All') : All'[i].count > 0 /\ All'[i].bytes <= policy.max
        <5>1. \A i \in 1..Len(All) : All'[i] = All[i]
          BY <3>2
        <5>2. All'[Len(All) + 1] = Begin(n)
          BY <3>2
        <5>3. Begin(n).count > 0 /\ Begin(n).bytes <= policy.max
          BY <4>2 DEF Begin
        <5>4. \A i \in 1..Len(All) : All[i].count > 0 /\ All[i].bytes <= policy.max
          BY DEF SplitInv, Budget
        <5> QED BY <4>1, <5>1, <5>2, <5>3, <5>4
      <4>4. Len(All') <= meta.effective
        <5>1. CASE cur.count > 0
          <6>1. Future > 0
            BY <1>2, <2>3, <5>1 DEF Fits, Cut
          <6>2. Len(All) = Len(chunks) + 1
            BY <3>3, <5>1 DEF All
          <6> QED BY <3>3, <4>1, <6>1, <6>2 DEF Future
        <5>2. CASE ~(cur.count > 0)
          <6>1. Len(All) = 0
            BY <1>0, <3>3, <5>2 DEF SplitInv, Opened, All, Chunk
          <6> QED BY <1>0, <3>3, <4>1, <6>1 DEF SplitInv, Budget
        <5> QED BY <5>1, <5>2
      <4>5. policy' = policy /\ meta' = meta /\ phase' = phase /\ first' = first /\ file' = file
        BY <1>2 DEF input
      <4>6. /\ meta.effective > 0
            /\ Len(All) >= meta.effective \/ Len(All) + meta.targets - done >= meta.effective
            /\ file = first => meta.targets = Entries(first, Len(first))
        BY <1>0 DEF SplitInv, Budget
      <4>7. Len(All') >= meta.effective \/ Len(All') + meta.targets - (done + 1) >= meta.effective
        BY <3>3, <4>1, <4>6
      <4> QED BY <1>2, <4>3, <4>4, <4>5, <4>6, <4>7 DEF Budget
    <3>7. Opened' /\ InOrder'
      <4>1. stored' = {} /\ Len(chunks') \in Nat
        <5>1. stored = {}
          BY <1>0 DEF SplitInv, Reached
        <5>2. Len(chunks') \in Nat
          BY <3>4 DEF SplittingTypeOK
        <5> QED BY <1>2, <5>1, <5>2
      <4>2. stored' = 1..0 /\ 0 \in 0..Len(chunks')
        BY <4>1
      <4> QED BY <3>1, <4>2 DEF Opened, InOrder, Begin
    <3> QED BY <2>1, <3>4, <3>5, <3>6, <3>7 DEF SplitInv
  <2> QED BY <2>2, <2>3
<1> QED BY <1>1, <1>2 DEF WriteEntry

LEMMA FinishInv ==
  ASSUME SplitInv, Finish
  PROVE  SplitInv'
<1>0. /\ cur \in Chunk /\ chunks \in Seq(Chunk) /\ Len(file) \in Nat
      /\ pos = Len(file) + 1 /\ phase = "split"
  BY SMTT(30), InputTypes DEF SplitInv, SplittingTypeOK, Finish
<1>1. CASE Fail
  BY <1>1, FailInv
<1>2. ASSUME chunks' = (IF cur.count > 0 THEN Append(chunks, cur) ELSE chunks),
             cur' = NoChunk, phase' = "upload",
             UNCHANGED <<input, meta, pos, done, stored>>
      PROVE  SplitInv'
  <2>1. All' = All /\ chunks' \in Seq(Chunk) /\ Len(chunks') >= Len(chunks) /\ cur' \in Chunk
    <3>1. cur' \in Chunk /\ ~(cur'.count > 0)
      BY <1>2 DEF NoChunk, Chunk
    <3>2. chunks' \in Seq(Chunk) /\ Len(chunks') >= Len(chunks)
      BY <1>0, <1>2
    <3> QED BY <1>2, <3>1, <3>2 DEF All
  <2>2. SplittingTypeOK'
    BY <1>0, <1>2, <2>1 DEF SplitInv, SplittingTypeOK, input
  <2>3. Chained' /\ Budget'
    BY <1>0, <1>2, <2>1 DEF SplitInv, Chained, Budget, input
  <2>4. Reached' /\ Opened'
    BY <1>0, <1>2 DEF SplitInv, Reached, Opened, input
  <2>5. InOrder'
    <3>1. stored' = {} /\ Len(chunks') \in Nat
      BY <1>0, <1>2, <2>1 DEF SplitInv, Reached
    <3>2. stored' = 1..0 /\ 0 \in 0..Len(chunks')
      BY <3>1
    <3> QED BY <3>2 DEF InOrder
  <2> QED BY <2>2, <2>3, <2>4, <2>5 DEF SplitInv
<1> QED BY <1>1, <1>2 DEF Finish

LEMMA UploadInv ==
  ASSUME SplitInv, UploadChunk \/ MakeTasks
  PROVE  SplitInv'
<1>1. CASE Fail
  BY <1>1, FailInv
<1>0. PICK k \in 0..Len(chunks) : stored = 1..k
  BY DEF SplitInv, InOrder
<1>4. Len(chunks) \in Nat
  BY DEF SplitInv, SplittingTypeOK
<1>2. CASE /\ phase = "upload" /\ \E i \in NextChunks : stored' = stored \union {i}
           /\ UNCHANGED <<input, phase, meta, pos, done, cur, chunks>>
  <2>1. PICK i \in NextChunks : stored' = stored \union {i}
    BY <1>2
  <2>2. i = k + 1 /\ i \in 1..Len(chunks)
    <3>1. i \in 1..Len(chunks) /\ i \notin stored /\ \A m \in 1..i - 1 : m \in stored
      BY DEF NextChunks
    <3>2. ~(i <= k)
      BY <1>0, <1>4, <3>1
    <3>3. ~(i > k + 1)
      <4>1. i > k + 1 => k + 1 \in 1..i - 1
        BY <1>4, <3>1
      <4> QED BY <1>0, <1>4, <3>1, <4>1
    <3> QED BY <1>4, <3>1, <3>2, <3>3
  <2>3. stored' = 1..(k + 1) /\ k + 1 \in 0..Len(chunks)
    BY <1>0, <1>4, <2>1, <2>2
  <2>4. InOrder'
    BY <1>2, <2>3 DEF InOrder
  <2>5. SplittingTypeOK'
    <3>1. stored' \subseteq 1..Len(chunks)
      BY <1>4, <2>3
    <3> QED BY <1>2, <3>1 DEF SplitInv, SplittingTypeOK, input
  <2>6. Chained' /\ Budget' /\ Opened'
    BY <1>2 DEF SplitInv, Chained, Budget, Opened, All, input
  <2>7. Reached'
    BY <1>2 DEF SplitInv, Reached, input
  <2> QED BY <2>4, <2>5, <2>6, <2>7 DEF SplitInv
<1>3. CASE MakeTasks
  <2>1. stored = 1..Len(chunks)
    <3>1. k < Len(chunks) => k + 1 \in NextChunks
      BY <1>0, <1>4 DEF NextChunks
    <3> QED BY <1>0, <1>3, <1>4, <3>1 DEF MakeTasks
  <2>2. SplittingTypeOK' /\ Chained' /\ Budget' /\ Opened'
    BY <1>3 DEF MakeTasks, SplitInv, SplittingTypeOK, Chained, Budget, Opened, All, input
  <2>3. Reached' /\ InOrder'
    BY <1>3, <2>1 DEF MakeTasks, SplitInv, Reached, InOrder, input, NoChunk
  <2> QED BY <2>2, <2>3 DEF SplitInv
<1> QED BY <1>1, <1>2, <1>3 DEF UploadChunk

LEMMA NextInv == SplitInv /\ [Next]_vars => SplitInv'
BY StutterInv, InspectInv, SkipLineInv, WriteEntryInv, FinishInv, UploadInv DEF Next

(* The inductive invariant of the splitters.                               *)
THEOREM SplittingInvariant == Spec => []SplitInv
<1>1. Init => SplitInv
  BY InitInv
<1>2. SplitInv /\ [Next]_vars => SplitInv'
  BY NextInv
<1> QED BY <1>1, <1>2, PTL DEF Spec

(* A job planned from target lines has no chunks, and no step makes one.   *)
Idle ==
  /\ phase = "ready" /\ first = <<>> /\ file = <<>> /\ meta = NoMeta
  /\ done = 0 /\ cur = NoChunk /\ chunks = <<>> /\ stored = {}

LEMMA IdleStays == ASSUME Idle, [Next]_vars PROVE Idle'
BY DEF Idle, Next, vars, Inspect, SkipLine, WriteEntry, Finish, UploadChunk, MakeTasks

LEMMA ChunkInvariant == Spec \/ PlanSpec => [](SplitInv \/ Idle)
<1> DEFINE J == SplitInv \/ Idle
<1>1. Init \/ PlanInit => J
  <2>1. LinesInit => Idle
    BY DEF LinesInit, Idle
  <2> QED BY <2>1, InitInv DEF PlanInit
<1>2. J /\ [Next]_vars => J'
  BY NextInv, IdleStays
<1>3. [PlanNext]_<<vars, lineVars>> => [Next]_vars
  BY DEF PlanNext, Chunking, PlanLine, Next
<1> QED BY <1>1, <1>2, <1>3, PTL DEF Spec, PlanSpec

(* Nothing is lost, repeated or out of order at a chunk boundary.          *)
THEOREM EntriesAreKept == Spec \/ PlanSpec => []EntriesKept
<1>1. SplitInv => EntriesKept
  BY Zenon DEF SplitInv, Chained, Chain, Held, EntriesKept
<1>2. Idle => EntriesKept
  <2>1. Idle => All = <<>> /\ done = 0
    BY DEF Idle, All, NoChunk
  <2> QED BY <2>1 DEF EntriesKept
<1> QED BY <1>1, <1>2, ChunkInvariant, PTL

(* No chunk is empty or too large and there are as many as planned.        *)
THEOREM ChunksAreAsPlanned == Spec \/ PlanSpec => []ChunksAsPlanned
<1>1. SplitInv => ChunksAsPlanned
  <2> SUFFICES ASSUME SplitInv PROVE ChunksAsPlanned
    OBVIOUS
  <2>1. ASSUME phase \in {"upload", "ready"}, file = first
        PROVE  Len(chunks) = meta.effective
    <3>1. /\ done = Entries(file, pos - 1) /\ pos = Len(file) + 1 /\ cur = NoChunk
      BY <2>1 DEF SplitInv, Reached
    <3>2. Len(file) \in Nat
      BY InputTypes DEF SplitInv
    <3>3. All = chunks
      BY <3>1 DEF All, NoChunk
    <3>4. /\ Len(All) <= meta.effective
          /\ Len(All) >= meta.effective \/ Len(All) + meta.targets - done >= meta.effective
          /\ meta.targets = Entries(first, Len(first))
      BY <2>1 DEF SplitInv, Budget
    <3>5. meta.targets = done /\ done \in Nat
      BY <2>1, <3>1, <3>2, <3>4 DEF SplitInv, SplittingTypeOK
    <3>6. Len(chunks) \in Nat /\ meta.effective \in Nat
      BY DEF SplitInv, SplittingTypeOK
    <3> QED BY <3>3, <3>4, <3>5, <3>6
  <2> QED BY <2>1 DEF SplitInv, Budget, ChunksAsPlanned
<1>2. Idle => ChunksAsPlanned
  <2>1. Idle => All = <<>> /\ Len(chunks) = 0 /\ meta.effective = 0
    BY DEF Idle, All, NoChunk, NoMeta
  <2> QED BY <2>1 DEF ChunksAsPlanned
<1> QED BY <1>1, <1>2, ChunkInvariant, PTL

(* Tasks are made only when every entry of the file is in a stored chunk.  *)
THEOREM TasksGetInput == Spec \/ PlanSpec => []TasksHaveInput
<1>1. SplitInv => TasksHaveInput
  <2> SUFFICES ASSUME SplitInv, phase = "ready"
               PROVE  stored = 1..Len(chunks) /\ done = Entries(file, Len(file))
    BY DEF TasksHaveInput
  <2>1. Len(file) \in Nat
    BY InputTypes DEF SplitInv
  <2> QED BY <2>1 DEF SplitInv, Reached
<1>2. Idle => TasksHaveInput
  <2> SUFFICES ASSUME Idle PROVE TasksHaveInput
    OBVIOUS
  <2>1. Entries(file, 0) = 0 /\ Len(file) = 0
    <3>1. file = <<>> /\ file \in Seq(Nat) /\ Len(file) = 0
      BY DEF Idle
    <3>2. 0 \in 0..Len(file)
      BY <3>1
    <3> QED BY <3>1, <3>2, EntriesNat
  <2> QED BY <2>1 DEF Idle, TasksHaveInput
<1> QED BY <1>1, <1>2, ChunkInvariant, PTL

-----------------------------------------------------------------------------
(* Sequences of ports, in order and once each.                             *)
Increasing(s) == \A i, j \in 1..Len(s) : i < j => s[i] < s[j]
Values(s) == {s[i] : i \in 1..Len(s)}
Sorted(s, S) == s \in Seq(Nat) /\ Increasing(s) /\ Values(s) = S

(* A greater port at the end.                                              *)
LEMMA SortedAppend ==
  ASSUME NEW s, NEW S, Sorted(s, S), NEW p \in Nat, \A q \in S : q < p
  PROVE  Sorted(Append(s, p), S \union {p})
<1> DEFINE t == Append(s, p)
<1>1. /\ t \in Seq(Nat) /\ Len(t) = Len(s) + 1 /\ Len(s) \in Nat /\ t[Len(s) + 1] = p
      /\ \A i \in 1..Len(s) : t[i] = s[i] /\ s[i] \in Nat /\ s[i] \in S
  BY DEF Sorted, Values
<1> HIDE DEF t
<1>2. Increasing(t)
  <2>1. ASSUME NEW i \in 1..Len(t), NEW j \in 1..Len(t), i < j
        PROVE  t[i] < t[j]
    <3>1. i \in 1..Len(s) /\ (j \in 1..Len(s) \/ j = Len(s) + 1)
      <4>1. Len(t) = Len(s) + 1 /\ Len(s) \in Nat
        BY <1>1
      <4> QED BY <2>1, <4>1
    <3>2. CASE j \in 1..Len(s)
      <4>1. s[i] < s[j]
        BY <2>1, <3>1, <3>2 DEF Sorted, Increasing
      <4> QED BY <1>1, <3>1, <3>2, <4>1
    <3>3. CASE j = Len(s) + 1
      BY <1>1, <3>1, <3>3
    <3> QED BY <3>1, <3>2, <3>3
  <2> QED BY <2>1 DEF Increasing
<1>3. Values(t) = S \union {p}
  <2>1. \A i \in 1..Len(t) : i \in 1..Len(s) \/ i = Len(s) + 1
    BY <1>1
  <2>2. \A x \in S : \E i \in 1..Len(s) : x = s[i]
    BY DEF Sorted, Values
  <2>3. \A x \in S : x \in Values(t)
    BY <1>1, <2>2 DEF Values
  <2>4. p \in Values(t)
    BY <1>1 DEF Values
  <2>5. \A x \in Values(t) : x \in S \/ x = p
    BY <1>1, <2>1 DEF Values
  <2> QED BY <2>3, <2>4, <2>5
<1> QED BY <1>1, <1>2, <1>3 DEF Sorted, t

(* The ports of a valid specification, in order and once each.             *)
LEMMA ParsedPorts ==
  ASSUME NEW spec, PortsOf(spec) \subseteq 1..MaxPort
  PROVE  Sorted(ParsePortSpec(spec), PortsOf(spec))
<1> DEFINE Add(s, p) == IF p \in PortsOf(spec) THEN Append(s, p) ELSE s
           sorted[p \in 0..MaxPort] == IF p = 0 THEN <<>> ELSE Add(sorted[p - 1], p)
           step == [p \in 1..MaxPort |-> [s \in Seq(Nat) |-> Add(s, p)]]
<1>0. MaxPort \in Nat
  BY PlanningAssumption
<1>1. ParsePortSpec(spec) = sorted[MaxPort]
  BY DEF ParsePortSpec
<1>2. \A p \in 1..MaxPort, s \in Seq(Nat) : Add(s, p) \in Seq(Nat)
  BY <1>0
<1>b. <<>> \in Seq(Nat)
  OBVIOUS
<1> HIDE DEF Add
<1>3. PICK t \in [0..MaxPort -> Seq(Nat)] : Computes(t, <<>>, step, MaxPort)
  <2>1. step \in [1..MaxPort -> [Seq(Nat) -> Seq(Nat)]]
    BY <1>2
  <2> HIDE DEF step
  <2> QED BY <1>0, <1>b, <2>1, Recursion, Zenon
<1>4. t = [p \in 0..MaxPort |-> IF p = 0 THEN <<>> ELSE Add(t[p - 1], p)]
  <2>1. t[0] = <<>>
    BY <1>3 DEF Computes
  <2>2. ASSUME NEW p \in 1..MaxPort
        PROVE  t[p] = Add(t[p - 1], p)
    <3>1. t[p - 1] \in Seq(Nat)
      BY <1>0
    <3>2. t[p] = step[p][t[p - 1]]
      BY <1>3 DEF Computes
    <3> QED BY <3>1, <3>2
  <2> QED BY <1>0, <2>1, <2>2
<1>5. sorted = [p \in 0..MaxPort |-> IF p = 0 THEN <<>> ELSE Add(sorted[p - 1], p)]
  BY <1>4, Zenon
<1> DEFINE J == {p \in 0..MaxPort : Sorted(sorted[p], PortsOf(spec) \cap 1..p)}
<1> HIDE DEF sorted
<1>6. 0 \in J
  <2>1. sorted[0] = <<>>
    BY <1>0, <1>5
  <2>2. PortsOf(spec) \cap 1..0 = {}
    OBVIOUS
  <2>3. Sorted(<<>>, {})
    BY DEF Sorted, Increasing, Values
  <2> QED BY <1>0, <2>1, <2>2, <2>3
<1>7. ASSUME NEW p \in 1..MaxPort, p - 1 \in J
      PROVE  p \in J
  <2>1. Sorted(sorted[p - 1], PortsOf(spec) \cap 1..(p - 1))
    BY <1>7
  <2>2. sorted[p] = Add(sorted[p - 1], p)
    BY <1>0, <1>5
  <2>3. CASE p \in PortsOf(spec)
    <3>1. PortsOf(spec) \cap 1..p = (PortsOf(spec) \cap 1..(p - 1)) \union {p}
      BY <1>0, <2>3
    <3>2. \A q \in PortsOf(spec) \cap 1..(p - 1) : q < p
      BY <1>0
    <3>3. sorted[p] = Append(sorted[p - 1], p) /\ p \in Nat
      BY <1>0, <2>2, <2>3 DEF Add
    <3>4. Sorted(sorted[p], PortsOf(spec) \cap 1..p)
      BY <2>1, <3>1, <3>2, <3>3, SortedAppend
    <3> QED BY <1>0, <3>4
  <2>4. CASE p \notin PortsOf(spec)
    <3>1. PortsOf(spec) \cap 1..p = PortsOf(spec) \cap 1..(p - 1)
      BY <1>0, <2>4
    <3>2. sorted[p] = sorted[p - 1]
      BY <2>2, <2>4 DEF Add
    <3>3. Sorted(sorted[p], PortsOf(spec) \cap 1..p)
      BY <2>1, <3>1, <3>2
    <3> QED BY <1>0, <3>3
  <2> QED BY <2>3, <2>4
<1>8. Sorted(sorted[MaxPort], PortsOf(spec) \cap 1..MaxPort)
  <2>1. \A p \in 1..MaxPort : p - 1 \in J => p \in J
    BY <1>7
  <2> HIDE DEF J
  <2>2. \A p \in 0..MaxPort : p \in J
    BY <1>0, <1>6, <2>1, Induction, Zenon
  <2>3. MaxPort \in J
    BY <1>0, <2>2
  <2> QED BY <2>3, Zenon DEF J
<1>9. PortsOf(spec) \cap 1..MaxPort = PortsOf(spec)
  OBVIOUS
<1> QED BY <1>1, <1>8, <1>9

(* A port that is written becomes a port of the specification, and no other. *)
Last(spec) == spec[Len(spec)]
Writable(spec) == spec \in PortSpec /\ (spec # <<>> => Last(spec).lo <= Last(spec).hi)

LEMMA PortWritten ==
  ASSUME NEW spec, Writable(spec), NEW port \in Int
  PROVE  LET new == WritePort(spec, port)
         IN Writable(new) /\ PortsOf(new) = PortsOf(spec) \union {port}
<1> DEFINE new == WritePort(spec, port)
           n == Len(spec)
           R == [lo : Int, hi : Int]
<1>b. spec \in Seq(R)
  BY DEF Writable, PortSpec
<1>0. /\ spec \in Seq(R) /\ n \in Nat /\ \A i \in 1..n : spec[i] \in R
  <2> HIDE DEF R
  <2> QED BY <1>b
<1>1. CASE spec # NoSpec /\ Neighbours(spec[n].hi, port)
  <2>1. new = [spec EXCEPT ![n].hi = port]
    BY <1>1 DEF WritePort
  <2>2. n \in 1..n /\ spec[n].lo <= spec[n].hi /\ port = spec[n].hi + 1
    BY <1>0, <1>1 DEF Writable, Last, Neighbours, NoSpec
  <2>3. [spec[n] EXCEPT !.hi = port] \in R
    BY <1>0, <2>2
  <2>4. new = [spec EXCEPT ![n] = [spec[n] EXCEPT !.hi = port]]
    BY <2>1
  <2>5. /\ new \in Seq(R) /\ Len(new) = n
        /\ \A i \in 1..n : new[i] = IF i = n THEN [spec[n] EXCEPT !.hi = port] ELSE spec[i]
    <3> HIDE DEF new, R
    <3> QED BY <1>0, <2>2, <2>3, <2>4
  <2>6. new[n].lo = spec[n].lo /\ new[n].hi = port
    BY <1>0, <2>2, <2>5
  <2> HIDE DEF new
  <2>7. Writable(new)
    <3>1. new \in PortSpec
      BY <2>5 DEF PortSpec
    <3>2. Last(new).lo <= Last(new).hi
      <4>1. spec[n].lo \in Int /\ spec[n].hi \in Int
        BY <1>0, <2>2
      <4> QED BY <2>2, <2>5, <2>6, <4>1 DEF Last
    <3> QED BY <3>1, <3>2 DEF Writable
  <2>8. new[n].lo..new[n].hi = (spec[n].lo..spec[n].hi) \union {port}
    BY <1>0, <2>2, <2>6
  <2>9. PortsOf(new) = PortsOf(spec) \union {port}
    <3>1. ASSUME NEW p \in PortsOf(new) PROVE p \in PortsOf(spec) \union {port}
      <4>1. PICK i \in 1..n : p \in new[i].lo..new[i].hi
        BY <2>5 DEF PortsOf
      <4>2. CASE i = n
        <5>1. p \in spec[n].lo..spec[n].hi \/ p = port
          BY <2>8, <4>1, <4>2
        <5> QED BY <2>2, <5>1 DEF PortsOf
      <4>3. CASE i # n
        <5>1. p \in spec[i].lo..spec[i].hi
          BY <2>5, <4>1, <4>3
        <5> QED BY <5>1 DEF PortsOf
      <4> QED BY <4>2, <4>3
    <3>2. ASSUME NEW p \in PortsOf(spec) PROVE p \in PortsOf(new)
      <4>1. PICK i \in 1..n : p \in spec[i].lo..spec[i].hi
        BY DEF PortsOf
      <4>2. p \in new[i].lo..new[i].hi
        BY <2>5, <2>8, <4>1
      <4> QED BY <2>5, <4>2 DEF PortsOf
    <3>3. port \in PortsOf(new)
      BY <2>2, <2>5, <2>8 DEF PortsOf
    <3> QED BY <3>1, <3>2, <3>3
  <2> QED BY <2>7, <2>9, Zenon DEF new
<1>2. CASE ~(spec # NoSpec /\ Neighbours(spec[n].hi, port))
  <2> DEFINE r == [lo |-> port, hi |-> port]
  <2>1. new = Append(spec, r) /\ r \in R
    BY <1>2 DEF WritePort
  <2>2. /\ new \in Seq(R) /\ Len(new) = n + 1 /\ new[n + 1] = r
        /\ \A i \in 1..n : new[i] = spec[i]
    <3> HIDE DEF new, r, R
    <3> QED BY <1>0, <2>1
  <2>3. r.lo = port /\ r.hi = port
    OBVIOUS
  <2> HIDE DEF new, r
  <2>4. Writable(new)
    BY <1>0, <2>2, <2>3 DEF Writable, Last, PortSpec
  <2>5. port..port = {port}
    OBVIOUS
  <2>6. PortsOf(new) = PortsOf(spec) \union {port}
    <3>1. ASSUME NEW p \in PortsOf(new) PROVE p \in PortsOf(spec) \union {port}
      <4>1. PICK i \in 1..(n + 1) : p \in new[i].lo..new[i].hi
        BY <2>2 DEF PortsOf
      <4>2. CASE i = n + 1
        BY <2>2, <2>3, <2>5, <4>1, <4>2
      <4>3. CASE i # n + 1
        <5>1. i \in 1..n
          BY <1>0, <4>3
        <5>2. new[i] = spec[i]
          BY <2>2, <5>1
        <5>3. p \in spec[i].lo..spec[i].hi
          BY <4>1, <5>2
        <5> QED BY <5>1, <5>3 DEF PortsOf
      <4> QED BY <4>2, <4>3
    <3>2. ASSUME NEW p \in PortsOf(spec) PROVE p \in PortsOf(new)
      <4>1. PICK i \in 1..n : p \in spec[i].lo..spec[i].hi
        BY DEF PortsOf
      <4>2. new[i] = spec[i] /\ i \in 1..(n + 1)
        BY <1>0, <2>2
      <4>3. p \in new[i].lo..new[i].hi
        BY <4>1, <4>2
      <4> QED BY <2>2, <4>2, <4>3 DEF PortsOf
    <3>3. port \in PortsOf(new)
      <4>1. n + 1 \in 1..Len(new) /\ port \in new[n + 1].lo..new[n + 1].hi
        BY <1>0, <2>2, <2>3, <2>5
      <4> QED BY <4>1 DEF PortsOf
    <3> QED BY <3>1, <3>2, <3>3
  <2> QED BY <2>4, <2>6, Zenon DEF new
<1> QED BY <1>1, <1>2

(* What is written for a worker means the ports it was given.              *)
LEMMA PortsFormatted ==
  ASSUME NEW ports \in Seq(Int)
  PROVE  FormatPortSpec(ports) \in PortSpec /\ PortsOf(FormatPortSpec(ports)) = Values(ports)
<1> DEFINE written[n \in 0..Len(ports)] ==
             IF n = 0 THEN NoSpec ELSE WritePort(written[n - 1], ports[n])
           X == {spec \in PortSpec : Writable(spec)}
           step == [n \in 1..Len(ports) |-> [spec \in X |-> WritePort(spec, ports[n])]]
<1>0. Len(ports) \in Nat /\ \A n \in 1..Len(ports) : ports[n] \in Int
  OBVIOUS
<1>1. FormatPortSpec(ports) = written[Len(ports)]
  BY DEF FormatPortSpec
<1>2. \A n \in 1..Len(ports), spec \in X : WritePort(spec, ports[n]) \in X
  BY <1>0, PortWritten DEF Writable
<1>3. NoSpec \in X
  BY DEF NoSpec, PortSpec, Writable
<1> HIDE DEF X
<1>4. PICK t \in [0..Len(ports) -> X] : Computes(t, NoSpec, step, Len(ports))
  <2>1. step \in [1..Len(ports) -> [X -> X]]
    BY <1>2
  <2> HIDE DEF step
  <2> QED BY <1>0, <1>3, <2>1, Recursion, Zenon
<1>5. t = [n \in 0..Len(ports) |-> IF n = 0 THEN NoSpec ELSE WritePort(t[n - 1], ports[n])]
  <2>1. t[0] = NoSpec
    BY <1>4 DEF Computes
  <2>2. ASSUME NEW n \in 1..Len(ports)
        PROVE  t[n] = WritePort(t[n - 1], ports[n])
    <3>1. t[n - 1] \in X
      BY <1>0
    <3>2. t[n] = step[n][t[n - 1]]
      BY <1>4 DEF Computes
    <3> QED BY <3>1, <3>2
  <2> QED BY <1>0, <2>1, <2>2
<1>6. written = [n \in 0..Len(ports) |->
                   IF n = 0 THEN NoSpec ELSE WritePort(written[n - 1], ports[n])]
  BY <1>5, Zenon
<1> DEFINE J == {n \in 0..Len(ports) :
                  Writable(written[n]) /\ PortsOf(written[n]) = {ports[i] : i \in 1..n}}
<1> HIDE DEF written
<1>7. 0 \in J
  <2>1. written[0] = <<>>
    BY <1>0, <1>6 DEF NoSpec
  <2>2. Writable(<<>>) /\ PortsOf(<<>>) = {}
    BY DEF Writable, PortSpec, PortsOf
  <2> QED BY <1>0, <2>1, <2>2
<1>8. ASSUME NEW n \in 1..Len(ports), n - 1 \in J
      PROVE  n \in J
  <2>1. Writable(written[n - 1]) /\ PortsOf(written[n - 1]) = {ports[i] : i \in 1..(n - 1)}
    BY <1>8
  <2>2. written[n] = WritePort(written[n - 1], ports[n])
    BY <1>0, <1>6
  <2>3. Writable(written[n]) /\ PortsOf(written[n]) = PortsOf(written[n - 1]) \union {ports[n]}
    BY <1>0, <2>1, <2>2, PortWritten
  <2>4. {ports[i] : i \in 1..n} = {ports[i] : i \in 1..(n - 1)} \union {ports[n]}
    BY <1>0
  <2>5. PortsOf(written[n]) = {ports[i] : i \in 1..n}
    BY <2>1, <2>3, <2>4
  <2> QED BY <1>0, <2>3, <2>5
<1>9. /\ Writable(written[Len(ports)])
      /\ PortsOf(written[Len(ports)]) = {ports[i] : i \in 1..Len(ports)}
  <2>1. \A n \in 1..Len(ports) : n - 1 \in J => n \in J
    BY <1>8
  <2> HIDE DEF J
  <2>2. \A n \in 0..Len(ports) : n \in J
    BY <1>0, <1>7, <2>1, Induction, Zenon
  <2>3. Len(ports) \in J
    BY <1>0, <2>2
  <2> QED BY <2>3, Zenon DEF J
<1> QED BY <1>1, <1>9 DEF Values, Writable

(* The chunks follow each other from the first port to the last.           *)
LEMMA OffsetSteps ==
  ASSUME NEW count \in Nat \ {0}, NEW k \in 1..count
  PROVE  /\ count \div k \in Nat \ {0}
         /\ Offset(count, k, 0) = 0 /\ Offset(count, k, k) = count
         /\ \A i \in 0..k : Offset(count, k, i) \in Nat
         /\ \A i \in 1..k : Offset(count, k, i) - Offset(count, k, i - 1)
                              \in {count \div k, count \div k + 1}
<1> DEFINE b == count \div k
           r == count % k
<1>1. b \in Int /\ r \in 0..(k - 1) /\ count = k * b + r
  OBVIOUS
<1>2. b >= 1
  <2>1. b <= 0 => k * b <= 0
    BY <1>1
  <2> QED BY <1>1, <2>1
<1> HIDE DEF b, r
<1>3. \A i \in 0..k : Offset(count, k, i) = i * b + Smaller(i, r)
  BY DEF Offset, b, r
<1>4. Offset(count, k, 0) = 0 /\ Offset(count, k, k) = count
  BY <1>1, <1>3 DEF Smaller
<1>5. ASSUME NEW i \in 0..k
      PROVE  Offset(count, k, i) \in Nat
  <2>1. i * b >= 0 /\ i * b \in Int
    BY <1>1, <1>2
  <2> QED BY <1>1, <1>3, <2>1 DEF Smaller
<1>6. ASSUME NEW i \in 1..k
      PROVE  Offset(count, k, i) - Offset(count, k, i - 1) \in {b, b + 1}
  <2>1. i * b = (i - 1) * b + b
    BY <1>1
  <2>2. Offset(count, k, i - 1) = (i - 1) * b + Smaller(i - 1, r)
    BY <1>3
  <2>3. Offset(count, k, i) = i * b + Smaller(i, r)
    BY <1>3
  <2>4. Smaller(i, r) - Smaller(i - 1, r) \in {0, 1} /\ Smaller(i, r) \in Int /\ Smaller(i - 1, r) \in Int
    BY <1>1 DEF Smaller
  <2>5. (i - 1) * b \in Int
    BY <1>1
  <2> QED BY <1>1, <2>1, <2>2, <2>3, <2>4, <2>5
<1> QED BY <1>1, <1>2, <1>4, <1>5, <1>6 DEF b

(* The later chunk begins where the earlier one has ended, or after it.    *)
LEMMA OffsetsGrow ==
  ASSUME NEW count \in Nat \ {0}, NEW k \in 1..count, NEW j \in 0..k, NEW i \in 0..j
  PROVE  Offset(count, k, i) <= Offset(count, k, j)
<1> DEFINE J == {m \in 0..k : \A l \in 0..m : Offset(count, k, l) <= Offset(count, k, m)}
<1>1. 0 \in J
  <2>1. Offset(count, k, 0) = 0 /\ \A l \in 0..0 : l = 0
    BY OffsetSteps
  <2> QED BY <2>1
<1>2. ASSUME NEW m \in 1..k, m - 1 \in J
      PROVE  m \in J
  <2>1. Offset(count, k, m - 1) <= Offset(count, k, m)
    <3> DEFINE b == count \div k
    <3>1. b \in Nat /\ Offset(count, k, m) - Offset(count, k, m - 1) \in {b, b + 1}
      BY OffsetSteps
    <3>2. m - 1 \in 0..k /\ m \in 0..k
      OBVIOUS
    <3>3. Offset(count, k, m - 1) \in Nat /\ Offset(count, k, m) \in Nat
      BY <3>2, OffsetSteps
    <3> HIDE DEF b
    <3> QED BY <3>1, <3>3
  <2>2. \A l \in 0..m : Offset(count, k, l) \in Nat
    BY OffsetSteps
  <2>3. \A l \in 0..(m - 1) : Offset(count, k, l) <= Offset(count, k, m - 1)
    BY <1>2
  <2>4. \A l \in 0..m : Offset(count, k, l) <= Offset(count, k, m)
    <3>1. \A l \in 0..m : l \in 0..(m - 1) \/ l = m
      OBVIOUS
    <3> QED BY <2>1, <2>2, <2>3, <3>1
  <2> QED BY <2>4
<1>3. j \in J
  <2>1. \A m \in 1..k : m - 1 \in J => m \in J
    BY <1>2
  <2> HIDE DEF J
  <2>2. \A m \in 0..k : m \in J
    <3>1. k \in Nat
      OBVIOUS
    <3> QED BY <1>1, <2>1, <3>1, Induction, Zenon
  <2> QED BY <2>2
<1> QED BY <1>3

(* Every port is in a chunk.                                               *)
LEMMA OffsetsCover ==
  ASSUME NEW count \in Nat \ {0}, NEW k \in 1..count, NEW p \in 1..count
  PROVE  \E i \in 1..k : p \in (Offset(count, k, i - 1) + 1)..Offset(count, k, i)
<1> DEFINE J == {m \in 0..k : p <= Offset(count, k, m) =>
                   \E i \in 1..m : p \in (Offset(count, k, i - 1) + 1)..Offset(count, k, i)}
<1>1. 0 \in J
  BY OffsetSteps
<1>2. ASSUME NEW m \in 1..k, m - 1 \in J
      PROVE  m \in J
  <2> SUFFICES ASSUME p <= Offset(count, k, m)
               PROVE  \E i \in 1..m : p \in (Offset(count, k, i - 1) + 1)..Offset(count, k, i)
    OBVIOUS
  <2>1. Offset(count, k, m - 1) \in Nat /\ Offset(count, k, m) \in Nat
    BY OffsetSteps
  <2>2. CASE p <= Offset(count, k, m - 1)
    <3>1. PICK i \in 1..(m - 1) : p \in (Offset(count, k, i - 1) + 1)..Offset(count, k, i)
      BY <1>2, <2>2
    <3> QED BY <3>1
  <2>3. CASE ~(p <= Offset(count, k, m - 1))
    <3>1. p \in (Offset(count, k, m - 1) + 1)..Offset(count, k, m)
      BY <2>1, <2>3
    <3> QED BY <3>1
  <2> QED BY <2>2, <2>3
<1>3. k \in J
  <2>1. \A m \in 1..k : m - 1 \in J => m \in J
    BY <1>2
  <2> HIDE DEF J
  <2>2. \A m \in 0..k : m \in J
    <3>1. k \in Nat
      OBVIOUS
    <3> QED BY <1>1, <2>1, <3>1, Induction, Zenon
  <2> QED BY <2>2
<1>4. Offset(count, k, k) = count
  BY OffsetSteps
<1> QED BY <1>3, <1>4

(* Each part is a piece of the ports, none is empty or more than one port  *)
(* longer than another, and every port is in one of them.                  *)
LEMMA PortsSplit ==
  ASSUME NEW ports, NEW S, Sorted(ports, S), NEW n \in Nat \ {0}, Len(ports) > 0
  PROVE  LET parts == SplitPorts(ports, n)
             k == Smaller(n, Len(ports))
             b == Len(ports) \div k
         IN /\ k \in Nat \ {0} /\ b \in Nat \ {0}
            /\ parts \in Seq(Seq(Nat)) /\ Len(parts) = k
            /\ \A i \in 1..k : Sorted(parts[i], Values(parts[i])) /\ Len(parts[i]) \in {b, b + 1}
            /\ \A p \in S : \E i \in 1..k : p \in Values(parts[i])
            /\ \A i \in 1..k : Values(parts[i]) \subseteq S
            /\ \A i, j \in 1..k : i # j => Values(parts[i]) \cap Values(parts[j]) = {}
<1> DEFINE count == Len(ports)
           k == Smaller(n, count)
           b == count \div k
           parts == SplitPorts(ports, n)
           from(i) == Offset(count, k, i - 1) + 1
           to(i) == Offset(count, k, i)
<1>1. ports \in Seq(Nat) /\ count \in Nat \ {0} /\ \A p \in 1..count : ports[p] \in Nat
  BY DEF Sorted
<1>2. k \in 1..count /\ k \in Nat \ {0}
  BY <1>1 DEF Smaller
<1>3. b \in Nat \ {0} /\ to(k) = count
  BY <1>1, <1>2, OffsetSteps
<1>4. ASSUME NEW i \in 1..k
      PROVE  /\ from(i) \in 1..count /\ to(i) \in 1..count /\ from(i) <= to(i)
             /\ to(i) - from(i) + 1 \in {b, b + 1}
  <2>1. to(i) \in Nat /\ from(i) \in Nat \ {0} /\ to(i) - (from(i) - 1) \in {b, b + 1}
    <3>1. i - 1 \in 0..k /\ i \in 0..k
      BY <1>2
    <3>2. Offset(count, k, i - 1) \in Nat /\ Offset(count, k, i) \in Nat
      BY <1>1, <1>2, <3>1, OffsetSteps
    <3>3. Offset(count, k, i) - Offset(count, k, i - 1) \in {b, b + 1}
      BY <1>1, <1>2, OffsetSteps
    <3> HIDE DEF b
    <3> QED BY <3>2, <3>3
  <2>2. to(i) <= to(k)
    BY <1>1, <1>2, OffsetsGrow
  <2> HIDE DEF from, to, b
  <2> QED BY <1>1, <1>3, <2>1, <2>2
<1>5. parts = [i \in 1..k |-> SubSeq(ports, from(i), to(i))]
  BY DEF SplitPorts
<1>6. ASSUME NEW i \in 1..k
      PROVE  /\ parts[i] \in Seq(Nat) /\ Len(parts[i]) = to(i) - from(i) + 1
             /\ \A m \in 1..Len(parts[i]) : parts[i][m] = ports[from(i) + m - 1]
  <2>1. parts[i] = SubSeq(ports, from(i), to(i))
    BY <1>5
  <2>2. /\ from(i) \in 1..count /\ to(i) \in 1..count /\ from(i) <= to(i)
    BY <1>4
  <2> HIDE DEF from, to, parts, count
  <2>3. \A m \in from(i)..to(i) : ports[m] \in Nat
    BY <1>1, <2>2
  <2>4. from(i) \in Int /\ to(i) \in Int
    BY <1>1, <2>2
  <2>5. /\ SubSeq(ports, from(i), to(i)) \in Seq(Nat)
        /\ Len(SubSeq(ports, from(i), to(i)))
             = IF from(i) <= to(i) THEN to(i) - from(i) + 1 ELSE 0
        /\ \A m \in 1..(to(i) - from(i) + 1) :
             SubSeq(ports, from(i), to(i))[m] = ports[from(i) + m - 1]
    BY SMTT(30), <2>3, <2>4, SubSeqProperties
  <2>6. Len(SubSeq(ports, from(i), to(i))) = to(i) - from(i) + 1
    BY <2>2, <2>5, Zenon
  <2> QED BY <2>1, <2>5, <2>6, Zenon
<1> HIDE DEF parts, from, to, count, k, b
<1>7. ASSUME NEW i \in 1..k
      PROVE  /\ Len(parts[i]) \in {b, b + 1} /\ Len(parts[i]) \in Nat
             /\ \A m \in 1..Len(parts[i]) : from(i) + m - 1 \in from(i)..to(i)
             /\ \A m \in from(i)..to(i) : m - from(i) + 1 \in 1..Len(parts[i])
                                          /\ ports[m] = parts[i][m - from(i) + 1]
  <2>1. /\ from(i) \in 1..count /\ to(i) \in 1..count /\ from(i) <= to(i)
        /\ to(i) - from(i) + 1 \in {b, b + 1}
    BY <1>4
  <2>2. /\ Len(parts[i]) = to(i) - from(i) + 1
        /\ \A m \in 1..Len(parts[i]) : parts[i][m] = ports[from(i) + m - 1]
    BY <1>6
  <2>3. Len(parts[i]) \in {b, b + 1} /\ Len(parts[i]) \in Nat
    BY <1>1, <2>1, <2>2
  <2>4. \A m \in 1..Len(parts[i]) : from(i) + m - 1 \in from(i)..to(i)
    BY <1>1, <2>1, <2>2
  <2>5. ASSUME NEW m \in from(i)..to(i)
        PROVE  m - from(i) + 1 \in 1..Len(parts[i]) /\ ports[m] = parts[i][m - from(i) + 1]
    <3>1. from(i) \in Int /\ to(i) \in Int /\ m \in Int /\ from(i) <= m /\ m <= to(i)
      BY <1>1, <2>1
    <3>2. m - from(i) + 1 \in 1..Len(parts[i])
      BY <2>2, <3>1
    <3>3. from(i) + (m - from(i) + 1) - 1 = m
      BY <3>1
    <3> QED BY <2>2, <3>2, <3>3
  <2> QED BY <2>3, <2>4, <2>5
<1>8. ASSUME NEW i \in 1..k
      PROVE  Values(parts[i]) = {ports[m] : m \in from(i)..to(i)}
  <2>1. ASSUME NEW v \in Values(parts[i]) PROVE v \in {ports[m] : m \in from(i)..to(i)}
    <3>1. PICK m \in 1..Len(parts[i]) : v = parts[i][m]
      BY DEF Values
    <3>2. from(i) + m - 1 \in from(i)..to(i) /\ v = ports[from(i) + m - 1]
      BY <1>6, <1>7, <3>1
    <3> QED BY <3>2
  <2>2. ASSUME NEW m \in from(i)..to(i) PROVE ports[m] \in Values(parts[i])
    <3>1. m - from(i) + 1 \in 1..Len(parts[i]) /\ ports[m] = parts[i][m - from(i) + 1]
      BY <1>7
    <3> QED BY <3>1 DEF Values
  <2> QED BY <2>1, <2>2
<1>9. ASSUME NEW i \in 1..k
      PROVE  Increasing(parts[i])
  <2>1. ASSUME NEW x \in 1..Len(parts[i]), NEW y \in 1..Len(parts[i]), x < y
        PROVE  parts[i][x] < parts[i][y]
    <3>1. /\ from(i) + x - 1 \in 1..count /\ from(i) + y - 1 \in 1..count
          /\ from(i) + x - 1 < from(i) + y - 1
      <4>1. /\ from(i) \in 1..count /\ to(i) \in 1..count
            /\ from(i) + x - 1 \in from(i)..to(i) /\ from(i) + y - 1 \in from(i)..to(i)
        BY <1>4, <1>7
      <4>2. x \in Int /\ y \in Int
        BY <1>7
      <4>3. from(i) \in Int /\ from(i) >= 1 /\ to(i) \in Int /\ to(i) <= count /\ count \in Int
        BY <1>1, <4>1
      <4>4. from(i) + x - 1 >= 1 /\ from(i) + y - 1 >= 1
        BY <2>1, <4>2, <4>3
      <4>5. from(i) + x - 1 <= to(i) /\ from(i) + y - 1 <= to(i)
        BY <4>1, <4>2, <4>3
      <4> QED BY <2>1, <4>2, <4>3, <4>4, <4>5
    <3>2. ports[from(i) + x - 1] < ports[from(i) + y - 1]
      BY <3>1 DEF Sorted, Increasing, count
    <3> QED BY <1>6, <3>2
  <2> QED BY <2>1 DEF Increasing
<1>10. \A i \in 1..k : Sorted(parts[i], Values(parts[i])) /\ Len(parts[i]) \in {b, b + 1}
  BY <1>6, <1>7, <1>9 DEF Sorted
<1>11. \A p \in S : \E i \in 1..k : p \in Values(parts[i])
  <2> SUFFICES ASSUME NEW p \in S PROVE \E i \in 1..k : p \in Values(parts[i])
    OBVIOUS
  <2>1. PICK m \in 1..count : p = ports[m]
    BY DEF Sorted, Values, count
  <2>2. \E i \in 1..k : m \in from(i)..to(i)
    BY <1>1, <1>2, OffsetsCover DEF from, to
  <2> QED BY <1>8, <2>1, <2>2
<1>12. \A i \in 1..k : Values(parts[i]) \subseteq S
  <2> SUFFICES ASSUME NEW i \in 1..k, NEW m \in from(i)..to(i) PROVE ports[m] \in S
    BY <1>8
  <2>1. m \in 1..count
    BY <1>1, <1>4
  <2> QED BY <2>1 DEF Sorted, Values, count
<1>13. ASSUME NEW i \in 1..k, NEW j \in 1..k, i < j
       PROVE  Values(parts[i]) \cap Values(parts[j]) = {}
  <2>1. to(i) <= from(j) - 1
    <3>1. j - 1 \in 0..k /\ i \in 0..(j - 1)
      BY <1>2, <1>13
    <3>2. Offset(count, k, i) <= Offset(count, k, j - 1)
      BY <1>1, <1>2, <3>1, OffsetsGrow
    <3>3. Offset(count, k, j - 1) \in Nat
      BY <1>1, <1>2, <3>1, OffsetSteps
    <3> QED BY <3>2, <3>3 DEF from, to
  <2>2. ASSUME NEW x \in from(i)..to(i), NEW y \in from(j)..to(j)
        PROVE  ports[x] # ports[y]
    <3>1. x \in 1..count /\ y \in 1..count /\ x < y
      BY <1>1, <1>4, <2>1
    <3>2. ports[x] < ports[y]
      BY <3>1 DEF Sorted, Increasing, count
    <3> QED BY <1>1, <3>1, <3>2
  <2>3. ASSUME NEW v \in Values(parts[i]), v \in Values(parts[j]) PROVE FALSE
    <3>1. PICK x \in from(i)..to(i) : v = ports[x]
      BY <1>8
    <3>2. PICK y \in from(j)..to(j) : v = ports[y]
      BY <1>8, <2>3
    <3> QED BY <2>2, <3>1, <3>2
  <2> QED BY <2>3
<1>14. \A i, j \in 1..k : i # j => Values(parts[i]) \cap Values(parts[j]) = {}
  <2> SUFFICES ASSUME NEW i \in 1..k, NEW j \in 1..k, i # j
               PROVE  Values(parts[i]) \cap Values(parts[j]) = {}
    OBVIOUS
  <2>1. i < j \/ j < i
    BY <1>2
  <2> QED BY <1>13, <2>1
<1>15. parts \in Seq(Seq(Nat)) /\ Len(parts) = k
  <2>1. parts = [i \in 1..k |-> parts[i]]
    BY <1>5
  <2>2. \A i \in 1..k : parts[i] \in Seq(Nat)
    BY <1>6
  <2>3. k \in Nat
    BY <1>2
  <2> QED BY <2>1, <2>2, <2>3
<1> QED BY <1>2, <1>3, <1>10, <1>11, <1>12, <1>14, <1>15, Zenon DEF parts, k, b, count

(* As many ports as places.                                                *)
LEMMA SortedSize ==
  ASSUME NEW s, NEW S, Sorted(s, S)
  PROVE  IsFiniteSet(S) /\ Cardinality(S) = Len(s)
<1> DEFINE D == 1..Len(s)
<1>1. s \in Seq(Nat) /\ Len(s) \in Nat
  BY DEF Sorted
<1>2. IsFiniteSet(D) /\ Cardinality(D) = Len(s)
  <2>1. /\ IsFiniteSet(1..Len(s))
        /\ Cardinality(1..Len(s)) = IF 1 > Len(s) THEN 0 ELSE Len(s) - 1 + 1
    BY <1>1, FS_Interval
  <2> QED BY <1>1, <2>1
<1>3. s \in [D -> S] /\ \A v \in S : \E i \in D : s[i] = v
  BY <1>1 DEF Sorted, Values
<1>4. \A i, j \in D : s[i] = s[j] => i = j
  <2> SUFFICES ASSUME NEW i \in D, NEW j \in D, i # j PROVE s[i] # s[j]
    OBVIOUS
  <2>1. CASE i < j
    BY <1>1, <2>1 DEF Sorted, Increasing
  <2>2. CASE j < i
    BY <1>1, <2>2 DEF Sorted, Increasing
  <2> QED BY <1>1, <2>1, <2>2
<1>5. s \in Surjection(D, S) /\ s \in Injection(D, S)
  <2> HIDE DEF D
  <2> QED BY <1>3, <1>4 DEF Surjection, Injection, IsInjective
<1> HIDE DEF D
<1> QED BY <1>2, <1>5, FS_Surjection

(* What is known of the options read so far: no "-pSPEC" among them.       *)
PlainOption == {o \in Option : o.flag # "pSpec"}
Seen == [spec : PortSpec, found : BOOLEAN, rest : Seq(PlainOption), skip : BOOLEAN]

(* One more word.                                                          *)
LEMMA OptionRead ==
  ASSUME NEW options \in Seq(Option), NEW i \in 1..Len(options), NEW seen \in Seen
  PROVE  LET new == ReadOption(seen, options, i)
         IN /\ new \in Seen
            /\ ~new.found => ~seen.found /\ (~seen.skip => ~new.skip /\ options[i].flag # "pSpec")
<1> DEFINE o == options[i]
           new == ReadOption(seen, options, i)
           O == Option
<1>1. o \in Option /\ (i < Len(options) => options[i + 1] \in Option)
  <2>1. options \in Seq(O) /\ i + 1 \in Nat
    OBVIOUS
  <2> HIDE DEF O
  <2>2. options[i] \in O /\ (i < Len(options) => options[i + 1] \in O)
    BY <2>1
  <2> QED BY <2>2 DEF O
<1>2. /\ o.flag \in {"p", "pSpec", "other"} /\ o.spec \in PortSpec
      /\ i < Len(options) => options[i + 1].spec \in PortSpec
  BY <1>1 DEF Option
<1> DEFINE next == IF options[i + 1].flag = "other" THEN options[i + 1].spec ELSE NoSpec
           q == Append(seen.rest, o)
<1>3. /\ seen = [spec |-> seen.spec, found |-> seen.found, rest |-> seen.rest, skip |-> seen.skip]
      /\ seen.spec \in PortSpec /\ seen.found \in BOOLEAN /\ seen.skip \in BOOLEAN
      /\ seen.rest \in Seq(PlainOption)
  BY DEF Seen
<1>4. NoSpec \in PortSpec
  BY DEF NoSpec, PortSpec
<1>5. CASE seen.skip
  <2>1. new = [spec |-> seen.spec, found |-> seen.found, rest |-> seen.rest, skip |-> FALSE]
    BY <1>3, <1>5 DEF ReadOption
  <2> HIDE DEF new
  <2>2. new \in Seen /\ new.found = seen.found
    BY <1>3, <2>1 DEF Seen
  <2> QED BY <1>5, <2>2 DEF new
<1>6. CASE ~seen.skip /\ o.flag = "p" /\ i < Len(options)
  <2>1. new = [spec |-> next, found |-> TRUE, rest |-> seen.rest, skip |-> TRUE]
    BY <1>3, <1>6 DEF ReadOption, TakeFlag
  <2>2. next \in PortSpec
    BY <1>2, <1>4, <1>6
  <2> HIDE DEF new, next
  <2>3. new \in Seen /\ new.found
    BY <1>3, <2>1, <2>2 DEF Seen
  <2> QED BY <2>3 DEF new
<1>7. CASE ~seen.skip /\ ~(o.flag = "p" /\ i < Len(options)) /\ o.flag = "pSpec"
  <2>1. new = [spec |-> o.spec, found |-> TRUE, rest |-> seen.rest, skip |-> seen.skip]
    BY <1>3, <1>7 DEF ReadOption, TakeFlag
  <2> HIDE DEF new
  <2>2. new \in Seen /\ new.found
    BY <1>2, <1>3, <2>1 DEF Seen
  <2> QED BY <2>2 DEF new
<1>8. CASE ~seen.skip /\ ~(o.flag = "p" /\ i < Len(options)) /\ o.flag # "pSpec"
  <2>1. new = [spec |-> seen.spec, found |-> seen.found, rest |-> q, skip |-> seen.skip]
    BY <1>3, <1>8 DEF ReadOption
  <2>2. q \in Seq(PlainOption)
    <3>1. o \in PlainOption
      BY <1>1, <1>8 DEF PlainOption
    <3> HIDE DEF o
    <3> QED BY <1>3, <3>1
  <2> HIDE DEF new, q
  <2>3. new \in Seen /\ new.found = seen.found /\ new.skip = seen.skip
    BY <1>3, <2>1, <2>2 DEF Seen
  <2> QED BY <1>8, <2>3 DEF new
<1> HIDE DEF new
<1> QED BY <1>3, <1>5, <1>6, <1>7, <1>8, Zenon

(* All of them; when no port flag was found there is no "-pSPEC".          *)
LEMMA FlagExtracted ==
  ASSUME NEW options \in Seq(Option)
  PROVE  LET seen == ExtractPortFlag(options)
         IN /\ seen \in Seen
            /\ ~seen.found => \A i \in 1..Len(options) : options[i].flag # "pSpec"
<1> DEFINE seen[n \in 0..Len(options)] ==
             IF n = 0 THEN Unread ELSE ReadOption(seen[n - 1], options, n)
           step == [n \in 1..Len(options) |-> [s \in Seen |-> ReadOption(s, options, n)]]
<1>0. Len(options) \in Nat
  OBVIOUS
<1>1. ExtractPortFlag(options) = seen[Len(options)]
  BY DEF ExtractPortFlag
<1>2. Unread \in Seen /\ ~Unread.found /\ ~Unread.skip
  BY DEF Unread, Seen, NoSpec, PortSpec
<1>3. \A n \in 1..Len(options), s \in Seen : ReadOption(s, options, n) \in Seen
  BY OptionRead
<1>4. PICK t \in [0..Len(options) -> Seen] : Computes(t, Unread, step, Len(options))
  <2>1. step \in [1..Len(options) -> [Seen -> Seen]]
    BY <1>3
  <2> HIDE DEF step
  <2> QED BY <1>0, <1>2, <2>1, Recursion, Zenon
<1>5. t = [n \in 0..Len(options) |-> IF n = 0 THEN Unread ELSE ReadOption(t[n - 1], options, n)]
  <2>1. t[0] = Unread
    BY <1>4 DEF Computes
  <2>2. ASSUME NEW n \in 1..Len(options)
        PROVE  t[n] = ReadOption(t[n - 1], options, n)
    <3>1. t[n - 1] \in Seen
      BY <1>0
    <3>2. t[n] = step[n][t[n - 1]]
      BY <1>4 DEF Computes
    <3> QED BY <3>1, <3>2
  <2> QED BY <1>0, <2>1, <2>2
<1>6. seen = [n \in 0..Len(options) |->
                IF n = 0 THEN Unread ELSE ReadOption(seen[n - 1], options, n)]
  BY <1>5, Zenon
<1> DEFINE Good(n) == /\ seen[n] \in Seen
                      /\ ~seen[n].found => /\ ~seen[n].skip
                                           /\ \A i \in 1..n : options[i].flag # "pSpec"
           J == {n \in 0..Len(options) : Good(n)}
<1> HIDE DEF seen
<1>7. 0 \in J
  <2>1. seen[0] = Unread
    BY <1>0, <1>6
  <2> QED BY <1>0, <1>2, <2>1
<1>8. ASSUME NEW n \in 1..Len(options), n - 1 \in J
      PROVE  n \in J
  <2>1. seen[n - 1] \in Seen /\ Good(n - 1)
    BY <1>8
  <2>2. seen[n] = ReadOption(seen[n - 1], options, n)
    BY <1>0, <1>6
  <2>3. /\ seen[n] \in Seen
        /\ ~seen[n].found => ~seen[n - 1].found /\ (~seen[n - 1].skip =>
                               ~seen[n].skip /\ options[n].flag # "pSpec")
    BY <2>1, <2>2, OptionRead
  <2>4. ASSUME ~seen[n].found
        PROVE  ~seen[n].skip /\ \A i \in 1..n : options[i].flag # "pSpec"
    <3>1. \A i \in 1..n : i \in 1..(n - 1) \/ i = n
      BY <1>0
    <3> QED BY <2>1, <2>3, <2>4, <3>1
  <2>5. Good(n)
    BY <2>3, <2>4
  <2> QED BY <1>0, <2>5
<1>9. Good(Len(options))
  <2>1. \A n \in 1..Len(options) : n - 1 \in J => n \in J
    BY <1>8
  <2> HIDE DEF J
  <2>2. \A n \in 0..Len(options) : n \in J
    BY <1>0, <1>7, <2>1, Induction, Zenon
  <2>3. Len(options) \in J
    BY <1>0, <2>2
  <2> QED BY <2>3, Zenon DEF J
<1> QED BY <1>1, <1>9

-----------------------------------------------------------------------------
(* What a line asks for: a specification, and options without a "-pSPEC".  *)
LEMMA FlagsRead ==
  ASSUME NEW l \in TargetLine
  PROVE  Flags(l).spec \in PortSpec /\ Flags(l).rest \in Seq(PlainOption)
<1> DEFINE seen == ExtractPortFlag(l.options)
<1>0. l.options \in Seq(Option) /\ MaxPort \in Int
  BY PlanningAssumption DEF TargetLine
<1>1. seen \in Seen /\ (~seen.found => \A i \in 1..Len(l.options) : l.options[i].flag # "pSpec")
  BY <1>0, FlagExtracted
<1>2. seen = [spec |-> seen.spec, found |-> seen.found, rest |-> seen.rest, skip |-> seen.skip]
      /\ seen.spec \in PortSpec /\ seen.rest \in Seq(PlainOption)
  BY <1>1 DEF Seen
<1>3. CASE seen.found
  BY <1>2, <1>3 DEF Flags
<1>4. CASE ~seen.found
  <2>1. Flags(l).spec = AllPorts /\ Flags(l).rest = l.options
    BY <1>2, <1>4 DEF Flags
  <2>2. AllPorts \in PortSpec
    BY <1>0 DEF AllPorts, PortSpec
  <2>3. l.options \in Seq(PlainOption)
    <3> DEFINE O == Option
    <3>1. l.options \in Seq(O)
      BY <1>0
    <3> HIDE DEF O
    <3>2. \A i \in 1..Len(l.options) : l.options[i] \in O
      BY <3>1
    <3>3. \A i \in 1..Len(l.options) : l.options[i] \in PlainOption
      BY <1>1, <1>4, <3>2 DEF PlainOption, O
    <3> QED BY <3>1, <3>3
  <2> QED BY <2>1, <2>2, <2>3
<1> QED BY <1>3, <1>4

Ports(t) == PortsOf(t.spec)

(* The tasks of a line whose ports are split.                              *)
Splits(l) == mode # "target-only" /\ Valid(Flags(l).spec)
IsSplit(T, l, n) ==
  /\ T \in Seq([target : Targets, options : Seq(PlainOption), spec : PortSpec,
                group : {Group(l, n)}, idx : Nat, total : {Len(T)}])
  /\ Len(T) > 0
  /\ \A i \in 1..Len(T) : T[i].target = l.target /\ T[i].idx = i - 1
  /\ \A p \in PortsOf(Flags(l).spec) : \E i \in 1..Len(T) : p \in Ports(T[i])
  /\ \A i \in 1..Len(T) : Ports(T[i]) \subseteq PortsOf(Flags(l).spec)
  /\ \A i, j \in 1..Len(T) : i # j => Ports(T[i]) \cap Ports(T[j]) = {}
  /\ \E b \in Nat \ {0} : \A i \in 1..Len(T) : Cardinality(Ports(T[i])) \in {b, b + 1}

(* A line with readable ports in the mode target-ports: its tasks divide them. *)
LEMMA LineSplit ==
  ASSUME NEW l \in TargetLine, NEW n \in Nat, wanted \in Nat \ {0}, Splits(l)
  PROVE  IsSplit(TasksOf(l, n), l, n)
<1> DEFINE spec == Flags(l).spec
           S == PortsOf(spec)
           ports == ParsePortSpec(spec)
           parts == SplitPorts(ports, wanted)
           k == Smaller(wanted, Len(ports))
           b == Len(ports) \div k
           T == TasksOf(l, n)
<1>1. spec \in PortSpec /\ Flags(l).rest \in Seq(PlainOption) /\ l.target \in Targets
  BY FlagsRead DEF TargetLine
<1>2. Valid(spec)
  BY DEF Splits
<1>3. S \subseteq 1..MaxPort
  <2> SUFFICES ASSUME NEW i \in 1..Len(spec), NEW p \in spec[i].lo..spec[i].hi
               PROVE  p \in 1..MaxPort
    BY DEF PortsOf
  <2>1. spec[i].lo \in 1..MaxPort /\ spec[i].hi \in 1..MaxPort
    BY <1>2 DEF Valid
  <2> QED BY <2>1, PlanningAssumption
<1>4. Sorted(ports, S)
  BY <1>3, ParsedPorts
<1>5. Len(ports) > 0 /\ Len(ports) \in Nat
  <2>1. ports \in Seq(Nat)
    BY <1>4 DEF Sorted
  <2>2. spec # <<>> /\ 1 \in 1..Len(spec)
    <3> DEFINE R == [lo : Int, hi : Int]
    <3>1. spec \in Seq(R)
      BY <1>1 DEF PortSpec
    <3>2. spec # <<>>
      BY <1>2 DEF Valid, NoSpec
    <3> HIDE DEF R, spec
    <3> QED BY <3>1, <3>2
  <2>3. spec[1].lo \in 1..MaxPort /\ spec[1].hi \in 1..MaxPort /\ spec[1].lo <= spec[1].hi
    BY <1>2, <2>2 DEF Valid
  <2>4. spec[1].lo \in spec[1].lo..spec[1].hi
    BY <2>3, PlanningAssumption
  <2>5. spec[1].lo \in S
    BY <2>2, <2>4 DEF PortsOf
  <2>6. PICK i \in 1..Len(ports) : TRUE
    BY <1>4, <2>5 DEF Sorted, Values
  <2> QED BY <2>1, <2>6
<1>6. /\ k \in Nat \ {0} /\ b \in Nat \ {0}
      /\ parts \in Seq(Seq(Nat)) /\ Len(parts) = k
      /\ \A i \in 1..k : Sorted(parts[i], Values(parts[i])) /\ Len(parts[i]) \in {b, b + 1}
      /\ \A p \in S : \E i \in 1..k : p \in Values(parts[i])
      /\ \A i \in 1..k : Values(parts[i]) \subseteq S
      /\ \A i, j \in 1..k : i # j => Values(parts[i]) \cap Values(parts[j]) = {}
  <2> HIDE DEF ports, S
  <2> QED BY <1>4, <1>5, PortsSplit
<1>7. T = [i \in 1..k |-> [target |-> l.target, options |-> Flags(l).rest,
                           spec |-> FormatPortSpec(parts[i]), group |-> Group(l, n),
                           idx |-> i - 1, total |-> k]]
  BY <1>2, <1>6 DEF TasksOf, Splits
<1> HIDE DEF S, ports, parts, k, b, spec, T
<1>8. ASSUME NEW i \in 1..k
      PROVE  /\ T[i].target = l.target /\ T[i].idx = i - 1
             /\ T[i].spec \in PortSpec /\ Ports(T[i]) = Values(parts[i])
             /\ Cardinality(Ports(T[i])) \in {b, b + 1}
  <2>1. parts[i] \in Seq(Nat) /\ Sorted(parts[i], Values(parts[i])) /\ Len(parts[i]) \in {b, b + 1}
    BY <1>6 DEF Sorted
  <2>2. parts[i] \in Seq(Int)
    BY <2>1
  <2>3. T[i].spec = FormatPortSpec(parts[i]) /\ T[i].target = l.target /\ T[i].idx = i - 1
    BY <1>7
  <2>4. T[i].spec \in PortSpec /\ Ports(T[i]) = Values(parts[i])
    BY <2>2, <2>3, PortsFormatted DEF Ports
  <2>5. Cardinality(Values(parts[i])) = Len(parts[i])
    BY <2>1, SortedSize
  <2> QED BY <2>1, <2>3, <2>4, <2>5
<1>9. Len(T) = k
  BY <1>6, <1>7
<1>10. T \in Seq([target : Targets, options : Seq(PlainOption), spec : PortSpec,
                  group : {Group(l, n)}, idx : Nat, total : {k}])
  <2> DEFINE E == [target : Targets, options : Seq(PlainOption), spec : PortSpec,
                   group : {Group(l, n)}, idx : Nat, total : {k}]
  <2>1. ASSUME NEW i \in 1..k PROVE T[i] \in E
    <3>1. T[i].spec \in PortSpec /\ i - 1 \in Nat
      BY <1>6, <1>8
    <3>2. T[i] = [target |-> l.target, options |-> Flags(l).rest, spec |-> T[i].spec,
                  group |-> Group(l, n), idx |-> i - 1, total |-> k]
      BY <1>7
    <3> QED BY <1>1, <3>1, <3>2
  <2>2. T = [i \in 1..k |-> T[i]]
    BY <1>7
  <2> HIDE DEF E
  <2>3. T \in Seq(E)
    <3>1. k \in Nat
      BY <1>6
    <3> QED BY <2>1, <2>2, <3>1
  <2> QED BY <2>3 DEF E
<1>11. \A p \in S : \E i \in 1..k : p \in Ports(T[i])
  BY <1>6, <1>8
<1>12. \A i \in 1..k : Ports(T[i]) \subseteq S
  BY <1>6, <1>8
<1>13. \A i, j \in 1..k : i # j => Ports(T[i]) \cap Ports(T[j]) = {}
  BY <1>6, <1>8
<1>14. \A i \in 1..k : Cardinality(Ports(T[i])) \in {b, b + 1}
  BY <1>8
<1>15. \A i \in 1..k : T[i].target = l.target /\ T[i].idx = i - 1
  BY <1>8
<1>16. IsSplit(T, l, n)
  <2>1. \E c \in Nat \ {0} : \A i \in 1..k : Cardinality(Ports(T[i])) \in {c, c + 1}
    BY <1>6, <1>14
  <2>2. k > 0
    BY <1>6
  <2> QED BY <1>9, <1>10, <1>11, <1>12, <1>13, <1>15, <2>1, <2>2, Zenon DEF IsSplit, S, spec
<1> QED BY <1>16 DEF T

(* Any other line is one task.                                             *)
LEMMA LineWhole ==
  ASSUME NEW l \in TargetLine, NEW n \in Nat, ~Splits(l)
  PROVE  TasksOf(l, n) = <<Whole(l)>>
BY DEF Splits, TasksOf

-----------------------------------------------------------------------------
(* The tasks of line n, and where they are: from o + 1 on, and no task from *)
(* elsewhere is of its group.                                              *)
Task == [target : Targets, options : Seq(Option), spec : PortSpec,
         group : {<<>>} \union (Targets \X Nat), idx : Nat, total : Nat]
Planned(n) == TasksOf(lines[n], n)
Block(n, o) ==
  /\ o + Len(Planned(n)) <= Len(tasks)
  /\ \A k \in 1..Len(Planned(n)) : tasks[o + k] = Planned(n)[k]
  /\ \A i \in 1..Len(tasks) :
       tasks[i].group = Group(lines[n], n) => i \in (o + 1)..(o + Len(Planned(n)))
PlanTypes ==
  /\ lines \in Seq(TargetLine) /\ mode \in {"target-only", "target-ports"}
  /\ wanted \in Nat \ {0} /\ line \in 1..(Len(lines) + 1) /\ tasks \in Seq(Task)
Blocks == \A n \in 1..(line - 1) : \E o \in Nat : Block(n, o)
Origins ==
  \A i \in 1..Len(tasks) :
    \E n \in 1..(line - 1) : \E k \in 1..Len(Planned(n)) : tasks[i] = Planned(n)[k]
PlanInv == PlanTypes /\ Blocks /\ Origins

(* What the tasks of a line are.                                           *)
LEMMA PlannedTasks ==
  ASSUME PlanTypes, NEW n \in 1..Len(lines)
  PROVE  /\ lines[n] \in TargetLine /\ Planned(n) \in Seq(Task)
         /\ \A k \in 1..Len(Planned(n)) : Planned(n)[k].group \in {<<>>, Group(lines[n], n)}
         /\ ~Splits(lines[n]) => \A k \in 1..Len(Planned(n)) : Planned(n)[k].group = <<>>
<1> DEFINE l == lines[n]
           T == Planned(n)
<1>1. l \in TargetLine /\ n \in Nat /\ wanted \in Nat \ {0}
  <2> DEFINE L == TargetLine
  <2>1. lines \in Seq(L) /\ wanted \in Nat \ {0}
    BY DEF PlanTypes
  <2> HIDE DEF L
  <2>2. lines[n] \in L /\ n \in Nat
    BY <2>1
  <2> QED BY <2>1, <2>2 DEF L
<1>2. l.target \in Targets /\ l.options \in Seq(Option)
  BY <1>1 DEF TargetLine
<1>3. Group(l, n) \in Targets \X Nat
  BY <1>1, <1>2 DEF Group
<1>4. CASE Splits(l)
  <2>1. IsSplit(T, l, n)
    BY <1>1, <1>4, LineSplit DEF Planned
  <2> HIDE DEF T, l
  <2>2. /\ T \in Seq([target : Targets, options : Seq(PlainOption), spec : PortSpec,
                      group : {Group(l, n)}, idx : Nat, total : {Len(T)}])
    BY <2>1 DEF IsSplit
  <2> DEFINE E == [target : Targets, options : Seq(PlainOption), spec : PortSpec,
                   group : {Group(l, n)}, idx : Nat, total : {Len(T)}]
  <2>3. T \in Seq(E)
    BY <2>2
  <2>4. E \subseteq Task /\ \A t \in E : t.group = Group(l, n)
    <3>1. Seq(PlainOption) \subseteq Seq(Option)
      <4>1. PlainOption \subseteq Option
        BY DEF PlainOption
      <4> HIDE DEF PlainOption, Option
      <4> QED BY <4>1, SeqMonotonic
    <3>2. Len(T) \in Nat
      <4> HIDE DEF E
      <4> QED BY <2>3
    <3>3. ASSUME NEW t \in E PROVE t \in Task /\ t.group = Group(l, n)
      <4>1. /\ t = [target |-> t.target, options |-> t.options, spec |-> t.spec,
                    group |-> t.group, idx |-> t.idx, total |-> t.total]
            /\ t.target \in Targets /\ t.options \in Seq(PlainOption) /\ t.spec \in PortSpec
            /\ t.group = Group(l, n) /\ t.idx \in Nat /\ t.total = Len(T)
        OBVIOUS
      <4>2. t.options \in Seq(Option) /\ t.group \in {<<>>} \union (Targets \X Nat) /\ t.total \in Nat
        BY <1>3, <3>1, <3>2, <4>1 DEF l
      <4> HIDE DEF E
      <4> QED BY <4>1, <4>2 DEF Task
    <3> QED BY <3>3
  <2> HIDE DEF E
  <2>5. T \in Seq(Task) /\ \A k \in 1..Len(T) : T[k].group = Group(l, n)
    <3>1. T \in Seq(Task)
      BY <2>3, <2>4, SeqMonotonic
    <3>2. \A k \in 1..Len(T) : T[k] \in E
      BY <2>3
    <3> QED BY <2>4, <3>1, <3>2
  <2> QED BY <1>1, <1>4, <2>5 DEF l, T
<1>5. CASE ~Splits(l)
  <2> DEFINE w == Whole(l)
  <2>1. T = <<w>>
    BY <1>1, <1>5, LineWhole DEF Planned
  <2>2. w \in Task /\ w.group = <<>>
    BY <1>2 DEF Whole, Task, NoSpec, PortSpec
  <2> HIDE DEF w, T
  <2>3. T \in Seq(Task) /\ Len(T) = 1 /\ T[1] = w
    BY <2>1, <2>2
  <2>4. \A k \in 1..Len(T) : T[k].group = <<>>
    BY <2>2, <2>3
  <2> QED BY <1>1, <2>3, <2>4 DEF T
<1> QED BY <1>4, <1>5

LEMMA PlanInitInv == PlanInit => PlanInv
<1> SUFFICES ASSUME PlanInit PROVE PlanInv
  OBVIOUS
<1>1. line = 1 /\ tasks = <<>>
  BY DEF PlanInit
<1>2. lines \in Seq(TargetLine) /\ mode \in {"target-only", "target-ports"} /\ wanted \in Nat \ {0}
  <2> DEFINE L == TargetLine
  <2>1. TargetFiles \subseteq Seq(L) /\ PortChunks \subseteq Nat \ {0} /\ <<>> \in Seq(L)
    BY PlanningAssumption
  <2> HIDE DEF L
  <2>2. lines \in Seq(L) /\ wanted \in Nat \ {0}
    <3>1. \/ lines = <<>> /\ wanted = 1
          \/ lines \in TargetFiles /\ wanted \in PortChunks
      BY DEF PlanInit
    <3>2. lines \in Seq(L)
      BY <2>1, <3>1
    <3>3. wanted \in Nat \ {0}
      <4>1. 1 \in Nat \ {0} /\ (wanted = 1 \/ wanted \in PortChunks)
        BY <3>1
      <4> QED BY <2>1, <4>1
    <3> QED BY <3>2, <3>3
  <2>3. mode \in {"target-only", "target-ports"}
    BY DEF PlanInit
  <2> QED BY <2>2, <2>3 DEF L
<1>3. PlanTypes
  <2>1. line \in 1..(Len(lines) + 1)
    <3> HIDE DEF TargetLine
    <3> QED BY <1>1, <1>2
  <2>2. tasks \in Seq(Task)
    BY <1>1
  <2> QED BY <1>2, <2>1, <2>2 DEF PlanTypes
<1>4. Blocks /\ Origins
  BY <1>1 DEF Blocks, Origins
<1> QED BY <1>3, <1>4 DEF PlanInv

LEMMA PlanLineInv ==
  ASSUME PlanInv, PlanLine
  PROVE  PlanInv'
<1> DEFINE T == Planned(line)
<1>1. /\ lines \in Seq(TargetLine) /\ tasks \in Seq(Task) /\ line \in 1..Len(lines)
      /\ Len(lines) \in Nat /\ Len(tasks) \in Nat
      /\ lines' = lines /\ mode' = mode /\ wanted' = wanted /\ line' = line + 1
      /\ tasks' = tasks \o T
  <2> HIDE DEF TargetLine, Task
  <2>1. lines \in Seq(TargetLine) /\ tasks \in Seq(Task) /\ line \in 1..(Len(lines) + 1)
    BY DEF PlanInv, PlanTypes
  <2> QED BY <2>1 DEF PlanLine, Planned
<1>2. /\ T \in Seq(Task) /\ Len(T) \in Nat
      /\ \A k \in 1..Len(T) : T[k].group \in {<<>>, Group(lines[line], line)}
  <2>1. T \in Seq(Task) /\ \A k \in 1..Len(T) : T[k].group \in {<<>>, Group(lines[line], line)}
    BY <1>1, PlannedTasks DEF PlanInv
  <2> HIDE DEF T
  <2> QED BY <2>1
<1>3. /\ tasks' \in Seq(Task) /\ Len(tasks') = Len(tasks) + Len(T)
      /\ \A i \in 1..Len(tasks) : tasks'[i] = tasks[i]
      /\ \A k \in 1..Len(T) : tasks'[Len(tasks) + k] = T[k]
      /\ \A i \in 1..Len(tasks') : i \in 1..Len(tasks) \/ i - Len(tasks) \in 1..Len(T)
  <2> HIDE DEF T, Task
  <2> QED BY <1>1, <1>2
<1>4. \A n \in 1..line : Planned(n)' = Planned(n) /\ Group(lines[n], n)' = Group(lines[n], n)
  BY <1>1 DEF Planned, TasksOf, Group
<1> HIDE DEF T
<1>5. \A n, m \in 1..line : n # m => /\ Group(lines[n], n) # Group(lines[m], m)
                                     /\ Group(lines[n], n) # <<>>
  BY DEF Group
<1>6. ASSUME NEW n \in 1..(line - 1)
      PROVE  \E o \in Nat : Block(n, o)'
  <2>1. PICK o \in Nat : Block(n, o)
    BY DEF PlanInv, Blocks
  <2>2. n \in 1..line /\ line \in 1..line /\ n # line /\ n \in 1..Len(lines)
    BY <1>1
  <2>3. Len(Planned(n)) \in Nat
    <3>1. Planned(n) \in Seq(Task)
      BY <2>2, PlannedTasks DEF PlanInv
    <3> HIDE DEF Task
    <3> QED BY <3>1
  <2>4. o + Len(Planned(n)) <= Len(tasks')
    BY <1>1, <1>2, <1>3, <2>1, <2>3 DEF Block
  <2>5. \A k \in 1..Len(Planned(n)) : tasks'[o + k] = Planned(n)[k]
    <3>1. \A k \in 1..Len(Planned(n)) : o + k \in 1..Len(tasks)
      BY <1>1, <2>1, <2>3 DEF Block
    <3> QED BY <1>3, <2>1, <3>1 DEF Block
  <2>6. ASSUME NEW i \in 1..Len(tasks'), tasks'[i].group = Group(lines[n], n)
        PROVE  i \in (o + 1)..(o + Len(Planned(n)))
    <3>1. CASE i \in 1..Len(tasks)
      BY <1>3, <2>1, <2>6, <3>1 DEF Block
    <3>2. CASE i - Len(tasks) \in 1..Len(T)
      <4>1. tasks'[i] = T[i - Len(tasks)]
        <5>1. Len(tasks) + (i - Len(tasks)) = i
          BY <1>1, <1>3
        <5> QED BY <1>3, <3>2, <5>1
      <4>2. tasks'[i].group \in {<<>>, Group(lines[line], line)}
        BY <1>2, <3>2, <4>1
      <4> QED BY <1>5, <2>2, <2>6, <4>2
    <3> QED BY <1>3, <3>1, <3>2
  <2> QED BY <1>4, <2>1, <2>2, <2>4, <2>5, <2>6 DEF Block
<1>7. \E o \in Nat : \A n \in {line} : Block(n, o)'
  <2>0. PICK o \in Nat, n \in Nat : o = Len(tasks) /\ n = line
    BY <1>1
  <2>1. ASSUME NEW i \in 1..Len(tasks'), tasks'[i].group = Group(lines[n], n)
        PROVE  i \in (o + 1)..(o + Len(T))
    <3>1. CASE i \in 1..Len(tasks)
      <4>0. PICK m \in 1..(line - 1) : \E k \in 1..Len(Planned(m)) : tasks[i] = Planned(m)[k]
        BY <3>1 DEF PlanInv, Origins
      <4>1. PICK k \in 1..Len(Planned(m)) : tasks[i] = Planned(m)[k]
        BY <4>0
      <4>2. m \in 1..Len(lines) /\ m \in 1..line /\ m # n /\ n \in 1..line
        BY <1>1, <2>0
      <4>3. Planned(m)[k].group \in {<<>>, Group(lines[m], m)}
        BY <4>2, PlannedTasks DEF PlanInv
      <4>4. tasks'[i].group \in {<<>>, Group(lines[m], m)}
        BY <1>3, <3>1, <4>1, <4>3
      <4> QED BY <1>5, <2>1, <4>2, <4>4
    <3>2. CASE i - Len(tasks) \in 1..Len(T)
      BY <1>1, <1>2, <1>3, <2>0, <3>2
    <3> QED BY <1>3, <3>1, <3>2
  <2>2. o + Len(T) <= Len(tasks') /\ n \in 1..line
    BY <1>1, <1>2, <1>3, <2>0
  <2>3. T = Planned(n)' /\ Group(lines[n], n)' = Group(lines[n], n)
    BY <1>4, <2>0, <2>2 DEF T
  <2>4. Block(n, o)'
    <3>1. \A k \in 1..Len(T) : tasks'[o + k] = T[k]
      BY <1>3, <2>0
    <3> QED BY <2>1, <2>2, <2>3, <3>1 DEF Block
  <2> QED BY <2>0, <2>4
<1>8. Blocks'
  <2> SUFFICES ASSUME NEW n \in 1..(line' - 1) PROVE \E o \in Nat : Block(n, o)'
    BY DEF Blocks
  <2>1. n \in 1..(line - 1) \/ n = line
    BY <1>1
  <2> QED BY <1>6, <1>7, <2>1
<1>9. Origins'
  <2> SUFFICES ASSUME NEW i \in 1..Len(tasks')
               PROVE  \E n \in 1..(line' - 1) : \E k \in 1..Len(Planned(n)') : tasks'[i] = Planned(n)'[k]
    BY DEF Origins
  <2>1. CASE i \in 1..Len(tasks)
    <3>1. PICK n \in 1..(line - 1) : \E k \in 1..Len(Planned(n)) : tasks[i] = Planned(n)[k]
      BY <2>1 DEF PlanInv, Origins
    <3>2. n \in 1..line /\ n \in 1..(line' - 1) /\ tasks'[i] = tasks[i]
      BY <1>1, <1>3, <2>1
    <3>3. Planned(n)' = Planned(n)
      BY <1>4, <3>2
    <3> QED BY <3>1, <3>2, <3>3
  <2>2. CASE i - Len(tasks) \in 1..Len(T)
    <3>0. PICK n \in Nat : n = line
      BY <1>1
    <3>1. n \in 1..line /\ n \in 1..(line' - 1)
      BY <1>1, <3>0
    <3>2. Planned(n)' = T
      BY <1>4, <3>0, <3>1 DEF T
    <3>3. tasks'[i] = T[i - Len(tasks)]
      <4>1. Len(tasks) + (i - Len(tasks)) = i
        BY <1>1, <1>3
      <4> QED BY <1>3, <2>2, <4>1
    <3> QED BY <2>2, <3>1, <3>2, <3>3
  <2> QED BY <1>3, <2>1, <2>2
<1>10. PlanTypes'
  <2>1. line' \in 1..(Len(lines') + 1)
    BY <1>1
  <2> QED BY <1>1, <1>3, <2>1 DEF PlanInv, PlanTypes
<1> QED BY <1>8, <1>9, <1>10 DEF PlanInv

LEMMA PlanNextInv == PlanInv /\ [PlanNext]_<<vars, lineVars>> => PlanInv'
<1> SUFFICES ASSUME PlanInv, [PlanNext]_<<vars, lineVars>> PROVE PlanInv'
  OBVIOUS
<1>1. CASE PlanLine
  BY <1>1, PlanLineInv
<1>2. CASE UNCHANGED lineVars
  <2>1. lines' = lines /\ mode' = mode /\ wanted' = wanted /\ line' = line /\ tasks' = tasks
    BY <1>2 DEF lineVars
  <2>2. PlanTypes'
    BY <2>1 DEF PlanInv, PlanTypes
  <2>3. ASSUME NEW n PROVE Planned(n)' = Planned(n) /\ Group(lines[n], n)' = Group(lines[n], n)
    BY <2>1 DEF Planned, TasksOf, Group
  <2>4. ASSUME NEW n, NEW o PROVE Block(n, o)' = Block(n, o)
    BY <2>1, <2>3 DEF Block
  <2>5. Blocks'
    BY <2>1, <2>4 DEF PlanInv, Blocks
  <2>6. Origins'
    BY <2>1, <2>3 DEF PlanInv, Origins
  <2> QED BY <2>2, <2>5, <2>6 DEF PlanInv
<1> QED BY <1>1, <1>2 DEF PlanNext, Chunking

(* The inductive invariant of planning from target lines.                  *)
THEOREM PlanInvariant == PlanSpec => []PlanInv
BY PlanInitInv, PlanNextInv, PTL DEF PlanSpec

(* The tasks of a line whose ports are split are the ones of its group.    *)
LEMMA SplitBlock ==
  ASSUME PlanInv, NEW n \in 1..(line - 1), Splits(lines[n])
  PROVE  /\ lines[n] \in TargetLine
         /\ IsSplit(Planned(n), lines[n], n) /\ Len(Planned(n)) \in Nat
         /\ \E o \in Nat :
              /\ Grouped(lines[n], n) = (o + 1)..(o + Len(Planned(n)))
              /\ \A k \in 1..Len(Planned(n)) : tasks[o + k] = Planned(n)[k]
<1> DEFINE l == lines[n]
           T == Planned(n)
<1>1. PlanTypes /\ n \in 1..Len(lines) /\ n \in Nat /\ wanted \in Nat \ {0} /\ Len(tasks) \in Nat
  <2>1. lines \in Seq(TargetLine) /\ tasks \in Seq(Task) /\ line \in 1..(Len(lines) + 1)
        /\ wanted \in Nat \ {0}
    BY DEF PlanInv, PlanTypes
  <2> HIDE DEF TargetLine, Task
  <2>2. Len(lines) \in Nat /\ Len(tasks) \in Nat
    BY <2>1
  <2> QED BY <2>1, <2>2 DEF PlanInv
<1>2. l \in TargetLine /\ T \in Seq(Task)
  BY <1>1, PlannedTasks
<1>3. IsSplit(T, l, n)
  BY <1>1, <1>2, LineSplit DEF Planned
<1>4. Len(T) \in Nat
  <2> HIDE DEF T, Task
  <2> QED BY <1>2
<1>5. \A k \in 1..Len(T) : T[k].group = Group(l, n)
  <2> DEFINE E == [target : Targets, options : Seq(PlainOption), spec : PortSpec,
                   group : {Group(l, n)}, idx : Nat, total : {Len(T)}]
  <2> HIDE DEF T, l
  <2>1. T \in Seq(E)
    BY <1>3 DEF IsSplit
  <2>2. \A e \in E : e.group = Group(l, n)
    OBVIOUS
  <2> HIDE DEF E
  <2>3. \A k \in 1..Len(T) : T[k] \in E
    BY <2>1
  <2> QED BY <2>2, <2>3
<1>6. PICK o \in Nat : Block(n, o)
  BY DEF PlanInv, Blocks
<1>7. Grouped(l, n) = (o + 1)..(o + Len(T))
  <2>1. Grouped(l, n) \subseteq (o + 1)..(o + Len(T))
    BY <1>6 DEF Grouped, Block
  <2>2. ASSUME NEW i \in (o + 1)..(o + Len(T))
        PROVE  i \in Grouped(l, n)
    <3>1. PICK k \in 1..Len(T) : i = o + k
      <4>1. i - o \in 1..Len(T) /\ i = o + (i - o)
        BY <1>4
      <4> QED BY <4>1
    <3>2. tasks[i] = T[k] /\ i \in 1..Len(tasks)
      BY <1>1, <1>4, <1>6, <3>1 DEF Block
    <3> QED BY <1>5, <3>2 DEF Grouped
  <2> QED BY <2>1, <2>2
<1>8. \A k \in 1..Len(T) : tasks[o + k] = T[k]
  BY <1>6 DEF Block
<1> QED BY <1>2, <1>3, <1>4, <1>7, <1>8

(* The ports of a line, among its own tasks.                               *)
LEMMA LinePorts ==
  ASSUME PlanInv, NEW n \in 1..(line - 1), Splits(lines[n])
  PROVE  LET l == lines[n]
             own == Grouped(l, n)
             sizes == {Cardinality(PortsOf(tasks[i].spec)) : i \in own}
         IN /\ UNION {PortsOf(tasks[i].spec) : i \in own} = PortsOf(Flags(l).spec)
            /\ \A i, j \in own :
                 i # j => PortsOf(tasks[i].spec) \intersect PortsOf(tasks[j].spec) = {}
            /\ {tasks[i].idx : i \in own} = 0..(Cardinality(own) - 1)
            /\ \A i \in own : tasks[i].total = Cardinality(own)
            /\ 0 \notin sizes /\ \A a, b \in sizes : a <= b + 1
<1> DEFINE l == lines[n]
           own == Grouped(l, n)
           sizes == {Cardinality(PortsOf(tasks[i].spec)) : i \in own}
           T == Planned(n)
           m == Len(T)
           S == PortsOf(Flags(l).spec)
<1>1. IsSplit(T, l, n) /\ m \in Nat
  BY SplitBlock
<1>2. PICK o \in Nat : /\ own = (o + 1)..(o + m)
                       /\ \A k \in 1..m : tasks[o + k] = T[k]
  BY SplitBlock
<1>3. /\ \A k \in 1..m : T[k].idx = k - 1
      /\ \A p \in S : \E k \in 1..m : p \in Ports(T[k])
      /\ \A k \in 1..m : Ports(T[k]) \subseteq S
      /\ \A j, k \in 1..m : j # k => Ports(T[j]) \cap Ports(T[k]) = {}
      /\ \E b \in Nat \ {0} : \A k \in 1..m : Cardinality(Ports(T[k])) \in {b, b + 1}
  BY <1>1 DEF IsSplit
<1>4. \A k \in 1..m : T[k].total = m
  <2> DEFINE E == [target : Targets, options : Seq(PlainOption), spec : PortSpec,
                   group : {Group(l, n)}, idx : Nat, total : {Len(T)}]
  <2>1. T \in Seq(E)
    <3> HIDE DEF T, l
    <3> QED BY <1>1 DEF IsSplit
  <2>2. \A e \in E : e.total = m
    OBVIOUS
  <2> HIDE DEF E, T
  <2>3. \A k \in 1..m : T[k] \in E
    BY <2>1
  <2> QED BY <2>2, <2>3
<1> HIDE DEF T, m, S, own, l
<1>5. \A i \in own : \E k \in 1..m : i = o + k /\ tasks[i] = T[k]
  <2> SUFFICES ASSUME NEW i \in own PROVE \E k \in 1..m : i = o + k /\ tasks[i] = T[k]
    OBVIOUS
  <2>1. i - o \in 1..m /\ i = o + (i - o)
    BY <1>1, <1>2
  <2> QED BY <1>2, <2>1
<1>6. \A k \in 1..m : o + k \in own
  BY <1>1, <1>2
<1>7. Cardinality(own) = m
  <2>1. Cardinality((o + 1)..(o + m)) = IF o + 1 > o + m THEN 0 ELSE (o + m) - (o + 1) + 1
    BY <1>1, FS_Interval
  <2> QED BY <1>1, <1>2, <2>1
<1>8. UNION {PortsOf(tasks[i].spec) : i \in own} = S
  <2>1. \A i \in own : PortsOf(tasks[i].spec) \subseteq S
    BY <1>3, <1>5 DEF Ports
  <2>2. \A p \in S : \E i \in own : p \in PortsOf(tasks[i].spec)
    <3> SUFFICES ASSUME NEW p \in S PROVE \E i \in own : p \in PortsOf(tasks[i].spec)
      OBVIOUS
    <3>1. PICK k \in 1..m : p \in Ports(T[k])
      BY <1>3
    <3>2. o + k \in own /\ tasks[o + k] = T[k]
      BY <1>2, <1>6
    <3> QED BY <3>1, <3>2 DEF Ports
  <2> HIDE DEF PortsOf
  <2> QED BY <2>1, <2>2
<1>9. \A i, j \in own : i # j => PortsOf(tasks[i].spec) \intersect PortsOf(tasks[j].spec) = {}
  <2> SUFFICES ASSUME NEW i \in own, NEW j \in own, i # j
               PROVE  PortsOf(tasks[i].spec) \intersect PortsOf(tasks[j].spec) = {}
    OBVIOUS
  <2>1. PICK a \in 1..m : i = o + a /\ tasks[i] = T[a]
    BY <1>5
  <2>2. PICK b \in 1..m : j = o + b /\ tasks[j] = T[b]
    BY <1>5
  <2>3. a # b
    BY <2>1, <2>2
  <2> QED BY <1>3, <2>1, <2>2, <2>3 DEF Ports
<1>10. {tasks[i].idx : i \in own} = 0..(m - 1)
  <2>1. ASSUME NEW i \in own PROVE tasks[i].idx \in 0..(m - 1)
    <3>1. PICK k \in 1..m : i = o + k /\ tasks[i] = T[k]
      BY <1>5
    <3> QED BY <1>1, <1>3, <3>1
  <2>2. ASSUME NEW x \in 0..(m - 1) PROVE \E i \in own : tasks[i].idx = x
    <3>1. x + 1 \in 1..m /\ (x + 1) - 1 = x
      BY <1>1
    <3>2. o + (x + 1) \in own /\ tasks[o + (x + 1)] = T[x + 1]
      BY <1>2, <1>6, <3>1
    <3>3. T[x + 1].idx = x
      BY <1>3, <3>1
    <3> QED BY <3>2, <3>3
  <2> QED BY <2>1, <2>2
<1>11. \A i \in own : tasks[i].total = m
  BY <1>4, <1>5
<1>12. 0 \notin sizes /\ \A a, b \in sizes : a <= b + 1
  <2>1. PICK b \in Nat \ {0} : \A k \in 1..m : Cardinality(Ports(T[k])) \in {b, b + 1}
    BY <1>3
  <2>2. \A i \in own : Cardinality(PortsOf(tasks[i].spec)) \in {b, b + 1}
    BY <1>5, <2>1 DEF Ports
  <2>3. \A x \in sizes : x \in {b, b + 1}
    BY <2>2
  <2> HIDE DEF sizes
  <2> QED BY <2>3
<1> QED BY <1>7, <1>8, <1>9, <1>10, <1>11, <1>12 DEF l, own, S

(* A task of a group: it comes from a line whose ports are split.          *)
LEMMA GroupedTask ==
  ASSUME PlanInv, NEW i \in 1..Len(tasks), tasks[i].group # <<>>
  PROVE  \E n \in 1..(line - 1) :
           /\ Splits(lines[n])
           /\ \E k \in 1..Len(Planned(n)) : tasks[i] = Planned(n)[k]
           /\ i \in Grouped(lines[n], n)
<1>1. PICK n \in 1..(line - 1) : \E k \in 1..Len(Planned(n)) : tasks[i] = Planned(n)[k]
  BY DEF PlanInv, Origins
<1>2. PICK k \in 1..Len(Planned(n)) : tasks[i] = Planned(n)[k]
  BY <1>1
<1>3. n \in 1..Len(lines) /\ PlanTypes
  <2>1. lines \in Seq(TargetLine) /\ line \in 1..(Len(lines) + 1)
    BY DEF PlanInv, PlanTypes
  <2> HIDE DEF TargetLine
  <2>2. Len(lines) \in Nat
    BY <2>1
  <2> QED BY <2>1, <2>2 DEF PlanInv
<1>4. Splits(lines[n]) /\ tasks[i].group = Group(lines[n], n)
  BY <1>2, <1>3, PlannedTasks
<1> QED BY <1>1, <1>4 DEF Grouped

(* Two tasks of one group have different numbers.                          *)
LEMMA GroupedNames ==
  ASSUME PlanInv, NEW n \in 1..(line - 1), Splits(lines[n]),
         NEW i \in Grouped(lines[n], n), NEW j \in Grouped(lines[n], n),
         tasks[i].idx = tasks[j].idx
  PROVE  i = j
<1> DEFINE T == Planned(n)
           m == Len(T)
<1>1. m \in Nat /\ \A k \in 1..m : T[k].idx = k - 1
  BY SplitBlock DEF IsSplit
<1>2. PICK o \in Nat : /\ Grouped(lines[n], n) = (o + 1)..(o + m)
                       /\ \A k \in 1..m : tasks[o + k] = T[k]
  BY SplitBlock
<1> HIDE DEF T, m
<1>3. \A x \in Grouped(lines[n], n) : tasks[x].idx = (x - o) - 1 /\ x \in Int
  <2> SUFFICES ASSUME NEW x \in Grouped(lines[n], n)
               PROVE  tasks[x].idx = (x - o) - 1 /\ x \in Int
    OBVIOUS
  <2>1. x - o \in 1..m /\ o + (x - o) = x /\ x \in Int
    BY <1>1, <1>2
  <2> QED BY <1>1, <1>2, <2>1
<1> QED BY <1>3

(* Every port of a line is scanned by exactly one of its tasks, and no     *)
(* other task has the name of their results: for every target file, every  *)
(* number of chunks and every port specification.                          *)
THEOREM PortsAreScannedOnce == PlanSpec => []PortsOnce
<1>1. PlanInv => PortsOnce
  <2> SUFFICES ASSUME PlanInv PROVE PortsOnce
    OBVIOUS
  <2>1. ASSUME NEW n \in 1..(line - 1), mode = "target-ports", Valid(Flags(lines[n]).spec)
        PROVE  Splits(lines[n])
    BY <2>1 DEF Splits
  <2>2. ASSUME NEW i \in 1..Len(tasks), tasks[i].group # <<>>,
               NEW k \in 1..Len(tasks[i].options)
        PROVE  tasks[i].options[k].flag # "pSpec"
    <3>1. PICK n \in 1..(line - 1) : /\ Splits(lines[n])
                                     /\ \E q \in 1..Len(Planned(n)) : tasks[i] = Planned(n)[q]
      BY <2>2, GroupedTask
    <3> DEFINE T == Planned(n)
               E == [target : Targets, options : Seq(PlainOption), spec : PortSpec,
                     group : {Group(lines[n], n)}, idx : Nat, total : {Len(T)}]
    <3>2. T \in Seq(E)
      BY <3>1, SplitBlock DEF IsSplit
    <3>3. \A e \in E : e.options \in Seq(PlainOption)
      OBVIOUS
    <3>4. tasks[i] \in E
      <4> HIDE DEF E
      <4> QED BY <3>1, <3>2
    <3>5. tasks[i].options \in Seq(PlainOption)
      BY <3>3, <3>4
    <3>6. tasks[i].options[k] \in PlainOption
      <4> DEFINE O == PlainOption
      <4>1. tasks[i].options \in Seq(O)
        BY <3>5
      <4> HIDE DEF O
      <4>2. tasks[i].options[k] \in O
        BY <4>1
      <4> QED BY <4>2 DEF O
    <3> QED BY <3>6 DEF PlainOption
  <2>3. ASSUME NEW i \in 1..Len(tasks), NEW j \in 1..Len(tasks), i # j, tasks[i].group # <<>>
        PROVE  Name(tasks[i]) # Name(tasks[j])
    <3> SUFFICES ASSUME tasks[i].group = tasks[j].group, tasks[i].idx = tasks[j].idx
                 PROVE  FALSE
      BY DEF Name
    <3>1. PICK n \in 1..(line - 1) : Splits(lines[n]) /\ i \in Grouped(lines[n], n)
      BY <2>3, GroupedTask
    <3>2. j \in Grouped(lines[n], n)
      BY <3>1 DEF Grouped
    <3> QED BY <2>3, <3>1, <3>2, GroupedNames
  <2> QED BY <2>1, <2>2, <2>3, LinePorts DEF PortsOnce
<1> QED BY <1>1, PlanInvariant, PTL
=============================================================================
