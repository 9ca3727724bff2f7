----------------------------- MODULE Splitting ------------------------------
(***************************************************************************)
(* A target list or a wordlist becomes chunk files, uploads and tasks.     *)
(* The file is read twice: once to count (InspectFile), once to split, and *)
(* it may have been written to in between.                                 *)
(*                                                                         *)
(*   internal/tools/{targetlist,wordlist}/splitter.go   SplitFile          *)
(*   internal/jobs/{targetlist,wordlist,upload}.go      plan and upload    *)
(*   internal/scanapp/scanapp.go          RunTargetListScan, RunWordlistScan *)
(*                                                                         *)
(* A line is the number of bytes its entry takes in a chunk, 0 when it is  *)
(* empty or a comment.  An entry is known by its place among the entries.  *)
(* Any write, flush, open or upload may fail.  The temporary files chunks  *)
(* are written to are left out.                                            *)
(***************************************************************************)
EXTENDS Integers, Sequences, FiniteSets

CONSTANTS
  Files,      \* the files tried: sequences of entry sizes
  Policies,   \* requested chunks (0: choose), workers, target and largest chunk
  Rewrites(_) \* what a file may have become by its second reading

ASSUME SplittingAssumption ==
  /\ \A f \in Files : f \in Seq(Nat) /\ \A g \in Rewrites(f) : g \in Seq(Nat)
  /\ \A p \in Policies : /\ p.requested \in Int /\ p.workers \in Int
                         /\ p.target \in Nat \ {0} /\ p.max \in Nat \ {0}

VARIABLES
  first,    \* the file as InspectFile read it
  file,     \* the file as it is split
  policy,
  phase,    \* inspect, split, upload, ready or failed
  meta,     \* what InspectFile found
  pos,      \* the line to be split next
  done,     \* entries written (processed)
  cur,      \* the open chunk: its first entry, entries and bytes; none if empty
  chunks,   \* the finished chunks
  stored    \* chunk indexes uploaded

vars == <<first, file, policy, phase, meta, pos, done, cur, chunks, stored>>
input == <<first, file, policy>>

Sum(s) ==
  LET upTo[n \in 0..Len(s)] == IF n = 0 THEN 0 ELSE upTo[n - 1] + s[n]
  IN upTo[Len(s)]
Entries(f, n) == Cardinality({i \in 1..n : f[i] > 0})    \* among the first n lines
CeilDiv(n, d) == (n + d - 1) \div d
NoChunk == [from |-> 0, count |-> 0, bytes |-> 0]
NoMeta == [targets |-> 0, share |-> 0, effective |-> 0]
Larger(a, b) == IF a >= b THEN a ELSE b
Smaller(a, b) == IF a <= b THEN a ELSE b

Chunk == [from : Nat, count : Nat, bytes : Nat]
SplittingTypeOK ==
  /\ first \in Files /\ file \in Rewrites(first) /\ policy \in Policies
  /\ phase \in {"inspect", "split", "upload", "ready", "failed"}
  /\ pos \in 1..Len(file) + 1 /\ done \in Nat
  /\ meta \in [targets : Nat, share : Nat, effective : Nat]
  /\ cur \in Chunk /\ chunks \in Seq(Chunk)
  /\ stored \subseteq 1..Len(chunks)

Init ==
  /\ first \in Files /\ policy \in Policies /\ file \in Rewrites(first)
  /\ phase = "inspect" /\ meta = NoMeta /\ pos = 1 /\ done = 0
  /\ cur = NoChunk /\ chunks = <<>> /\ stored = {}

(* Chosen by size, but at least one for each worker; never more than there *)
(* are entries.                                                            *)
EffectiveChunks(source, targets) ==
  Smaller(targets, Larger(1, IF policy.requested > 0 THEN policy.requested
                             ELSE Larger(CeilDiv(source, policy.target), policy.workers)))

(* A line that yields no entry still takes a byte of the file. *)
SourceBytes(f) == Sum(f) + Len(f) - Entries(f, Len(f))

Fail == phase' = "failed" /\ UNCHANGED <<input, meta, pos, done, cur, chunks, stored>>

Inspect ==
  LET source == SourceBytes(first)
      targets == Entries(first, Len(first))
      effective == EffectiveChunks(source, targets)
  IN /\ phase = "inspect"
     /\ \/ Fail      \* not there, a directory, a line too long
        \/ /\ policy.requested >= 0 /\ targets > 0
           /\ policy.requested > 0 => CeilDiv(source, policy.requested) <= policy.max
           /\ meta' = [targets |-> targets, effective |-> effective,
                       share |-> Larger(1, CeilDiv(Sum(first), effective))]
           /\ phase' = "split"
           /\ UNCHANGED <<input, pos, done, cur, chunks, stored>>

Future == meta.effective - Len(chunks) - 1

(* Mutant: no chunk is kept back for the entries still to come. *)
MutCut(n) == \/ cur.bytes + n > policy.max
             \/ Future > 0 /\ cur.bytes + n > meta.share

(* Whether the open chunk ends before an entry of n bytes: it would be too *)
(* large, it has its share, or the entries left are needed one by one to   *)
(* fill the chunks left.                                                   *)
Cut(n) ==
  \/ cur.bytes + n > policy.max
  \/ /\ Future > 0
     /\ cur.bytes + n > meta.share \/ meta.targets - done <= Future

Fits(n) ==
  /\ n <= policy.max
  /\ cur.count > 0 /\ cur.bytes + n > policy.max => Future > 0

(* Mutant: the entry that ends a chunk is left out of the next one. *)
MutBegin(n) == [from |-> done + 2, count |-> 1, bytes |-> n]

Begin(n) == [from |-> done + 1, count |-> 1, bytes |-> n]

SkipLine ==
  /\ phase = "split" /\ pos <= Len(file) /\ file[pos] = 0
  /\ pos' = pos + 1
  /\ UNCHANGED <<input, phase, meta, done, cur, chunks, stored>>

WriteEntry ==
  /\ phase = "split" /\ pos <= Len(file) /\ file[pos] > 0
  /\ LET n == file[pos] IN
     \/ /\ Fits(n)
        /\ IF cur.count > 0 /\ ~Cut(n)
           THEN /\ cur' = [cur EXCEPT !.count = @ + 1, !.bytes = @ + n]
                /\ UNCHANGED chunks
           ELSE /\ cur' = Begin(n)
                /\ chunks' = IF cur.count > 0 THEN Append(chunks, cur) ELSE chunks
        /\ pos' = pos + 1 /\ done' = done + 1
        /\ UNCHANGED <<input, phase, meta, stored>>
     \/ Fail

(* The last chunk is finished; the number of chunks is what was made.      *)
Finish ==
  /\ phase = "split" /\ pos > Len(file)
  /\ \/ /\ chunks' = IF cur.count > 0 THEN Append(chunks, cur) ELSE chunks
        /\ cur' = NoChunk /\ phase' = "upload"
        /\ UNCHANGED <<input, meta, pos, done, stored>>
     \/ Fail

(* Mutant: the last chunk is forgotten. *)
MutNextChunks == {i \in 1..Len(chunks) - 1 : i \notin stored /\ \A k \in 1..i - 1 : k \in stored}

NextChunks == {i \in 1..Len(chunks) : i \notin stored /\ \A k \in 1..i - 1 : k \in stored}
UploadChunk ==
  /\ phase = "upload"
  /\ \/ \E i \in NextChunks : chunks[i].bytes <= policy.max /\ stored' = stored \union {i}
        /\ UNCHANGED <<input, phase, meta, pos, done, cur, chunks>>
     \/ Fail

(* Uploaded: the tasks are made, one for each chunk. *)
MakeTasks ==
  /\ phase = "upload" /\ NextChunks = {}
  /\ phase' = "ready"
  /\ UNCHANGED <<input, meta, pos, done, cur, chunks, stored>>

Next == Inspect \/ SkipLine \/ WriteEntry \/ Finish \/ UploadChunk \/ MakeTasks
Spec == Init /\ [][Next]_vars

-----------------------------------------------------------------------------
(* The chunks finished and the open one hold the entries read so far, each *)
(* exactly once and in their order, whatever the file has become since it  *)
(* was counted (TestSplitFile: nothing is lost at a chunk boundary).       *)
All == IF cur.count > 0 THEN Append(chunks, cur) ELSE chunks
EntriesKept ==
  phase # "failed" =>
    /\ \A i \in 1..Len(All) :
         All[i].from = (IF i = 1 THEN 1 ELSE All[i - 1].from + All[i - 1].count)
    /\ done = IF All = <<>> THEN 0 ELSE All[Len(All)].from + All[Len(All)].count - 1

(* No chunk is empty or larger than the largest safe chunk; there are      *)
(* never more of them than planned, and when the file is still the one     *)
(* that was counted there are exactly as many: as many tasks as workers,   *)
(* if there are that many entries, and the input keys that were announced. *)
ChunksAsPlanned ==
  /\ \A i \in 1..Len(All) : All[i].count > 0 /\ All[i].bytes <= policy.max
  /\ Len(All) <= meta.effective
  /\ phase \in {"upload", "ready"} /\ file = first => Len(chunks) = meta.effective

(* A job whose tasks are made has every entry of the file in a chunk that  *)
(* is stored.                                                              *)
TasksHaveInput ==
  phase = "ready" => /\ stored = 1..Len(chunks)
                     /\ done = Entries(file, Len(file))
=============================================================================
