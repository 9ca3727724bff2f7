------------------------------ MODULE Planning ------------------------------
(***************************************************************************)
(* What becomes the tasks of a job: a file in chunks (Splitting), or the   *)
(* lines of an nmap target file, each of them one task or, in the mode     *)
(* target-ports, one task for each part of its ports.                      *)
(*                                                                         *)
(*   internal/tools/nmap/scanner.go     ParseTargetsWithMode               *)
(*   internal/tools/nmap/portparse.go   the port specifications            *)
(*   internal/jobs/paths.go             the names of the results           *)
(*                                                                         *)
(* A port specification is the sequence of its segments [lo, hi], or       *)
(* NoSpec; an option is a word: "-p" alone, "-pSPEC", or another word with *)
(* what it would be as a specification.  Blank lines are left out.         *)
(***************************************************************************)
EXTENDS Splitting

CONSTANTS
  MaxPort,      \* the largest port
  Targets,      \* what a line may name
  TargetFiles,  \* the target files tried
  PortChunks    \* the values of --port-chunks

PortSpec == Seq([lo : Int, hi : Int])
NoSpec == <<>>   \* empty, or no specification
Option == [flag : {"p", "pSpec", "other"}, spec : PortSpec]
TargetLine == [target : Targets, options : Seq(Option)]

ASSUME PlanningAssumption ==
  /\ MaxPort \in Nat \ {0} /\ PortChunks \subseteq Nat \ {0}
  /\ TargetFiles \subseteq Seq(TargetLine)
  /\ <<>> \in Files /\ <<>> \in Rewrites(<<>>) /\ Policies # {}

VARIABLES
  lines,   \* the target lines
  mode,    \* target-only or target-ports
  wanted,  \* --port-chunks
  line,    \* the line to be planned next
  tasks    \* the tasks planned

lineVars == <<lines, mode, wanted, line, tasks>>

-----------------------------------------------------------------------------
(* Ports. *)

Unread == [spec |-> NoSpec, found |-> FALSE, rest |-> <<>>, skip |-> FALSE]
TakeFlag(seen, spec) == [seen EXCEPT !.spec = spec, !.found = TRUE]

(* One word: "-p" takes the word after it, whatever it is; at the end it   *)
(* is a word like others.                                                  *)
ReadOption(seen, options, i) ==
  LET o == options[i] IN
  IF seen.skip THEN [seen EXCEPT !.skip = FALSE]
  ELSE IF o.flag = "p" /\ i < Len(options)
       THEN [TakeFlag(seen, IF options[i + 1].flag = "other" THEN options[i + 1].spec
                            ELSE NoSpec) EXCEPT !.skip = TRUE]
  ELSE IF o.flag = "pSpec" THEN TakeFlag(seen, o.spec)
  ELSE [seen EXCEPT !.rest = Append(@, o)]

(* The last port flag counts, and all of them are taken out. *)
ExtractPortFlag(options) ==
  LET seen[n \in 0..Len(options)] ==
        IF n = 0 THEN Unread ELSE ReadOption(seen[n - 1], options, n)
  IN seen[Len(options)]

(* validatePort on both ends of every segment. *)
Valid(spec) ==
  spec # NoSpec /\ \A i \in 1..Len(spec) :
    spec[i].lo \in 1..MaxPort /\ spec[i].hi \in 1..MaxPort /\ spec[i].lo <= spec[i].hi

PortsOf(spec) == UNION {spec[i].lo..spec[i].hi : i \in 1..Len(spec)}
ParsePortSpec(spec) ==
  LET sorted[p \in 0..MaxPort] ==
        IF p = 0 THEN <<>>
        ELSE IF p \in PortsOf(spec) THEN Append(sorted[p - 1], p) ELSE sorted[p - 1]
  IN sorted[MaxPort]

(* Of k chunks of the ports, the i-th ends with this one: the first ones  *)
(* take the remainder.                                                     *)
Offset(count, k, i) == i * (count \div k) + Smaller(i, count % k)

(* As many chunks as there are ports at most. *)
SplitPorts(ports, n) ==
  LET count == Len(ports)
      k == Smaller(n, count)
  IN [i \in 1..k |-> SubSeq(ports, Offset(count, k, i - 1) + 1, Offset(count, k, i))]

(* Mutant: ports two apart are taken for neighbours. *)
MutNeighbours(end, port) == port <= end + 2

Neighbours(end, port) == port = end + 1

(* Neighbouring ports are written as a range. *)
WritePort(spec, port) ==
  IF spec # NoSpec /\ Neighbours(spec[Len(spec)].hi, port)
  THEN [spec EXCEPT ![Len(spec)].hi = port]
  ELSE Append(spec, [lo |-> port, hi |-> port])
FormatPortSpec(ports) ==
  LET written[n \in 0..Len(ports)] ==
        IF n = 0 THEN NoSpec ELSE WritePort(written[n - 1], ports[n])
  IN written[Len(ports)]

-----------------------------------------------------------------------------
(* Tasks. *)

AllPorts == <<[lo |-> 1, hi |-> MaxPort]>>

(* The flags of a line: its own options, or the default ones when it has   *)
(* none; without a port flag all ports are meant.                          *)
Flags(l) ==
  LET seen == ExtractPortFlag(l.options)
  IN IF seen.found THEN seen ELSE [seen EXCEPT !.spec = AllPorts, !.rest = l.options]

Whole(l) == [target |-> l.target, options |-> l.options, spec |-> NoSpec,
             group |-> <<>>, idx |-> 0, total |-> 0]

Group(l, n) == <<l.target, n>>

(* One task when the ports cannot be read, to the worker as they are. *)
TasksOf(l, n) ==
  LET flags == Flags(l)
      parts == SplitPorts(ParsePortSpec(flags.spec), wanted)
  IN IF mode = "target-only" \/ ~Valid(flags.spec) THEN <<Whole(l)>>
     ELSE [i \in 1..Len(parts) |->
            [target |-> l.target, options |-> flags.rest, spec |-> FormatPortSpec(parts[i]),
             group |-> Group(l, n), idx |-> i - 1, total |-> Len(parts)]]

(* A job is planned from a file of entries or from target lines. *)
LinesInit ==
  /\ first = <<>> /\ file = <<>> /\ policy = (CHOOSE p \in Policies : TRUE)
  /\ phase = "ready"
  /\ meta = NoMeta /\ pos = 1 /\ done = 0
  /\ cur = NoChunk /\ chunks = <<>> /\ stored = {}

PlanInit ==
  /\ line = 1 /\ tasks = <<>>
  /\ \/ Init /\ lines = <<>> /\ mode = "target-only" /\ wanted = 1
     \/ LinesInit /\ lines \in TargetFiles /\ mode \in {"target-only", "target-ports"}
        /\ wanted \in PortChunks

PlanLine ==
  /\ line <= Len(lines)
  /\ tasks' = tasks \o TasksOf(lines[line], line)
  /\ line' = line + 1
  /\ UNCHANGED <<vars, lines, mode, wanted>>

Chunking(Step) == Step /\ UNCHANGED lineVars

PlanNext ==
  \/ Chunking(Inspect) \/ Chunking(SkipLine) \/ Chunking(WriteEntry) \/ Chunking(Finish)
  \/ Chunking(UploadChunk) \/ Chunking(MakeTasks)
  \/ PlanLine

PlanSpec == PlanInit /\ [][PlanNext]_<<vars, lineVars>>

-----------------------------------------------------------------------------
Grouped(l, n) == {i \in 1..Len(tasks) : tasks[i].group = Group(l, n)}

(* The name of a task's result, but for the second: where two tasks have   *)
(* the same one, the later result may replace the earlier.                 *)
Name(t) == <<t.target, t.group, t.idx>>

(* Each port of a line is scanned by exactly one of its tasks, as the      *)
(* worker reads what was written for it; the tasks are numbered through,   *)
(* none is empty or has two ports more than another, no "-pSPEC" is left   *)
(* in their options, and no other task, not even one of a second line for  *)
(* the same target, has the name of their results.                         *)
PortsOnce ==
  /\ \A n \in 1..(line - 1) :
       LET l == lines[n]
           own == Grouped(l, n)
           sizes == {Cardinality(PortsOf(tasks[i].spec)) : i \in own}
       IN mode = "target-ports" /\ Valid(Flags(l).spec) =>
            /\ UNION {PortsOf(tasks[i].spec) : i \in own} = PortsOf(Flags(l).spec)
            /\ \A i, j \in own :
                 i # j => PortsOf(tasks[i].spec) \intersect PortsOf(tasks[j].spec) = {}
            /\ {tasks[i].idx : i \in own} = 0..(Cardinality(own) - 1)
            /\ \A i \in own : tasks[i].total = Cardinality(own)
            /\ 0 \notin sizes /\ \A a, b \in sizes : a <= b + 1
  /\ \A i \in 1..Len(tasks) : \A k \in 1..Len(tasks[i].options) :
       tasks[i].group # <<>> => tasks[i].options[k].flag # "pSpec"
  /\ \A i, j \in 1..Len(tasks) :
       i # j /\ tasks[i].group # <<>> => Name(tasks[i]) # Name(tasks[j])
=============================================================================
