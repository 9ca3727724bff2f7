----------------------------- MODULE Admission -----------------------------
(***************************************************************************)
(* Which of the workers heard from may take work: applyAdmissionPolicy,    *)
(* applyRolloutAdmission and the counts Summarize derives from them        *)
(* (internal/fleet/fleet.go).  Operators only; Fleet and FleetRepair apply *)
(* them to what the manager, or a snapshot query, knows of the workers.    *)
(*                                                                         *)
(* A worker here is a record                                               *)
(*   [id, ip, ver, v6, healthy, quar]                                      *)
(* with id its index N in heph-worker-N, v6 whether it has a validated     *)
(* IPv6 address, and quar whether QuarantinedUntil lies ahead.  Ready      *)
(* needs no field: publishHeartbeat always sends it TRUE, and Reconcile    *)
(* clears it together with Healthy.                                        *)
(***************************************************************************)
EXTENDS Naturals, FiniteSets

CONSTANTS
  NoIP,       \* no public IPv4 was found on the worker
  NoVersion   \* an empty version: none reported, none demanded

(* No rollout record is stored for the tool. *)
NoRollout == [phase |-> "none", target |-> NoVersion, previous |-> NoVersion, canary |-> {}]

(* Why a rollout in progress keeps w out, or "" when it does not. *)
RolloutReason(r, expected, w) ==
  LET target == IF r.target # NoVersion THEN r.target ELSE expected
      old == target # NoVersion /\ w.ver # target
  IN CASE r.phase = "canary" ->
            IF old THEN "draining_old_generation"
            ELSE IF r.canary # {} /\ w.id \notin r.canary THEN "not_canary" ELSE ""
       [] r.phase \in {"promoting", "draining-old", "stable"} ->
            IF old THEN "draining_old_generation" ELSE ""
       [] r.phase = "rolled-back" /\ r.previous # NoVersion /\ w.ver # r.previous ->
            "rollback_mismatch"
       [] OTHER -> ""

(* Why w is excluded whatever the other workers do, or "".  f is what the  *)
(* manager was configured with: the expected version, the rollout, the     *)
(* effective reputation of an address, and the placement policy.           *)
Reason(w, f) ==
  IF ~w.healthy THEN "unhealthy"
  ELSE IF w.quar THEN "quarantined_unhealthy"
  ELSE IF w.ip # NoIP /\ f.rep[w.ip] = "cooling_down" THEN "reputation_cooling_down"
  ELSE IF w.ip # NoIP /\ f.rep[w.ip] = "quarantined" THEN "reputation_quarantined"
  ELSE IF w.ip # NoIP /\ f.rep[w.ip] = "retired" THEN "reputation_retired"
  ELSE IF f.expected # NoVersion /\ w.ver = NoVersion THEN "version_unknown"
  ELSE IF f.expected # NoVersion /\ w.ver # f.expected THEN "version_mismatch"
  ELSE IF RolloutReason(f.rollout, f.expected, w) # ""
       THEN RolloutReason(f.rollout, f.expected, w)
  ELSE IF f.needsV6 /\ ~w.v6 THEN "ipv6_not_ready"
  ELSE ""

(* Workers behind one address share a placement identity; one without an   *)
(* address is known by its host, which no other worker has.                *)
Identity(w) == IF w.ip # NoIP THEN w.ip ELSE w.id

(* Mutants: the worker that reaches the limit is still let in; a worker    *)
(* counts against its own limit.                                           *)
MutEligibleOneLess(ws, f) ==
  LET passing == {w \in ws : Reason(w, f) = ""}
      before(w) == {v \in passing : Identity(v) = Identity(w) /\ v.id <= w.id}
  IN {w \in passing : f.limit = 0 \/ Cardinality(before(w)) < f.limit}

MutEligibleOneMore(ws, f) ==
  LET passing == {w \in ws : Reason(w, f) = ""}
      before(w) == {v \in passing : Identity(v) = Identity(w) /\ v.id < w.id}
  IN {w \in passing : f.limit = 0 \/ Cardinality(before(w)) <= f.limit}

(* The placement limit is applied in the order of the worker IDs (of their *)
(* text, which is the order of their indexes below ten), to those nothing  *)
(* else excludes; 0 means no limit.                                        *)
Eligible(ws, f) ==
  LET passing == {w \in ws : Reason(w, f) = ""}
      before(w) == {v \in passing : Identity(v) = Identity(w) /\ v.id < w.id}
  IN {w \in passing : f.limit = 0 \/ Cardinality(before(w)) < f.limit}

(* UniqueEligibleIPv4Count. *)
UniqueIPs(ws) == Cardinality({w.ip : w \in ws} \ {NoIP})
=============================================================================
