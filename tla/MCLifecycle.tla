---------------------------- MODULE MCLifecycle -----------------------------
(* Lifecycle for TLC: which flags the commands of the instances have.      *)
EXTENDS Lifecycle

CONSTANTS s1, s2

O(kind, tool, noDeploy, destroyAfter, outDir) ==
  [kind |-> kind, tool |-> tool, noDeploy |-> noDeploy, destroyAfter |-> destroyAfter,
   outDir |-> outDir, spot |-> FALSE]
Spot(o) == [o EXCEPT !.spot = TRUE]

(* A scan that deploys, beside one of another kind of input that runs on   *)
(* what is deployed, for the same or another tool, or one of the infra     *)
(* commands.  Spot instances are of AWS; elsewhere the flag is ignored.    *)
MixedOptions ==
  [s \in Session |->
    IF s = s1
    THEN { Spot(O("targets", "nmap", FALSE, TRUE, TRUE)) }
    ELSE { O("nmap", "nmap", TRUE, FALSE, TRUE), O("chunks", "nmap", TRUE, TRUE, FALSE),
           O("wordlist", "ffuf", TRUE, FALSE, FALSE), O("deploy", "ffuf", FALSE, FALSE, FALSE),
           O("recover", "nmap", FALSE, FALSE, FALSE), O("destroy", "ffuf", FALSE, FALSE, FALSE) }]

(* Two scans of one tool and size on spot instances, one after the other   *)
(* or at once.                                                             *)
SpotOptions == [s \in Session |-> { Spot(O("targets", "ffuf", FALSE, FALSE, TRUE)) }]
=============================================================================
