------------------------------- MODULE Claims -------------------------------
(***************************************************************************)
(* What comments of the code say of the simulator, and it does not do.     *)
(***************************************************************************)
EXTENDS PSA

(* utils.h:17-18 on CACHEL_REQUESTED: "this is a new state which is needed *)
(* to show that current cacheline is requested to eliminate a problem of   *)
(* two consequative requests and two exclusive states".                    *)
OneExclusive ==
  \A c, d \in CPUs, s \in Sets, w, v \in WaySet :
    /\ line[c][s][w].state = "EXCLUSIVE" /\ line[d][s][v].state = "EXCLUSIVE"
    /\ line[c][s][w].tag = line[d][s][v].tag
    => c = d

(* Cache.h:62: "this thread actually performs snooping on interconnection  *)
(* bus and invalids cacheline if write was sent".  When the processes      *)
(* woken by the message have run, no other cache has a copy.               *)
WriteInvalidates ==
  phase = "delta" /\ run = {} /\ wires.func \in {"WRITE", "INVALIDATE"} =>
    \A d \in CPUs \ {wires.id} :
      Matches(line[d][wires.addr.set], wires.addr.tag) = {}
=============================================================================
