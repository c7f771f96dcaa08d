------------------------------ MODULE CpuPort ------------------------------
(***************************************************************************)
(* What a cache promises to its processor, and the simulator to its user:  *)
(* a processor has one operation outstanding at a time, each is completed  *)
(* and entered in the statistics exactly once, and the simulation ends     *)
(* only when nothing is outstanding.                                       *)
(***************************************************************************)
EXTENDS Naturals

CONSTANTS CPUs

VARIABLES outstanding,   \* processors that wait for their cache
          counted,       \* operations of each processor in the statistics
          halted

portVars == <<outstanding, counted, halted>>

Init ==
  /\ outstanding = {}
  /\ counted = [c \in CPUs |-> 0]
  /\ halted = FALSE

Issue(c) ==
  /\ ~halted /\ c \notin outstanding
  /\ outstanding' = outstanding \cup {c}
  /\ UNCHANGED <<counted, halted>>

Complete(c) ==
  /\ c \in outstanding
  /\ outstanding' = outstanding \ {c}
  /\ counted' = [counted EXCEPT ![c] = @ + 1]
  /\ UNCHANGED halted

Halt ==
  /\ outstanding = {}
  /\ halted' = TRUE
  /\ UNCHANGED <<outstanding, counted>>

Next == Halt \/ \E c \in CPUs : Issue(c) \/ Complete(c)

Spec == Init /\ [][Next]_portVars

FairSpec == Spec /\ \A c \in CPUs : WF_portVars(Complete(c))
=============================================================================
