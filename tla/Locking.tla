------------------------------ MODULE Locking -------------------------------
(***************************************************************************)
(* Lock_LT_initiator as it is wired: its two threads run against each      *)
(* other and against the regular initiators, thread_process_1 through      *)
(* Lock_interconnect (module Lock) and thread_process_2 through            *)
(* Load_link_interconnect (module LoadLink).  The AT interconnect tells    *)
(* them apart by the address and keeps nothing of a b_transport call.      *)
(***************************************************************************)
EXTENDS Lock, LoadLink

vars == <<lockVars, linkVars>>

Init == LockInit /\ LinkInit

thread_process_1 == LockNext /\ UNCHANGED linkVars
thread_process_2 == LinkNext /\ UNCHANGED lockVars    \* and the regular writes

Next == thread_process_1 \/ thread_process_2

Spec == Init /\ [][Next]_vars

TypeOK == LockTypeOK /\ LinkTypeOK
=============================================================================
