------------------------------ MODULE LoadLink ------------------------------
(***************************************************************************)
(* The load-link path of the locking examples: the thread of               *)
(* Lock_LT_initiator that loads and stores conditionally                   *)
(* (lock_lt_initiator.h, thread_process_2), the interconnect in front of   *)
(* its memory (load_link_interconnect.h), the memory (lock_lt_target.h),   *)
(* and the regular writes of the other initiators.                         *)
(*                                                                         *)
(* The thread calls b_transport and is answered in the same step.  The     *)
(* regular initiators use the non-blocking interface, which the socket of  *)
(* the memory turns into a call of b_transport at a later time: a regular  *)
(* transaction passes the interconnect (BEGIN_REQ), is executed, answered  *)
(* (BEGIN_RESP), and may pass the interconnect again (END_RESP).           *)
(***************************************************************************)
EXTENDS Integers

CONSTANTS LinkAddr,       \* addresses of the memory
          Others,         \* regular transactions that may be under way
          LinkIterations  \* 1000

ASSUME LoadLinkAssumption == LinkAddr # {} /\ LinkIterations \in Nat

VARIABLES
  link_map,     \* Load_link_interconnect: the addresses with a link
  i2,           \* iterations of thread_process_2
  addr2,        \* the address of its cycle
  next_load,    \* the next iteration starts a fresh cycle
  failed,       \* the last store was bounced
  regular,      \* the regular writes under way
  passed,       \* addresses a write has passed to since they were loaded
  overwritten   \* addresses a write was executed at since they were loaded

thread == <<i2, addr2, next_load, failed>>
linkVars == <<link_map, thread, regular, passed, overwritten>>

Phases == {"idle", "BEGIN_REQ", "executed", "BEGIN_RESP"}

LinkInit ==
  /\ link_map = [a \in LinkAddr |-> FALSE]
  /\ i2 = 0
  /\ addr2 = CHOOSE a \in LinkAddr : TRUE
  /\ next_load = TRUE
  /\ failed = FALSE
  /\ regular = [o \in Others |-> [phase |-> "idle", adr |-> CHOOSE a \in LinkAddr : TRUE]]
  /\ passed = {}
  /\ overwritten = {}

-----------------------------------------------------------------------------
(* load_link_store_conditional.                                            *)

(* Mutant: a regular write leaves the link.                                *)
Untouched(a) == link_map

(* A regular write clears the link.                                        *)
Cleared(a) == [link_map EXCEPT ![a] = FALSE]

(* Mutant: a store that succeeds leaves its link.                          *)
AfterStoreLinked(a) == link_map

AfterStore(a) == [link_map EXCEPT ![a] = FALSE]

(* Mutant: the loop runs once too often.                                   *)
LoopingOnce == i2 <= LinkIterations

Looping == i2 < LinkIterations

(* LOAD_LINK: thread_process_2 with i2 even.                               *)
Load ==
  /\ Looping
  /\ i2 % 2 = 0
  /\ \E a \in LinkAddr :
       /\ ~next_load => a = addr2
       /\ addr2' = a
       /\ link_map' = [link_map EXCEPT ![a] = TRUE]
       /\ passed' = passed \ {a}
       /\ overwritten' = overwritten \ {a}
  /\ next_load' = FALSE
  /\ i2' = i2 + 1
  /\ failed' = FALSE
  /\ UNCHANGED regular

(* STORE_CONDITIONAL: thread_process_2 with i2 odd.                        *)
StoreConditional ==
  /\ Looping
  /\ i2 % 2 = 1
  /\ failed' = ~link_map[addr2]
  /\ next_load' = link_map[addr2]
  /\ link_map' = IF link_map[addr2] THEN AfterStore(addr2) ELSE link_map
  /\ i2' = i2 + 1
  /\ UNCHANGED <<addr2, regular, passed, overwritten>>

-----------------------------------------------------------------------------
(* A regular write.                                                        *)

Moves(o, from, to) ==
  /\ regular[o].phase = from
  /\ regular' = [regular EXCEPT ![o].phase = to]

(* The interconnect forwards one request at a time (AT_interconnect): the  *)
(* request before it has been answered.                                    *)
BeginReq(o) ==
  /\ regular[o].phase = "idle"
  /\ \A p \in Others : regular[p].phase \notin {"BEGIN_REQ", "executed"}
  /\ \E a \in LinkAddr :
       /\ regular' = [regular EXCEPT ![o] = [phase |-> "BEGIN_REQ", adr |-> a]]
       /\ link_map' = Cleared(a)
       /\ passed' = passed \union {a}
  /\ UNCHANGED <<thread, overwritten>>

(* The socket calls b_transport of the memory.                             *)
Execute(o) ==
  /\ Moves(o, "BEGIN_REQ", "executed")
  /\ overwritten' = overwritten \union {regular[o].adr}
  /\ UNCHANGED <<thread, link_map, passed>>

(* The socket sends one response at a time.                                *)
BeginResp(o) ==
  /\ \A p \in Others : regular[p].phase # "BEGIN_RESP"
  /\ Moves(o, "executed", "BEGIN_RESP")
  /\ UNCHANGED <<thread, link_map, passed, overwritten>>

(* END_RESP passes the interconnect like a request.                        *)
EndResp(o) ==
  /\ Moves(o, "BEGIN_RESP", "idle")
  /\ link_map' = Cleared(regular[o].adr)
  /\ UNCHANGED <<thread, passed, overwritten>>

(* The initiator ended the transaction with TLM_COMPLETED.                 *)
Completed(o) ==
  /\ Moves(o, "BEGIN_RESP", "idle")
  /\ UNCHANGED <<thread, link_map, passed, overwritten>>

LinkNext ==
  \/ Load
  \/ StoreConditional
  \/ \E o \in Others : \/ BeginReq(o) \/ Execute(o) \/ BeginResp(o)
                       \/ EndResp(o) \/ Completed(o)

LinkSpec == LinkInit /\ [][LinkNext]_linkVars

-----------------------------------------------------------------------------
LinkTypeOK ==
  /\ link_map \in [LinkAddr -> BOOLEAN]
  /\ i2 \in 0..LinkIterations
  /\ addr2 \in LinkAddr
  /\ next_load \in BOOLEAN
  /\ failed \in BOOLEAN
  /\ regular \in [Others -> [phase : Phases, adr : LinkAddr]]
  /\ passed \in SUBSET LinkAddr
  /\ overwritten \in SUBSET LinkAddr

(* The links do not pile up: between two cycles there is none, and within  *)
(* one only the link of its load, however the cycles before ended.         *)
OneLink == \A a \in LinkAddr : link_map[a] => a = addr2 /\ i2 % 2 = 1

StoreSucceeds == i2 % 2 = 1 /\ i2' = i2 + 1 /\ ~failed'

(* A store succeeds only when no write was let through to the address      *)
(* after the load (lock_example.cpp:33-34).                                *)
StoreSeesPassedWrites == [][StoreSucceeds => addr2 \notin passed]_linkVars

(* LOAD-LINK/STORE-CONDITIONAL is an atomic memory operation               *)
(* (lock_example.cpp:36-37): when the store succeeds, no other write was   *)
(* executed at the address after the load.                                 *)
StoreIsAtomic == [][StoreSucceeds => addr2 \notin overwritten]_linkVars
=============================================================================
