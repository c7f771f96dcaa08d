-------------------------------- MODULE Lock --------------------------------
(***************************************************************************)
(* The lock path of the locking examples: the thread of Lock_LT_initiator  *)
(* that locks (lock_lt_initiator.h, thread_process_1) and the interconnect *)
(* in front of its memory (lock_interconnect.h).  A transaction is decided *)
(* when it passes the interconnect; what its initiator does when it        *)
(* returns concerns its own variables only, so that an iteration is one    *)
(* step.  A transaction of a regular initiator changes nothing here: it is *)
(* let through or bounced.                                                 *)
(*                                                                         *)
(* Clients is the initiators that lock: one in the wiring of               *)
(* lock_example.cpp, more when its #defines are edited.                    *)
(***************************************************************************)
EXTENDS Integers

CONSTANTS Clients,        \* the Lock_LT_initiators
          LockAddr,       \* addresses of the memory
          LockIterations  \* 1000

ASSUME LockAssumption == Clients # {} /\ LockAddr # {} /\ LockIterations \in Nat

VARIABLES
  lock_map,    \* Lock_interconnect: the locked addresses
  lock_id,     \* Lock_interconnect: who locked them
  i1,          \* iterations done by each client
  addr1,       \* address of its transaction
  next_read,   \* it starts a fresh cycle
  last         \* its last transaction: address, lock or unlock, and answer

lockVars == <<lock_map, lock_id, i1, addr1, next_read, last>>

(* Mutant: the clients identify themselves.                                *)
IdOwn(c) == 1

(* lock_extension(): the id is 0, and nobody sets another.                 *)
Id(c) == 0

NoLast == [adr |-> CHOOSE a \in LockAddr : TRUE, lock |-> FALSE, error |-> FALSE]

LockInit ==
  /\ lock_map = [a \in LockAddr |-> FALSE]
  /\ lock_id = [a \in LockAddr |-> 0]
  /\ i1 = [c \in Clients |-> 0]
  /\ addr1 = [c \in Clients |-> CHOOSE a \in LockAddr : TRUE]
  /\ next_read = [c \in Clients |-> TRUE]
  /\ last = [c \in Clients |-> NoLast]

-----------------------------------------------------------------------------
(* Lock_interconnect::locked.                                              *)

Bounced(lock, id, a) ==
  lock_map[a] /\ (lock \/ lock_id[a] \notin {0, id})

(* Mutant: an unlock leaves the address locked.                            *)
MarkOnly(lock, id, a) ==
  /\ lock_map' = [lock_map EXCEPT ![a] = @ \/ lock]
  /\ lock_id' = [lock_id EXCEPT ![a] = IF lock THEN id ELSE @]

Mark(lock, id, a) ==
  /\ lock_map' = [lock_map EXCEPT ![a] = lock]
  /\ lock_id' = [lock_id EXCEPT ![a] = IF lock THEN id ELSE @]

(* b_transport.                                                            *)
Transport(lock, id, a) ==
  IF Bounced(lock, id, a) THEN UNCHANGED <<lock_map, lock_id>> ELSE Mark(lock, id, a)

(* One iteration of thread_process_1: a locking read when i1 is even, an   *)
(* unlocking write when it is odd.  A fresh cycle takes a new address; a   *)
(* locking read that was not bounced asks for one.                         *)
Iterate(c) ==
  /\ i1[c] < LockIterations
  /\ \E a \in LockAddr :
       LET lock    == i1[c] % 2 = 0
           bounced == Bounced(lock, Id(c), a)
       IN /\ ~next_read[c] => a = addr1[c]
          /\ Transport(lock, Id(c), a)
          /\ addr1' = [addr1 EXCEPT ![c] = a]
          /\ next_read' = [next_read EXCEPT ![c] = lock /\ ~bounced]
          /\ last' = [last EXCEPT ![c] = [adr |-> a, lock |-> lock, error |-> bounced]]
  /\ i1' = [i1 EXCEPT ![c] = @ + 1]

LockNext == \E c \in Clients : Iterate(c)

LockSpec == LockInit /\ [][LockNext]_lockVars

-----------------------------------------------------------------------------
LockTypeOK ==
  /\ lock_map \in [LockAddr -> BOOLEAN]
  /\ lock_id \in [LockAddr -> {0}]
  /\ i1 \in [Clients -> 0..LockIterations]
  /\ addr1 \in [Clients -> LockAddr]
  /\ next_read \in [Clients -> BOOLEAN]
  /\ last \in [Clients -> [adr : LockAddr, lock : BOOLEAN, error : BOOLEAN]]

(* Of a single client no transaction is ever bounced: the write before a   *)
(* read goes to the same address and unlocks it, whoever locked it and     *)
(* when.  The branch that retries a read (lock_lt_initiator.h:119-126) is  *)
(* never taken in the wiring of lock_example.cpp.  It holds in spite of    *)
(* next_read, which is set when the read returns: the write that follows   *)
(* draws a new address and unlocks that one (lock_lt_initiator.h:74-77,    *)
(* 126), so that the address that was read stays locked.                   *)
NeverBounced == \A c \in Clients : ~last[c].error
=============================================================================
