--------------------------- MODULE Locking_proofs ---------------------------
(***************************************************************************)
(* Theorems of Lock, for the wiring of lock_example.cpp, in which one      *)
(* initiator locks, and of LoadLink, for any number of addresses, of       *)
(* regular transactions and of iterations.  The threads of                 *)
(* Lock_LT_initiator do not disturb each other: what holds of each alone   *)
(* holds of both together.                                                 *)
(***************************************************************************)
EXTENDS Locking, TLAPS

-----------------------------------------------------------------------------
(* The lock path.                                                          *)

(* Before a read the address of the cycle was written to, and is unlocked. *)
ReadyToRead ==
  \A c \in Clients : i1[c] % 2 = 0 =>
    IF i1[c] = 0 THEN \A a \in LockAddr : ~lock_map[a]
    ELSE ~next_read[c] /\ ~lock_map[addr1[c]]

LockIInv == LockTypeOK /\ ReadyToRead /\ NeverBounced

LEMMA LockParity ==
  ASSUME NEW n \in Nat
  PROVE  n % 2 = 0 <=> (n + 1) % 2 # 0
OBVIOUS

LEMMA LockInitInv == LockInit => LockIInv
<1> SUFFICES ASSUME LockInit PROVE LockIInv
  OBVIOUS
<1>1. (CHOOSE a \in LockAddr : TRUE) \in LockAddr
  BY LockAssumption
<1>2. LockTypeOK
  BY <1>1, LockAssumption DEF LockInit, LockTypeOK, NoLast
<1>3. ReadyToRead /\ NeverBounced
  BY DEF LockInit, ReadyToRead, NeverBounced, NoLast
<1> QED BY <1>2, <1>3 DEF LockIInv

LEMMA IterateInv ==
  ASSUME NEW c \in Clients, Clients = {c}, LockIInv, Iterate(c)
  PROVE  LockIInv'
<1> USE DEF LockIInv
<1> DEFINE lock == i1[c] % 2 = 0
<1>1. PICK a \in LockAddr :
        /\ ~next_read[c] => a = addr1[c]
        /\ Transport(lock, Id(c), a)
        /\ addr1' = [addr1 EXCEPT ![c] = a]
        /\ next_read' = [next_read EXCEPT ![c] = lock /\ ~Bounced(lock, Id(c), a)]
        /\ last' = [last EXCEPT ![c] =
                      [adr |-> a, lock |-> lock, error |-> Bounced(lock, Id(c), a)]]
  BY DEF Iterate
<1>2. i1[c] \in Nat /\ i1[c] + 1 \in 0..LockIterations /\ i1' = [i1 EXCEPT ![c] = @ + 1]
      /\ lock \in BOOLEAN
  BY LockAssumption DEF Iterate, LockTypeOK
<1>3. Bounced(lock, Id(c), a) = FALSE
  BY <1>1, <1>2 DEF Bounced, Id, ReadyToRead, LockTypeOK
<1>4. lock_map' = [lock_map EXCEPT ![a] = lock] /\ lock_id' = [lock_id EXCEPT ![a] = IF lock THEN 0 ELSE @]
  BY <1>1, <1>3 DEF Transport, Mark, Id
<1>5. LockTypeOK'
  <2>1. lock_map' \in [LockAddr -> BOOLEAN] /\ lock_id' \in [LockAddr -> {0}]
    BY <1>2, <1>4 DEF LockTypeOK
  <2>2. /\ i1' \in [Clients -> 0..LockIterations] /\ addr1' \in [Clients -> LockAddr]
        /\ next_read' \in [Clients -> BOOLEAN]
    BY <1>1, <1>2, <1>3 DEF LockTypeOK
  <2>3. last' = [last EXCEPT ![c] = [adr |-> a, lock |-> lock, error |-> FALSE]]
    BY <1>1, <1>3
  <2>4. last' \in [Clients -> [adr : LockAddr, lock : BOOLEAN, error : BOOLEAN]]
    BY <1>2, <2>3 DEF LockTypeOK
  <2> QED BY <2>1, <2>2, <2>4 DEF LockTypeOK
<1>6. NeverBounced'
  BY <1>1, <1>3 DEF NeverBounced, LockTypeOK
<1>7. ReadyToRead'
  <2>1. i1'[c] = i1[c] + 1 /\ i1'[c] # 0
    BY <1>2 DEF LockTypeOK
  <2>2. i1'[c] % 2 = 0 => ~lock
    BY <1>2, <2>1, LockParity
  <2>3. ~lock => ~next_read'[c] /\ addr1'[c] = a /\ ~lock_map'[a]
    BY <1>1, <1>4 DEF LockTypeOK
  <2> QED BY <2>1, <2>2, <2>3 DEF ReadyToRead
<1> QED BY <1>5, <1>6, <1>7

(* The invariant, in the wiring of the example: each read follows an       *)
(* unlocking write to the same address (lock_lt_initiator.h:64-140,        *)
(* lock_interconnect.h:97-123).                                            *)
THEOREM LockInductive ==
  ASSUME NEW c \in Clients, Clients = {c}
  PROVE  LockSpec => []LockIInv
<1>1. LockIInv /\ [LockNext]_lockVars => LockIInv'
  <2> SUFFICES ASSUME LockIInv, [LockNext]_lockVars PROVE LockIInv'
    OBVIOUS
  <2>1. CASE UNCHANGED lockVars
    BY <2>1 DEF LockIInv, LockTypeOK, ReadyToRead, NeverBounced, lockVars
  <2>2. CASE LockNext
    BY <2>2, IterateInv DEF LockNext
  <2> QED BY <2>1, <2>2
<1> QED BY <1>1, LockInitInv, PTL DEF LockSpec

-----------------------------------------------------------------------------
(* The load-link path.                                                     *)

(* A link stands for a load no write has passed since.                     *)
LinkUnbroken == \A a \in LinkAddr : link_map[a] => a \notin passed

LinkIInv == LinkTypeOK /\ OneLink /\ LinkUnbroken

(* The iterations alternate between loads and stores.                      *)
LEMMA LinkParity ==
  ASSUME NEW n \in Nat
  PROVE  n % 2 = 0 => (n + 1) % 2 = 1
OBVIOUS

LEMMA LinkInitInv == LinkInit => LinkIInv
<1> SUFFICES ASSUME LinkInit PROVE LinkIInv
  OBVIOUS
<1>1. (CHOOSE a \in LinkAddr : TRUE) \in LinkAddr
  BY LoadLinkAssumption
<1>2. LinkTypeOK
  <2>1. regular \in [Others -> [phase : Phases, adr : LinkAddr]] /\ addr2 \in LinkAddr
    BY <1>1, Zenon DEF LinkInit, Phases
  <2>2. i2 \in 0..LinkIterations
    BY LoadLinkAssumption DEF LinkInit
  <2>3. /\ link_map \in [LinkAddr -> BOOLEAN] /\ next_load \in BOOLEAN /\ failed \in BOOLEAN
        /\ passed \in SUBSET LinkAddr /\ overwritten \in SUBSET LinkAddr
    BY DEF LinkInit
  <2> QED BY <2>1, <2>2, <2>3 DEF LinkTypeOK
<1>3. OneLink /\ LinkUnbroken
  BY DEF LinkInit, OneLink, LinkUnbroken
<1> QED BY <1>2, <1>3 DEF LinkIInv

LEMMA LoadInv == LinkIInv /\ Load => LinkIInv'
<1> SUFFICES ASSUME LinkIInv, Load PROVE LinkIInv'
  OBVIOUS
<1> USE DEF LinkIInv
<1>1. PICK a \in LinkAddr : /\ addr2' = a
                        /\ link_map' = [link_map EXCEPT ![a] = TRUE]
                        /\ passed' = passed \ {a}
                        /\ overwritten' = overwritten \ {a}
  BY DEF Load
<1>2. i2 \in Nat /\ i2 < LinkIterations /\ i2 % 2 = 0 /\ i2' = i2 + 1
  BY LoadLinkAssumption DEF Load, Looping, LinkTypeOK
<1>3. \A b \in LinkAddr : ~link_map[b]
  BY <1>2 DEF OneLink, LinkTypeOK
<1>4. LinkTypeOK'
  <2>1. i2' \in 0..LinkIterations
    BY <1>2, LoadLinkAssumption
  <2> QED BY <1>1, <2>1 DEF Load, LinkTypeOK
<1>5. i2' % 2 = 1
  BY <1>2, LinkParity
<1>6. OneLink'
  BY <1>1, <1>3, <1>5 DEF OneLink, LinkTypeOK
<1>7. LinkUnbroken'
  BY <1>1, <1>3 DEF LinkUnbroken, LinkTypeOK
<1> QED BY <1>4, <1>6, <1>7

LEMMA StoreInv == LinkIInv /\ StoreConditional => LinkIInv'
<1> SUFFICES ASSUME LinkIInv, StoreConditional PROVE LinkIInv'
  OBVIOUS
<1> USE DEF LinkIInv
<1>1. \A a \in LinkAddr : ~link_map'[a]
  BY DEF StoreConditional, AfterStore, OneLink, LinkTypeOK
<1>2. LinkTypeOK'
  <2>1. link_map' \in [LinkAddr -> BOOLEAN] /\ next_load' \in BOOLEAN /\ failed' \in BOOLEAN
    BY DEF StoreConditional, AfterStore, LinkTypeOK
  <2>2. i2' \in 0..LinkIterations
    BY LoadLinkAssumption DEF StoreConditional, Looping, LinkTypeOK
  <2> QED BY <2>1, <2>2 DEF StoreConditional, LinkTypeOK
<1>3. OneLink' /\ LinkUnbroken'
  BY <1>1 DEF OneLink, LinkUnbroken
<1> QED BY <1>2, <1>3

(* A step of a regular write takes links away and sets none.               *)
LEMMA RegularInv ==
  ASSUME NEW o \in Others, LinkIInv,
         BeginReq(o) \/ Execute(o) \/ BeginResp(o) \/ EndResp(o) \/ Completed(o)
  PROVE  LinkIInv'
<1> USE DEF LinkIInv
<1>1. CASE BeginReq(o)
  <2>1. LinkTypeOK'
    BY <1>1 DEF BeginReq, Cleared, LinkTypeOK, Phases, thread
  <2>2. OneLink'
    BY <1>1 DEF BeginReq, Cleared, LinkTypeOK, OneLink, thread
  <2>3. LinkUnbroken'
    BY <1>1 DEF BeginReq, Cleared, LinkTypeOK, LinkUnbroken
  <2> QED BY <2>1, <2>2, <2>3
<1>2. CASE Execute(o)
  BY <1>2 DEF Execute, Moves, LinkTypeOK, OneLink, LinkUnbroken, Phases, thread
<1>3. CASE BeginResp(o)
  BY <1>3 DEF BeginResp, Moves, LinkTypeOK, OneLink, LinkUnbroken, Phases, thread
<1>4. CASE EndResp(o)
  BY <1>4 DEF EndResp, Moves, Cleared, LinkTypeOK, OneLink, LinkUnbroken, Phases, thread
<1>5. CASE Completed(o)
  BY <1>5 DEF Completed, Moves, LinkTypeOK, OneLink, LinkUnbroken, Phases, thread
<1> QED BY <1>1, <1>2, <1>3, <1>4, <1>5

(* The invariant the theorems below rest on: at most one link is set, by   *)
(* the load that came last, and no write has passed to it                  *)
(* (load_link_interconnect.h:90-120).                                      *)
THEOREM LinkInductive == LinkSpec => []LinkIInv
<1>1. LinkIInv /\ [LinkNext]_linkVars => LinkIInv'
  <2> SUFFICES ASSUME LinkIInv, [LinkNext]_linkVars PROVE LinkIInv'
    OBVIOUS
  <2>1. CASE UNCHANGED linkVars
    BY <2>1 DEF LinkIInv, LinkTypeOK, OneLink, LinkUnbroken, linkVars, thread
  <2>2. CASE LinkNext
    BY <2>2, LoadInv, StoreInv, RegularInv DEF LinkNext
  <2> QED BY <2>1, <2>2
<1> QED BY <1>1, LinkInitInv, PTL DEF LinkSpec

(* Links do not pile up (lock_lt_initiator.h:168-176, 211-219).            *)
THEOREM AtMostOneLink == LinkSpec => []OneLink
BY LinkInductive, PTL DEF LinkIInv

(* A write that was let through after the load makes the store fail        *)
(* (load_link_interconnect.h:104-118).                                     *)
THEOREM PassedWritesSeen == LinkSpec => StoreSeesPassedWrites
<1>1. LinkIInv /\ [LinkNext]_linkVars => (StoreSucceeds => addr2 \notin passed)
  <2> SUFFICES ASSUME LinkIInv, [LinkNext]_linkVars, StoreSucceeds PROVE addr2 \notin passed
    OBVIOUS
  <2>1. i2' # i2 /\ i2 % 2 = 1 /\ ~failed'
    BY DEF StoreSucceeds, LinkIInv, LinkTypeOK
  <2>2. StoreConditional
    BY <2>1 DEF LinkNext, linkVars, thread, Load, BeginReq, Execute, BeginResp, EndResp, Completed
  <2> QED BY <2>1, <2>2 DEF StoreConditional, LinkIInv, LinkTypeOK, LinkUnbroken
<1> QED BY <1>1, LinkInductive, PTL DEF LinkSpec, StoreSeesPassedWrites

-----------------------------------------------------------------------------
(* Both.                                                                   *)

(* The example is the lock path and the load-link path side by side        *)
(* (lock_lt_initiator.h:51-232).                                           *)
THEOREM Composition == Spec => LockSpec /\ LinkSpec
<1>1. Init => LockInit /\ LinkInit
  BY DEF Init
<1>2. [Next]_vars => [LockNext]_lockVars /\ [LinkNext]_linkVars
  BY DEF Next, thread_process_1, thread_process_2, vars
<1> QED BY <1>1, <1>2, PTL DEF Spec, LockSpec, LinkSpec

(* Type correctness of both paths, for any number of addresses, regular    *)
(* transactions and iterations (one locking initiator).                    *)
THEOREM LockingTypes ==
  ASSUME NEW c \in Clients, Clients = {c}
  PROVE  Spec => []TypeOK
<1>1. LockIInv /\ LinkIInv => TypeOK
  BY DEF LockIInv, LinkIInv, TypeOK
<1> QED BY <1>1, Composition, LockInductive, LinkInductive, PTL

(* No transaction of the locking thread is ever bounced, as each of its    *)
(* reads follows an unlocking write to the same address                    *)
(* (lock_lt_initiator.h:64-140, lock_interconnect.h:97-123).               *)
THEOREM LockingNeverBounced ==
  ASSUME NEW c \in Clients, Clients = {c}
  PROVE  Spec => []NeverBounced
<1>1. LockIInv => NeverBounced
  BY DEF LockIInv
<1> QED BY <1>1, Composition, LockInductive, PTL

(* Links do not pile up (lock_lt_initiator.h:168-176, 211-219).            *)
THEOREM LockingOneLink == Spec => []OneLink
BY Composition, AtMostOneLink, PTL

(* A write that was let through after the load makes the store fail        *)
(* (load_link_interconnect.h:104-118).                                     *)
THEOREM LockingPassedWritesSeen == Spec => StoreSeesPassedWrites
BY Composition, PassedWritesSeen, PTL DEF StoreSeesPassedWrites
=============================================================================
